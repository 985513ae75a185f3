------------------------------ MODULE Certificates -----------------------------
(* X.509-PQ certificates (src/src/qasp/crypto/certificates.py): self-signed,  *)
(* issued under a CA with constraints that narrow, and chains of them checked *)
(* from root to leaf. A subject keeps its key pair, so the key stands for the *)
(* subject, and may have several certificates at once: of one CA after        *)
(* another, or of different ones.                                             *)
EXTENDS Integers, Sequences, FiniteSets, SequencesExt

CONSTANTS Subjects, TrustedRoots,
          Requested,     \* what certificates are asked for: [ca, classes, depth, spending, days]
          NoLimit,       \* None
          MaxCertificates, MaxDays

ASSUME NoLimitIsNone == NoLimit \notin Int
ASSUME CertificateAssumption ==
    \A r \in Requested : /\ r.depth \in Int \cup {NoLimit} /\ r.spending \in Int \cup {NoLimit}
                         /\ r.days \in Int /\ r.ca \in BOOLEAN

VARIABLES day,
          certs          \* every certificate made: its fields and `under`, the CA
                         \* certificate it was issued under (0: self-signed)

certvars == <<day, certs>>

CertInit == day = 0 /\ certs = << >>

Limited(a, b) == a # NoLimit /\ b # NoLimit
Certificate(subject, issuer, under, request, depth) ==
    [subject |-> subject, issuer |-> issuer, signer |-> issuer, under |-> under, ca |-> request.ca,
     classes |-> request.classes, depth |-> depth, spending |-> request.spending,
     not_before |-> day, not_after |-> day + request.days]

CreateSelfSigned(subject, request) ==
    /\ Len(certs) < MaxCertificates
    /\ certs' = Append(certs, Certificate(subject, subject, 0, request, request.depth))
    /\ UNCHANGED day

\* The checks of create_issued_certificate: not whether the CA is still valid,
\* and a request that states no classes or no spending limit passes.
MayIssue(ca, request) ==
    /\ ca.ca
    /\ ca.depth # NoLimit => ca.depth > 0
    /\ Limited(ca.depth, request.depth) => request.depth < ca.depth
    /\ ca.classes # {} => request.classes \subseteq ca.classes
    /\ Limited(ca.spending, request.spending) => request.spending <= ca.spending
\* A depth that is not stated is one less than that of the CA.
IssuedDepth(ca, request) ==
    IF ca.depth # NoLimit /\ request.depth = NoLimit THEN ca.depth - 1 ELSE request.depth
CreateIssuedCertificate(subject, under, request) ==
    /\ Len(certs) < MaxCertificates
    /\ MayIssue(certs[under], request)
    /\ certs' = Append(certs, Certificate(subject, certs[under].subject, under, request,
                                          IssuedDepth(certs[under], request)))
    /\ UNCHANGED day

CertTick ==
    /\ day < MaxDays
    /\ day' = day + 1
    /\ UNCHANGED certs

CertNext ==
    \/ \E subject \in Subjects, request \in Requested :
           \/ CreateSelfSigned(subject, request)
           \/ \E under \in DOMAIN certs : CreateIssuedCertificate(subject, under, request)
    \/ CertTick

--------------------------------------------------------------------------------
(* verify_certificate_chain, of a sequence of indices into certs              *)

IsValid(cert) == cert.not_before <= day /\ day <= cert.not_after
IsSelfSigned(cert) == cert.issuer = cert.subject
VerifyCertificate(cert, issuer_key) == cert.signer = issuer_key

Narrows(parent, child) ==
    /\ parent.classes # {} /\ child.classes # {} => child.classes \subseteq parent.classes
    /\ Limited(parent.depth, child.depth) => child.depth < parent.depth
    /\ Limited(parent.spending, child.spending) => child.spending <= parent.spending

VerifyCertificateChain(chain) ==
    LET root == certs[Head(chain)]
    IN  /\ Len(chain) >= 2
        /\ root.subject \in TrustedRoots
        /\ IsSelfSigned(root) /\ VerifyCertificate(root, root.subject)
        /\ \A c \in ToSet(chain) : IsValid(certs[c])
        /\ \A c \in ToSet(Front(chain)) : certs[c].ca
        /\ \A i \in 2 .. Len(chain) :
               /\ VerifyCertificate(certs[chain[i]], certs[chain[i - 1]].subject)
               /\ Narrows(certs[chain[i - 1]], certs[chain[i]])

--------------------------------------------------------------------------------
(* Properties                                                                 *)

\* A chain whose certificates were each issued under the one before.
IssuedAlong(chain) ==
    /\ certs[Head(chain)].under = 0
    /\ \A i \in 2 .. Len(chain) : certs[chain[i]].under = chain[i - 1]
CertifiedOnce(subject) == Cardinality({c \in DOMAIN certs : certs[c].subject = subject}) = 1

\* The two sides of the constraints agree, whatever CAs issue in what order and
\* whichever certificates expire: a chain of certificates issued one under the
\* other verifies while all of them are valid; one that verifies was issued so,
\* unless one is repeated or its subject has several; and no chain below a CA
\* with a delegation depth is longer than that depth.
CertificatesHold ==
    \A length \in 2 .. Len(certs) : \A chain \in [1 .. length -> DOMAIN certs] :
        /\ IssuedAlong(chain) =>
               /\ certs[Head(chain)].depth # NoLimit => length - 1 <= certs[Head(chain)].depth
               /\ VerifyCertificateChain(chain) <=>
                      /\ certs[Head(chain)].subject \in TrustedRoots
                      /\ \A i \in 1 .. length : IsValid(certs[chain[i]])
        /\ /\ VerifyCertificateChain(chain) /\ IsInjective(chain)
           /\ \A i \in 1 .. length : CertifiedOnce(certs[chain[i]].subject)
           => IssuedAlong(chain)
================================================================================

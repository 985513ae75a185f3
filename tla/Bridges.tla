--------------------------------- MODULE Bridges ---------------------------------
(* The MCP bridge, which gates the tools of an MCP server with capability     *)
(* tokens of an identity it makes for the server (src/src/qasp/bridges/       *)
(* mcp_bridge.py), and the A2A bridge, which delegates a token with each      *)
(* subtask (a2a_bridge.py). Any number of coroutines may be in connect() at   *)
(* once. An identity is the number of the connect that made it; the MCP       *)
(* server is external and may offer other tools at each listing.              *)
EXTENDS Integers, Sequences, SequencesExt

CONSTANTS McpTools,          \* tools the MCP server may offer
          ToolVerbs,         \* [McpTools -> infer_verbs_from_tool_name]
          AskedVerbs,        \* verb sets the caller of issue_capability_token may ask for
          Connecters,        \* coroutines that call connect()
          Skills,            \* verb sets the tags of the skills in the card cache map to
          RootDepth,         \* 3: depth of the token of a root task
          MaxIdentities, MaxIssued, MaxCalls, MaxTasks, MaxMinutes

ASSUME BridgeAssumption == RootDepth \in Nat

VARIABLES minute,
          bridge,        \* [connected, identity, tools]: _identity, 0 for None; keys of _tool_mappings
          connecting,    \* [Connecters -> place in connect()]
          identities,    \* how many identities were made
          issued,        \* tokens: [by, tool, verbs, until]
          withdrawn,     \* tokens on the list of the revocation checker
          calls,         \* history: what reached the MCP server: [token, tool, identity, at]
          tasks          \* _task_sessions, _task_tokens, _delegation_records

bvars == <<minute, bridge, connecting, identities, issued, withdrawn, calls, tasks>>

NoTaskToken == [verbs |-> {}, depth |-> -1, until |-> -1]

BInit ==
    /\ minute = 0
    /\ bridge = [connected |-> FALSE, identity |-> 0, tools |-> {}]
    /\ connecting = [c \in Connecters |-> "out"]
    /\ identities = 0
    /\ issued = << >> /\ withdrawn = {} /\ calls = << >>
    /\ tasks = << >>

-------------------------------------------------------------------------------
(* MCPBridge                                                                  *)

\* connect looks at _connected only here.
Connect(c) ==
    /\ connecting[c] = "out" /\ ~ bridge.connected
    /\ connecting' = [connecting EXCEPT ![c] = "initialize"]
    /\ UNCHANGED <<minute, bridge, identities, issued, withdrawn, calls, tasks>>

\* The session is up: a new identity, whatever there was before.
SessionUp(c) ==
    /\ connecting[c] = "initialize"
    /\ identities < MaxIdentities
    /\ identities' = identities + 1
    /\ bridge' = [bridge EXCEPT !.identity = identities + 1]
    /\ connecting' = [connecting EXCEPT ![c] = "list"]
    /\ UNCHANGED <<minute, issued, withdrawn, calls, tasks>>

\* Mappings are added and never removed.
ToolsListed(c, offered) ==
    /\ connecting[c] = "list"
    /\ bridge' = [bridge EXCEPT !.connected = TRUE, !.tools = @ \cup offered]
    /\ connecting' = [connecting EXCEPT ![c] = "out"]
    /\ UNCHANGED <<minute, identities, issued, withdrawn, calls, tasks>>

\* MCPConnectionError from either await; the identity stays.
ConnectFails(c) ==
    /\ connecting[c] # "out"
    /\ connecting' = [connecting EXCEPT ![c] = "out"]
    /\ UNCHANGED <<minute, bridge, identities, issued, withdrawn, calls, tasks>>

Disconnect ==
    /\ bridge' = [bridge EXCEPT !.connected = FALSE]
    /\ UNCHANGED <<minute, connecting, identities, issued, withdrawn, calls, tasks>>

\* issue_capability_token, map_oauth_scopes: the verbs asked for, or those of the tool.
IssueCapabilityToken(tool, verbs, until) ==
    /\ Len(issued) < MaxIssued
    /\ bridge.identity # 0
    /\ tool \in bridge.tools
    /\ issued' = Append(issued, [by |-> bridge.identity, tool |-> tool, until |-> until,
                                 verbs |-> IF verbs = {} THEN ToolVerbs[tool] ELSE verbs])
    /\ UNCHANGED <<minute, bridge, connecting, identities, withdrawn, calls, tasks>>

Withdraw(token) ==
    /\ withdrawn' = withdrawn \cup {token}
    /\ UNCHANGED <<minute, bridge, connecting, identities, issued, calls, tasks>>

\* _call_tool_remote: verify_token under the public key of the identity, then
\* the tool and the verb, and no await before the call is sent.
SignedForAnyIdentity(token) == token \notin withdrawn /\ minute < issued[token].until
VerifiesToken(token) == /\ token \notin withdrawn
                        /\ issued[token].by = bridge.identity
                        /\ minute < issued[token].until
CallTool(tool, token) ==
    /\ Len(calls) < MaxCalls
    /\ bridge.connected
    /\ tool \in bridge.tools
    /\ VerifiesToken(token)
    /\ issued[token].tool = tool
    /\ "execute" \in issued[token].verbs
    /\ calls' = Append(calls, [token |-> token, tool |-> tool, identity |-> bridge.identity, at |-> minute])
    /\ UNCHANGED <<minute, bridge, connecting, identities, issued, withdrawn, tasks>>

-------------------------------------------------------------------------------
(* A2ABridge                                                                  *)

\* create_delegation_token of a skill that is in the cache or stands for
\* execute; attenuate_token raises for a parent that is expired or too deep.
SkillVerbs(skill) == IF skill = {} THEN {"execute"} ELSE skill
Delegated(token, skill) ==
    [verbs |-> SkillVerbs(skill) \cap token.verbs, depth |-> token.depth - 1, until |-> token.until]
MayDelegateTask(token) == token.depth > 0 /\ minute < token.until

\* send_task: a fresh token for a root task that names a skill, a delegated one
\* for the subtask of a task with a token; without either the task has none.
Recorded(parent, token) == [parent |-> parent, token |-> token, state |-> "submitted"]
SendRootTask(skill, until) ==
    /\ Len(tasks) < MaxTasks
    /\ tasks' = Append(tasks, Recorded(0, [verbs |-> SkillVerbs(skill), depth |-> RootDepth, until |-> until]))
    /\ UNCHANGED <<minute, bridge, connecting, identities, issued, withdrawn, calls>>
SendBareTask ==
    /\ Len(tasks) < MaxTasks
    /\ tasks' = Append(tasks, Recorded(0, NoTaskToken))
    /\ UNCHANGED <<minute, bridge, connecting, identities, issued, withdrawn, calls>>
SendSubtask(parent, skill, until) ==
    /\ Len(tasks) < MaxTasks
    /\ tasks[parent].token # NoTaskToken => MayDelegateTask(tasks[parent].token)
    /\ tasks' = Append(tasks, Recorded(parent,
                    IF tasks[parent].token # NoTaskToken THEN Delegated(tasks[parent].token, skill)
                    ELSE [verbs |-> SkillVerbs(skill), depth |-> RootDepth, until |-> until]))
    /\ UNCHANGED <<minute, bridge, connecting, identities, issued, withdrawn, calls>>
CancelTask(task) ==
    /\ tasks' = [tasks EXCEPT ![task].state = "canceled"]
    /\ UNCHANGED <<minute, bridge, connecting, identities, issued, withdrawn, calls>>

\* get_delegation_chain, the task itself first.
DelegationsOf ==
    LET chain[task \in 0 .. Len(tasks)] == IF task = 0 THEN << >> ELSE <<task>> \o chain[tasks[task].parent]
    IN  chain

BTick ==
    /\ minute < MaxMinutes
    /\ minute' = minute + 1
    /\ UNCHANGED <<bridge, connecting, identities, issued, withdrawn, calls, tasks>>

McpNext ==
    \/ \E c \in Connecters : \/ Connect(c) \/ SessionUp(c) \/ ConnectFails(c)
                             \/ \E offered \in SUBSET McpTools : ToolsListed(c, offered)
    \/ Disconnect
    \/ \E tool \in McpTools, verbs \in AskedVerbs, until \in 1 .. MaxMinutes :
           IssueCapabilityToken(tool, verbs, until)
    \/ \E token \in DOMAIN issued : Withdraw(token) \/ \E tool \in McpTools : CallTool(tool, token)
    \/ BTick
A2ANext ==
    \/ \E skill \in Skills, until \in 1 .. MaxMinutes :
           SendRootTask(skill, until) \/ \E parent \in DOMAIN tasks : SendSubtask(parent, skill, until)
    \/ SendBareTask
    \/ \E task \in DOMAIN tasks : CancelTask(task)
    \/ BTick

BSpec == BInit /\ [][McpNext \/ A2ANext]_bvars

-------------------------------------------------------------------------------
(* Properties                                                                 *)

\* Over any interleaving of connects, failures and disconnects, the tokens that
\* let calls through form generations: once a call was made under an identity,
\* no token of an earlier one is good for a call again.
OldTokensStayOut ==
    \A i, j \in DOMAIN calls : i <= j => issued[calls[i].token].by <= issued[calls[j].token].by

\* Down a chain of subtasks a token allows no more and no longer than the one it
\* was delegated from, and from the last task that got a fresh one the chain has
\* no more than RootDepth links.
SubtasksNarrow ==
    \A task \in DOMAIN tasks :
        LET chain == DelegationsOf[task]
            fresh == SelectInSeq(chain, LAMBDA t : tasks[t].token.depth = RootDepth)
        IN  tasks[task].token # NoTaskToken =>
                /\ fresh \in 1 .. RootDepth + 1
                /\ tasks[task].token.verbs \subseteq tasks[chain[fresh]].token.verbs
                /\ tasks[task].token.until <= tasks[chain[fresh]].token.until
                /\ \A i \in 1 .. fresh - 1 : tasks[chain[i]].token.depth < tasks[chain[i + 1]].token.depth
\* Neither a bridge that reconnects nor one that delegates hands out, or lets in
\* again, authority that it had taken back or never had.
BridgesKeepAuthority == OldTokensStayOut /\ SubtasksNarrow
===============================================================================

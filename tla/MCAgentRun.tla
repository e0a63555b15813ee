----------------------------- MODULE MCAgentRun -----------------------------
(* An instance of AgentRun for TLC.                                         *)
EXTENDS AgentRun

\* A call is its exchange and its place in it.
CallIds == (1..MaxExchanges) \X (1..MaxCalls)

\* The user is asked through the dialog of either kind of server, or through the
\* page; the memory of one turn with tasks, and of two turns, is what matters.
ShortScenes ==
  [mode : {"child", "packaged"}, kinds : {{"process"}}, turns : {1}, exchanges : {1},
   replacements : {1}, events : {{"withdraw", "rebuild"}}]
  \cup [mode : {"packaged"}, kinds : {{"grant", "ask"}}, turns : {1}, exchanges : {1},
         replacements : {1}, events : {{"escalate", "rebuild"}}]
  \cup [mode : {"packaged"}, kinds : {{"invalid", "create_tasks", "update_task"}},
         turns : {1}, exchanges : {2}, replacements : {0}, events : {{}}]
  \cup [mode : {"packaged"}, kinds : {{"plain"}}, turns : {2}, exchanges : {2},
         replacements : {0}, events : {{"clear", "crash"}}]
  \cup [mode : {"packaged"}, kinds : {{"plain"}}, turns : {2}, exchanges : {1},
         replacements : {2}, events : {{"rebuild", "switch"}}]
=============================================================================

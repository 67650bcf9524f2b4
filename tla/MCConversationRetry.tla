------------------------ MODULE MCConversationRetry ------------------------
(* Instances of ConversationRetry: a job that shows a captcha and two that *)
(* do not, in one conversation.                                            *)
EXTENDS ConversationRetry

CONSTANTS c1, n1, s1, s2
MCConversations == {c1}
MCJobs == {n1, s1, s2}
MCConversationOf == [j \in MCJobs |-> c1]
MCAnswers == {[retryAt |-> "never", token |-> TRUE], [retryAt |-> "later", token |-> FALSE]}
MCPersisted == {[conversation |-> c1, challenge |-> [retryAt |-> "later", token |-> FALSE], silent |-> TRUE]}
=============================================================================

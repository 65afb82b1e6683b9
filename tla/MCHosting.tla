------------------------------ MODULE MCHosting ------------------------------
(* Two runs that want the same port: one over Tor beside the demo, and two    *)
(* local ones, one of them without a chat.                                    *)
EXTENDS Hosting

CONSTANTS h1, h2, p1

Runs == {h1, h2}
Ports == {p1}
CookieLists == {<<"short", "wrong">>, <<"none", "right">>}

Called(isDemo, isLocal, chats) ==
    [demo |-> isDemo, local |-> isLocal, chat |-> chats, port |-> p1]

Pairs ==
    {<<Called(FALSE, FALSE, TRUE), Called(TRUE, TRUE, TRUE)>>,
     <<Called(FALSE, TRUE, TRUE), Called(FALSE, TRUE, FALSE)>>}

Together == {[r \in Runs |-> IF r = h1 THEN p[1] ELSE p[2]] : p \in Pairs}
=============================================================================

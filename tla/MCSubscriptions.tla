--------------------------- MODULE MCSubscriptions ---------------------------
(* Subscription bodies for Subscriptions.                                  *)
EXTENDS Subscriptions

CONSTANTS h1, h2

A == [type |-> "vmess", server |-> h1]
B == [type |-> "trojan", server |-> h2]
Unknown == [type |-> "shadowsocksr", server |-> h1]

\* Nothing, a node, a skipped one before it; two URLs may repeat a node.
MCBodies == {<< >>, <<A>>, <<Unknown, B>>}

\* A list that is the same every time.
MCOneNode == {<<A>>}
=============================================================================

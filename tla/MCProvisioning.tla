---------------------------- MODULE MCProvisioning ----------------------------
(* Provisioning for TLC: the forms that are submitted. *)
EXTENDS Provisioning

Page(fields, key, role, word) ==
  [t \in fields |-> CASE t = "meshKey" -> key [] t = "nodeType" -> role [] OTHER -> word]

OneByte == <<"7", "E">>
TwoBytes == <<"a", "1", ":", "0", "F">>
BadKeys == {<<>>, TwoBytes \o <<":">> \o OneByte, <<"a", "1", ":", "0", "F", "f">>}

\* The board takes it, for a byte of zero and one of 255.
OddKey == <<"z", "z", ":", "-", "1">>
NodePage(key) == Page(Required, key, NodeWord, <<"a", "=", "b">>)
GatewayPage == Page(Tag, TwoBytes, GatewayWord, <<"a", "=", "b">>)

\* Pages filled in well and badly, one with a name of one character, and forms with a
\* field missing.
ManyForms ==
  {Page(Tag, TwoBytes, NodeWord, <<"a", "=", "b">>), NodePage(OddKey),
   [GatewayPage EXCEPT !["nodeName"] = <<"a">>],
   Page(Tag, OneByte, GatewayWord, <<>>), Page(Required, OneByte, <<"other", "word">>, <<>>)}
    \cup {NodePage(key) : key \in BadKeys}
    \cup {[u \in Tag \ {t} |-> GatewayPage[u]] : t \in {"nodeName", "mqttKey"}}

OneForm == {GatewayPage}
=============================================================================

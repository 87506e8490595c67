------------------------ MODULE MCControlPlaneClient ------------------------
(* ControlPlaneClient for TLC: every status line, every header line alone   *)
(* and next to a valid Content-Length, a header of the largest size and one *)
(* above it, bodies shorter than, equal to and longer than declared, and a  *)
(* header that is never closed.                                             *)
EXTENDS ControlPlaneClient

Length(text) == Token("length", text)

Texts == {<<>>, <<1>>, <<0, 2>>, <<1, 0>>, <<2, 2, 2>>, <<3>>, <<1, 1, 3>>}

Lines ==
  {Length(text) : text \in Texts}
    \cup {Token(kind, <<>>) : kind \in {"transfer", "encoding", "nocolon", "other"}}

Bodies ==
  {<<>>, <<Token("{", <<>>)>>, AuthBody("true"), AuthBody("false"),
   Append(AuthBody("true"), Token("x", <<>>))}

Response(status, headers, closed, body) ==
  [status |-> status, headers |-> headers, closed |-> closed, body |-> body]

SmallResponses ==
  {Response(status, <<Length(<<2>>)>>, TRUE, body) : status \in {0, 200, 503}, body \in Bodies}
    \cup {Response(200, <<line>>, TRUE, AuthBody("true")) : line \in Lines}
    \cup {Response(200, <<Length(<<2>>), line>>, TRUE, AuthBody("true")) : line \in Lines}
    \cup {Response(200, <<line, Length(<<2>>)>>, TRUE, AuthBody("true")) : line \in Lines}
    \cup {Response(200, <<Length(<<2>>), Token("other", <<>>), Token("other", <<>>)>>, closed,
                   AuthBody("true")) : closed \in BOOLEAN}
    \cup {Response(200, <<>>, closed, <<>>) : closed \in BOOLEAN}

====

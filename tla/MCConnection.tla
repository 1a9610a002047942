---------------------------- MODULE MCConnection ----------------------------
(* An instance of Connection for TLC: a source of two formats, one of which  *)
(* the injector does not take, and three renderers.                          *)
EXTENDS Connection

CONSTANTS yuv, other

Offered == {<<Plain(other), Plain(yuv)>>, <<Plain(other)>>}
NamedTypes == {Plain(yuv)}
PartialTypes == {{t \in Types : t.kind = yuv}}
Accepted == {Types, {Plain(yuv)}, {Fake(Plain(yuv))}}

=============================================================================

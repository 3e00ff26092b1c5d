------------------------- MODULE MCChannelPropagation -------------------------
(* ChannelPropagation on a small instance for TLC. *)
EXTENDS ChannelPropagation

CONSTANTS a, b, c, x, y

Link(source, from, object, to) ==
    [source |-> source, sourceChannel |-> from, target |-> object, targetChannel |-> to]

\* Two ways from a to c, and one back from c to a.
MCLinks == {Link(a, x, b, x), Link(b, x, c, y), Link(c, y, a, x), Link(a, x, c, y)}
MCHeard == {[subscriber |-> c, source |-> b, type |-> Changed]}
==============================================================================

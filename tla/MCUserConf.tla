---------------------------- MODULE MCUserConf -----------------------------
EXTENDS UserConf

CONSTANTS conf, dir, u, v, nl, sp

MCValidNames  == {conf, dir}
MCBadNames    == {}
MCByte        == {NUL, nl, sp, u, v}
MCBlank       == {NUL, nl, sp}
MCDefaultName == <<u>>
MCDefaultHost == <<v>>
(* A name that is refused, one that is cut, one that fits. *)
MCTyped       == {<<v, sp>>, <<u, v, v>>, <<v, v>>}
(* Typed into ys.conf: nothing, a blank line, a long line. *)
MCTexts       == {<<>>, <<sp>>, <<v, u, v, sp>>}
=============================================================================

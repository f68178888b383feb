---------------------------- MODULE MCKarmaCalls ----------------------------
(***************************************************************************)
(* Instances of KarmaCalls for TLC: two introductions that differ in speed *)
(* only, one whose text is asked for in another language, an outro, and a  *)
(* question that is not cached.                                            *)
(***************************************************************************)
EXTENDS KarmaCalls

Spoken(kind, content, language, speed) ==
    [kind |-> kind, content |-> content, voice |-> "v", language |-> language, speed |-> speed]

Speeches ==
    {Spoken("intro", "hello", "en", 1), Spoken("intro", "hello", "en", 2),
     Spoken("intro", "hello", "de", 1), Spoken("outro", "bye", "en", 1),
     Spoken("question", "why", "en", 1)}
=============================================================================

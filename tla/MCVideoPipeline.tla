-------------------------- MODULE MCVideoPipeline --------------------------
(* Small instances of VideoPipeline for TLC.                                *)
EXTENDS VideoPipeline, TLC

CONSTANT a1

OneClip        == <<"clip">>
AvatarClip     == <<"avatar", "clip">>
AvatarClipText == <<"avatar", "clip", "text">>

MCPrice == [q \in {"gpt", "image", "runway", "heygen"} |-> 1]

(* One or two attempts where the code has two to five: the last one, and    *)
(* one that is tried again.                                                 *)
ImageTwice  == [q \in QueueNames |-> IF q = "image" THEN 2 ELSE 1]
TwoAttempts == [q \in QueueNames |-> IF q = "state" THEN 1 ELSE 2]
=============================================================================

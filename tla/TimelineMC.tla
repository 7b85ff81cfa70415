------------------------------- MODULE TimelineMC -------------------------------
(* A short sequence for TLC: two clips that touch and one that is heard, a     *)
(* second video track, a caption track, and calls that split, cut, insert,     *)
(* overwrite, move, trim, restore and restyle them.                            *)
EXTENDS Timeline

ShortTracks ==
  [t \in {"v", "w", "a", "s"} |->
     [kind |-> CASE t = "a" -> "audio" [] t = "s" -> "caption" [] OTHER -> "video",
      locked |-> FALSE, enabled |-> TRUE]]
ShortSpare == [x |-> "audio"]

Shot(id, track, start, dur, tick, ticks) ==
  [id |-> <<id>>, track |-> track, start |-> start, dur |-> dur,
   source |-> CASE track = "a" -> "sound" [] id = "d" -> "walk" [] OTHER -> "film",
   stream |-> IF track = "a" THEN "audio" ELSE "video",
   tick |-> tick, ticks |-> ticks, look |-> "plain"]
ShortClips == {Shot("c", "v", 0, 3, 0, 5), Shot("d", "v", 3, 2, 0, 2), Shot("m", "a", 0, 2, 0, 2)}
StillShot  == [Shot("p", "v", 2, 1, 0, 1) EXCEPT !.stream = "still"]

ShortIntents ==
  {<<[kind |-> "split-clip", id |-> <<"c">>, at |-> 1, left |-> <<"c", "l">>,
      right |-> <<"c", "r">>]>>,
   <<[kind |-> "remove-range", tracks |-> {"v", "s"}, start |-> 1, dur |-> 1, ripple |-> TRUE]>>,
   <<[kind |-> "set-transition", out |-> <<"c">>, in |-> <<"d">>, len |-> 1],
     [kind |-> "insert-clip", mode |-> "insert", clip |-> Shot("n", "v", 3, 1, 3, 2)]>>,
   <<[kind |-> "batch-replace-range", tracks |-> {"v"}, start |-> 2, dur |-> 2, ripple |-> FALSE,
      places |-> <<StillShot, Shot("q", "a", 1, 1, 0, 1)>>]>>,
   <<[kind |-> "move-clip", id |-> <<"d">>, track |-> "w", start |-> 1],
     [kind |-> "trim-clip", id |-> <<"c">>, start |-> 0, dur |-> 2]>>,
   <<[kind |-> "remove-clip", id |-> <<"c">>, ripple |-> TRUE],
     [kind |-> "restore-clip", clip |-> Shot("x", "v", 3, 1, 0, 1)]>>,
   <<[kind |-> "trim-clip", id |-> <<"d">>, start |-> 4, dur |-> 1,
      range |-> [tick |-> 3, ticks |-> 2]]>>,
   <<[kind |-> "set-clip-transform", id |-> <<"d">>, look |-> "big"],
     [kind |-> "set-clip-audio", id |-> <<"m">>, fades |-> 2, look |-> "soft"],
     [kind |-> "set-clip-speed", id |-> <<"m">>, look |-> "fast"],
     [kind |-> "upsert-caption-cue", cue |-> [id |-> "t", track |-> "s", start |-> 3, dur |-> 1]]>>}
================================================================================

------------------------------- MODULE Timeline ---------------------------------
(* One sequence of a book and the edits of it (src/edits.ts, src/sequences.ts).*)
(* An edit is previewed against a base revision, and its commit projects it    *)
(* once more when it is called and again inside of the serialized mutation.    *)
(* Calls that change tracks read them first and write them after the await.    *)
(* A frame is a unit of the sequence, a tick one of the source; style,         *)
(* transform, audio and speed of a clip are one value, its look.               *)
EXTENDS Integers, Sequences, FiniteSets, FiniteSetsExt, Functions

CONSTANTS Editors, Intents,    \* calls, and the sequences of operations they ask for
          StartTracks, StartClips,
          SpareTracks,         \* the kind of each track that may be added
          StreamTicks,         \* duration of each source stream
          MaxRevisions         \* bound: revisions of the sequence

TrackRows == [kind : {"video", "audio", "caption"}, locked : BOOLEAN, enabled : BOOLEAN]
IsClip(c) == {"id", "track", "start", "dur", "source", "stream", "tick", "ticks", "look"}
               \subseteq DOMAIN c
Measured(c) == c.start \in Nat /\ c.dur \in Nat \ {0} /\ c.tick \in Nat /\ c.ticks \in Nat
IsCue(c)  == {"id", "track", "start", "dur"} \subseteq DOMAIN c
IsOperation(op) ==
  /\ "kind" \in DOMAIN op
  /\ op.kind \in {"insert-clip", "remove-clip", "remove-range", "move-clip", "trim-clip", "split-clip",
                  "set-clip-transform", "set-clip-audio", "set-clip-speed", "set-transition",
                  "upsert-caption-cue", "batch-replace-range", "restore-clip"}
  /\ op.kind \in {"insert-clip", "restore-clip"} => IsClip(op.clip) /\ Measured(op.clip)
  /\ op.kind = "upsert-caption-cue" => IsCue(op.cue)
  /\ op.kind = "batch-replace-range" =>
       op.places \in Seq(Range(op.places)) /\ \A c \in Range(op.places) : IsClip(c) /\ Measured(c)
  /\ op.kind \in {"move-clip", "trim-clip", "remove-range", "batch-replace-range"} =>
       "start" \in DOMAIN op /\ op.start \in Nat
  /\ op.kind \in {"trim-clip", "remove-range", "batch-replace-range"} =>
       "dur" \in DOMAIN op /\ op.dur \in Nat \ {0}
  /\ op.kind = "split-clip" => op.at \in Nat
  /\ op.kind = "trim-clip" /\ "range" \in DOMAIN op => op.range.tick \in Nat /\ op.range.ticks \in Nat

ASSUME TimelineAssumption ==
  /\ StreamTicks \in Nat /\ MaxRevisions \in Nat \ {0}
  /\ \A t \in DOMAIN StartTracks : StartTracks[t] \in TrackRows
  /\ \A t \in DOMAIN SpareTracks : SpareTracks[t] \in {"video", "audio", "caption"}
  /\ \A c \in StartClips : IsClip(c) /\ Measured(c)
  /\ \A intent \in Intents :
       intent \in Seq(Range(intent)) /\ \A op \in Range(intent) : IsOperation(op)

VARIABLES cut,      \* the sequence: tracks, clips, transitions and captions
          log,      \* its revisions: the state and the write set of each commit
          edits     \* the call each editor has in flight

tlVars == <<cut, log, edits>>

Refused == [refused |-> TRUE]
NoEdit  == [phase |-> "idle"]
Base    == [tracks |-> StartTracks, clips |-> StartClips, transitions |-> {}, captions |-> {}]

TimelineInit ==
  /\ cut = Base
  /\ log = <<[writes |-> {}, kind |-> "create", cut |-> Base]>>
  /\ edits = [e \in Editors |-> NoEdit]

--------------------------------------------------------------------------------
(* The operations.                                                             *)
Ends(c)       == c.start + c.dur
Overlap(c, d) == c.start < Ends(d) /\ d.start < Ends(c)
OnTrack(s, t) == {c \in s.clips : c.track = t}
Named(s, i)   == CHOOSE c \in s.clips : c.id = i
HasClip(s, i) == \E c \in s.clips : c.id = i
Mutable(s, t) == t \in DOMAIN s.tracks /\ ~s.tracks[t].locked
HoldsClip(s, i) == HasClip(s, i) /\ Mutable(s, Named(s, i).track)
Timed(c)      == c.stream # "still"
Swap(s, old, new) == [s EXCEPT !.clips = (@ \ {old}) \cup new]
Without(s, gone) ==
  [s EXCEPT !.clips = @ \ gone,
            !.transitions = {x \in @ : \A c \in gone : c.id \notin {x.out, x.in}}]

Placeable(s, c) ==
  /\ c.track \in DOMAIN s.tracks /\ c.start >= 0 /\ c.dur >= 1
  /\ IF Timed(c) THEN /\ s.tracks[c.track].kind = c.stream
                      /\ c.ticks >= 1 /\ c.tick + c.ticks <= StreamTicks
                 ELSE s.tracks[c.track].kind = "video"
Clashes(s, c) ==
  /\ s.tracks[c.track].kind # "audio"
  /\ \E d \in OnTrack(s, c.track) : d.id # c.id /\ Overlap(c, d)

MayInsert(s, op) ==
  /\ ~HasClip(s, op.clip.id) /\ Mutable(s, op.clip.track) /\ Placeable(s, op.clip)
  /\ op.mode = "insert" => \A c \in OnTrack(s, op.clip.track) :
                              Overlap(c, op.clip) => c.start >= op.clip.start
Inserted(s, op) ==
  IF op.mode = "overwrite"
  THEN [Without(s, {c \in OnTrack(s, op.clip.track) : Overlap(c, op.clip)})
          EXCEPT !.clips = @ \cup {op.clip}]
  ELSE [s EXCEPT !.clips = {IF c.track = op.clip.track /\ c.start >= op.clip.start
                            THEN [c EXCEPT !.start = @ + op.clip.dur] ELSE c : c \in @}
                           \cup {op.clip}]

ClipRemoved(s, op) ==
  LET gone == Named(s, op.id)
      rest == Without(s, {gone}) IN
  IF ~op.ripple THEN rest
  ELSE [rest EXCEPT !.clips = {IF c.track = gone.track /\ c.start >= Ends(gone)
                               THEN [c EXCEPT !.start = @ - gone.dur] ELSE c : c \in @}]

TickAt(c, frames) == (c.ticks * frames) \div c.dur
MutantForgetsTick(c, from, to, side) ==
  [c EXCEPT !.id = Append(@, side), !.start = from, !.dur = to - from,
            !.ticks = TickAt(c, to - from)]
SliceOf(c, from, to, side) ==
  LET first == TickAt(c, from - c.start)
      sliced == [c EXCEPT !.id = Append(@, side), !.start = from, !.dur = to - from] IN
  IF ~Timed(c) THEN sliced
  ELSE [sliced EXCEPT !.tick = @ + first, !.ticks = TickAt(c, to - c.start) - first]

RangeRemoved(s, op) ==
  LET end == op.start + op.dur
      hit(c) == c.track \in op.tracks /\ Overlap(c, op)
      back(c) == IF op.ripple THEN [c EXCEPT !.start = @ - op.dur] ELSE c
      kept(c) == IF c.track \in op.tracks /\ c.start >= end THEN back(c) ELSE c
      pieces(c) ==
        (IF c.start < op.start THEN {SliceOf(c, c.start, op.start, "left")} ELSE {})
        \cup (IF Ends(c) > end THEN {back(SliceOf(c, end, Ends(c), "right"))} ELSE {})
      cutClips == {c \in s.clips : hit(c)} IN
  [Without(s, cutClips) EXCEPT
     !.clips = {kept(c) : c \in @} \cup UNION {pieces(c) : c \in cutClips},
     !.captions = {kept(c) : c \in @}]

Moved(s, op) == LET c == Named(s, op.id) IN
  Swap(s, c, {[c EXCEPT !.track = op.track, !.start = op.start]})
MayMove(s, op) ==
  /\ HoldsClip(s, op.id) /\ Mutable(s, op.track)
  /\ s.tracks[op.track].kind = s.tracks[Named(s, op.id).track].kind
  /\ ~Clashes(Moved(s, op), Named(Moved(s, op), op.id))

(* A trim may name the range of the source that the clip is to show; without   *)
(* one, the clip shows no more ticks than it has frames.                       *)
NamesRange(op) == "range" \in DOMAIN op
Trimmed(s, op) ==
  LET c == Named(s, op.id)
      placed == [c EXCEPT !.start = op.start, !.dur = op.dur] IN
  Swap(s, c,
       {IF NamesRange(op) THEN [placed EXCEPT !.tick = op.range.tick, !.ticks = op.range.ticks]
        ELSE IF Timed(c) THEN [placed EXCEPT !.ticks = Min({@, op.dur})] ELSE placed})
MayTrim(s, op) ==
  /\ HoldsClip(s, op.id)
  /\ NamesRange(op) => /\ Timed(Named(s, op.id)) /\ op.range.ticks >= 1
                       /\ op.range.tick + op.range.ticks <= StreamTicks
  /\ ~Clashes(Trimmed(s, op), Named(Trimmed(s, op), op.id))

MaySplit(s, op) ==
  /\ HoldsClip(s, op.id)
  /\ LET c == Named(s, op.id)
         left == TickAt(c, op.at - c.start) IN
     /\ c.start < op.at /\ op.at < Ends(c)
     /\ Timed(c) => left > 0 /\ c.ticks - left > 0
     /\ op.left # op.right
     /\ \A i \in {op.left, op.right} \ {c.id} : ~HasClip(s, i)
SplitParts(c, op) ==
  LET left == TickAt(c, op.at - c.start) IN
  {[c EXCEPT !.id = op.left, !.dur = op.at - c.start,
             !.ticks = IF Timed(c) THEN left ELSE @],
   [c EXCEPT !.id = op.right, !.start = op.at, !.dur = Ends(c) - op.at,
             !.tick  = IF Timed(c) THEN @ + left ELSE @,
             !.ticks = IF Timed(c) THEN @ - left ELSE @]}
SplitDone(s, op) == LET c == Named(s, op.id) IN
  [Without(s, {c}) EXCEPT !.clips = @ \cup SplitParts(c, op)]

(* set-clip-transform asks for the clip only: not whether its track is locked. *)
MayRestyle(s, op) ==
  /\ HasClip(s, op.id)
  /\ op.kind # "set-clip-transform" => HoldsClip(s, op.id)
  /\ op.kind = "set-clip-speed" => Timed(Named(s, op.id))
  /\ op.kind = "set-clip-audio" => op.fades <= Named(s, op.id).dur
Restyled(s, op) == LET c == Named(s, op.id) IN Swap(s, c, {[c EXCEPT !.look = op.look]})

MayJoin(s, op) ==
  /\ HoldsClip(s, op.out) /\ HasClip(s, op.in)
  /\ LET out == Named(s, op.out)
         in == Named(s, op.in) IN
     /\ s.tracks[out.track].kind = "video" /\ in.track = out.track
     /\ op.len > 0 => op.len <= Min({out.dur, in.dur}) /\ Ends(out) = in.start
Joined(s, op) ==         \* length 0: the transition is taken away
  [s EXCEPT !.transitions = {x \in @ : x.out # op.out \/ x.in # op.in} \cup
     IF op.len = 0 THEN {}
     ELSE {[out |-> op.out, in |-> op.in, len |-> op.len, track |-> Named(s, op.out).track]}]

MayCaption(s, op) == Mutable(s, op.cue.track) /\ s.tracks[op.cue.track].kind = "caption"
Captioned(s, op)  == [s EXCEPT !.captions = {c \in @ : c.id # op.cue.id} \cup {op.cue}]

Restyles == {"set-clip-transform", "set-clip-audio", "set-clip-speed"}
May(s, op) ==
  CASE op.kind = "insert-clip"     -> MayInsert(s, op)
    [] op.kind = "remove-clip"     -> HoldsClip(s, op.id)
    [] op.kind = "remove-range"    -> \A t \in op.tracks : Mutable(s, t)
    [] op.kind = "move-clip"       -> MayMove(s, op)
    [] op.kind = "trim-clip"       -> MayTrim(s, op)
    [] op.kind = "split-clip"      -> MaySplit(s, op)
    [] op.kind \in Restyles        -> MayRestyle(s, op)
    [] op.kind = "set-transition"  -> MayJoin(s, op)
    [] op.kind = "upsert-caption-cue" -> MayCaption(s, op)
Applied(s, op) ==
  CASE op.kind = "insert-clip"     -> Inserted(s, op)
    [] op.kind = "remove-clip"     -> ClipRemoved(s, op)
    [] op.kind = "remove-range"    -> RangeRemoved(s, op)
    [] op.kind = "move-clip"       -> Moved(s, op)
    [] op.kind = "trim-clip"       -> Trimmed(s, op)
    [] op.kind = "split-clip"      -> SplitDone(s, op)
    [] op.kind \in Restyles        -> Restyled(s, op)
    [] op.kind = "set-transition"  -> Joined(s, op)
    [] op.kind = "upsert-caption-cue" -> Captioned(s, op)
Step1(s, op) == IF s = Refused THEN Refused ELSE IF May(s, op) THEN Applied(s, op) ELSE Refused

(* batch-replace-range removes the range and lays each placement over it;      *)
(* restore-clip lays a clip of an earlier action over what is there.           *)
Parts(op) ==
  CASE op.kind = "batch-replace-range" ->
         <<[op EXCEPT !.kind = "remove-range"]>> \o
         [i \in DOMAIN op.places |-> [kind |-> "insert-clip", mode |-> "overwrite",
                                      clip |-> op.places[i]]]
    [] op.kind = "restore-clip" ->
         <<[kind |-> "insert-clip", mode |-> "overwrite", clip |-> op.clip]>>
    [] OTHER -> <<op>>
Found(op) == op.kind = "restore-clip" => \E i \in DOMAIN log : log[i].kind = "commit_edit"

(* What the keys of the schema and the rules of placement ask of a sequence,   *)
(* and what validateSequenceProjection asks besides: a transition has the      *)
(* track of its clips.                                                         *)
Kept(s) ==
  /\ \A c, d \in s.clips : c.id = d.id => c = d
  /\ \A c \in s.clips : Placeable(s, c) /\ ~Clashes(s, c)
  /\ \A x \in s.transitions : HasClip(s, x.out) /\ HasClip(s, x.in)
  /\ \A c \in s.captions : c.track \in DOMAIN s.tracks /\ s.tracks[c.track].kind = "caption"
Fits(s, x) == Named(s, x.out).track = x.track /\ Named(s, x.in).track = x.track
Consistent(s) == Kept(s) /\ \A x \in s.transitions : Fits(s, x)

ASSUME StartIsConsistent == Consistent(Base)

(* An intent, one operation after the other; it writes what lies on the        *)
(* tracks, and never a track.                                                  *)
Done(s, parts) ==
  LET after[n \in 0..Len(parts)] == IF n = 0 THEN s ELSE Step1(after[n - 1], parts[n]) IN after
Taken(s, op) == Done(s, Parts(op))[Len(Parts(op))]
Carried(s, intent) ==
  LET after[n \in 0..Len(intent)] == IF n = 0 THEN s ELSE Taken(after[n - 1], intent[n]) IN after
Laid(s, out) ==
  [s EXCEPT !.clips = out.clips, !.transitions = out.transitions, !.captions = out.captions]
Projected(s, intent) ==
  LET out == Carried(s, intent)[Len(intent)] IN
  IF (\E i \in DOMAIN intent : ~Found(intent[i])) \/ out = Refused THEN Refused
  ELSE IF Consistent(Laid(s, out)) THEN Laid(s, out) ELSE Refused

--------------------------------------------------------------------------------
(* What an intent writes, and the commits since its base that wrote the same.  *)
ClipsOf(op) == IF op.kind = "insert-clip" THEN {op.clip.id}
               ELSE IF "id" \in DOMAIN op THEN {op.id} ELSE {}
WritesOf(s, op) ==
  {<<"clip", i>> : i \in ClipsOf(op)} \cup
  CASE op.kind \in {"insert-clip", "restore-clip"} -> {<<"track", op.clip.track>>}
    [] op.kind = "remove-clip" /\ HasClip(s, op.id) ->
         LET gone == Named(s, op.id) IN
         {<<"track", gone.track>>} \cup
         {<<"clip", c.id>> : c \in {d \in OnTrack(s, gone.track) :
                                      op.ripple /\ d.start >= Ends(gone)}}
    [] op.kind = "remove-range" -> {<<"track", t>> : t \in op.tracks}
    [] op.kind = "move-clip"    -> {<<"track", op.track>>}
    [] op.kind = "set-transition" ->
         {<<"clip", op.out>>, <<"clip", op.in>>} \cup
         (IF op.len = 0 THEN {} ELSE {<<"transition", Named(s, op.out).track, op.out, op.in>>,
                                      <<"track", Named(s, op.out).track>>})
    [] op.kind = "upsert-caption-cue" -> {<<"caption", op.cue.id>>, <<"track", op.cue.track>>}
    [] op.kind = "batch-replace-range" ->
         {<<"track", t>> : t \in op.tracks} \cup
         {<<"track", op.places[i].track>> : i \in DOMAIN op.places}
    [] OTHER -> {}
WriteSet(s, intent) == UNION {WritesOf(s, intent[i]) : i \in DOMAIN intent}
Conflicts(base, writes) ==
  UNION {writes \cap log[i].writes : i \in base + 1 .. Len(log)}

--------------------------------------------------------------------------------
Tip == Len(log)
Goes(e, call) == edits' = [edits EXCEPT ![e] = call]
Refuse(e) == Goes(e, NoEdit) /\ UNCHANGED <<cut, log>>
(* A mutation that changes no row mints no commit.                             *)
Commits(kind, s, writes) ==
  /\ s = cut \/ Tip < MaxRevisions
  /\ cut' = s
  /\ log' = IF s = cut THEN log
            ELSE Append(log, [kind |-> kind, writes |-> writes, cut |-> s])

(* The preview hash covers the intent, its write set and conflicts, and the    *)
(* sequence before and after it.                                               *)
Preview(e, intent, base) ==
  LET after == Projected(cut, intent) IN
  /\ edits[e].phase = "idle" /\ base <= Tip
  /\ after # Refused /\ Conflicts(base, WriteSet(cut, intent)) = {}
  /\ Goes(e, [phase |-> "previewed", intent |-> intent, base |-> base,
              before |-> cut, after |-> after])
  /\ UNCHANGED <<cut, log>>
MutantCommittable(call) == TRUE
Committable(call) ==
  /\ cut = call.before /\ Projected(cut, call.intent) = call.after
  /\ Conflicts(call.base, WriteSet(cut, call.intent)) = {}
BeginCommit(e) ==
  /\ edits[e].phase = "previewed"
  /\ IF Committable(edits[e]) THEN Goes(e, [edits[e] EXCEPT !.phase = "commit"])
                              ELSE Goes(e, NoEdit)
  /\ UNCHANGED <<cut, log>>
CommitEdit(e) ==
  /\ edits[e].phase = "commit"
  /\ IF Committable(edits[e])
     THEN Commits("commit_edit", edits[e].after, WriteSet(cut, edits[e].intent)) /\ Goes(e, NoEdit)
     ELSE Refuse(e)

(* restore replaces what is on the tracks of the restored state; tracks keep   *)
(* their own rows, and a clip whose track is gone cannot be written back.  A   *)
(* clip, or a caption, that lies on another track by now goes back to its own. *)
BeginRestore(e, r) ==
  /\ edits[e].phase = "idle" /\ r \in DOMAIN log /\ Consistent(log[r].cut)
  /\ Goes(e, [phase |-> "restore", base |-> Tip, source |-> log[r].cut])
  /\ UNCHANGED <<cut, log>>
PutBack(source) ==
  LET on  == DOMAIN source.tracks
      ids == {c.id : c \in source.clips}
      stay == {c \in cut.clips : c.track \notin on /\ c.id \notin ids} IN
  [cut EXCEPT !.clips = stay \cup source.clips,
              !.transitions =
                 {x \in @ : x.track \notin on /\ {x.out, x.in} \subseteq ids \cup {c.id : c \in stay}}
                   \cup source.transitions,
              !.captions = {c \in @ : c.track \notin on /\ \A d \in source.captions : d.id # c.id}
                             \cup source.captions]
RestoreWrites(source) ==
  {<<"track", t>> : t \in DOMAIN cut.tracks \cup DOMAIN source.tracks} \cup
  {<<"clip", c.id>> : c \in cut.clips \cup source.clips}
AtBase(call) == call.base = Tip
CommitRestore(e) ==
  /\ edits[e].phase = "restore"
  /\ LET source == edits[e].source IN
     IF AtBase(edits[e]) /\ \A c \in source.clips \cup source.captions : c.track \in DOMAIN cut.tracks
     THEN Commits("restore_edit", PutBack(source), RestoreWrites(source)) /\ Goes(e, NoEdit)
     ELSE Refuse(e)

(* updateTrack, addTrack and removeTrack read, await, and write what they read.*)
BeginUpdate(e, t, row) ==
  /\ edits[e].phase = "idle" /\ t \in DOMAIN cut.tracks
  /\ row \in {[cut.tracks[t] EXCEPT !.locked = ~@], [cut.tracks[t] EXCEPT !.enabled = ~@]}
  /\ Goes(e, [phase |-> "update", track |-> t, row |-> row])
  /\ UNCHANGED <<cut, log>>
CommitUpdate(e) ==
  /\ edits[e].phase = "update"
  /\ LET t == edits[e].track IN
     IF t \in DOMAIN cut.tracks
     THEN Commits("update_sequence_track", [cut EXCEPT !.tracks[t] = edits[e].row], {<<"track", t>>})
     ELSE UNCHANGED <<cut, log>>
  /\ Goes(e, NoEdit)
AddTrack(e, t) ==
  /\ edits[e].phase = "idle" /\ t \notin DOMAIN cut.tracks
  /\ \A i \in DOMAIN log : t \notin DOMAIN log[i].cut.tracks          \* a new ID
  /\ Commits("add_sequence_track",
       [cut EXCEPT !.tracks = [u \in DOMAIN @ \cup {t} |->
          IF u = t THEN [kind |-> SpareTracks[t], locked |-> FALSE, enabled |-> TRUE] ELSE @[u]]],
       {<<"track", t>>})
  /\ UNCHANGED edits
Removable(t) ==
  /\ \A c \in cut.clips \cup cut.captions : c.track # t
  /\ \E u \in DOMAIN cut.tracks \ {t} : cut.tracks[u].kind = cut.tracks[t].kind
BeginRemove(e, t) ==
  /\ edits[e].phase = "idle" /\ t \in DOMAIN cut.tracks /\ Removable(t)
  /\ Goes(e, [phase |-> "remove", track |-> t])
  /\ UNCHANGED <<cut, log>>
(* The row is deleted with everything that is on the track by then.            *)
CommitRemove(e) ==
  /\ edits[e].phase = "remove"
  /\ LET t == edits[e].track
         rest == Without(cut, OnTrack(cut, t)) IN
     Commits("remove_sequence_track",
       [rest EXCEPT !.tracks = [u \in DOMAIN @ \ {t} |-> @[u]],
                    !.transitions = {x \in @ : x.track # t},
                    !.captions = {c \in @ : c.track # t}], {<<"track", t>>})
  /\ Goes(e, NoEdit)

TimelineNext ==
  \E e \in Editors :
    \/ \E intent \in Intents, base \in DOMAIN log : Preview(e, intent, base)
    \/ BeginCommit(e) \/ CommitEdit(e)
    \/ \E r \in DOMAIN log : BeginRestore(e, r)
    \/ CommitRestore(e)
    \/ \E t \in DOMAIN cut.tracks, l, n \in BOOLEAN :
         BeginUpdate(e, t, [kind |-> cut.tracks[t].kind, locked |-> l, enabled |-> n])
    \/ CommitUpdate(e)
    \/ \E t \in DOMAIN SpareTracks : AddTrack(e, t)
    \/ \E t \in DOMAIN cut.tracks : BeginRemove(e, t)
    \/ CommitRemove(e)
TimelineSpec == TimelineInit /\ [][TimelineNext]_tlVars

--------------------------------------------------------------------------------
(* Types, with what the schema keys: clips by ID, captions by ID, transitions  *)
(* by their track and pair, and everything on a track of the sequence.         *)
Unique(s) ==
  /\ \A x, y \in s.transitions : x.track = y.track /\ x.out = y.out /\ x.in = y.in => x = y
  /\ \A c, d \in s.captions : c.id = d.id => c = d
TimelineTypeOK ==
  /\ \A t \in DOMAIN cut.tracks : cut.tracks[t] \in TrackRows
  /\ Kept(cut) /\ Unique(cut)
  /\ Tip \in 1..MaxRevisions /\ log[Tip].cut = cut
  /\ \A e \in Editors :
       edits[e].phase \in {"idle", "previewed", "commit", "restore", "update", "remove"}

Placement(s, t) == {<<c.id, c.start, c.dur, c.tick, c.ticks>> : c \in OnTrack(s, t)}
LastCommit == log'[Len(log')]
(* docs/mvp-prd.md:312: whatever an edit is made of, and whoever locks the     *)
(* track between its preview and its commit, it moves, cuts, adds and removes  *)
(* nothing on a track that is locked.                                          *)
LockedKeepsPlacement ==
  [][log' # log /\ LastCommit.kind = "commit_edit" =>
       \A t \in DOMAIN cut.tracks :
         cut.tracks[t].locked => Placement(cut', t) = Placement(cut, t)]_tlVars

(* docs/mvp-prd.md:312, "locked tracks reject mutation": no edit changes a     *)
(* clip of a locked track in any of its fields.                                *)
LockedRejectsMutation ==
  [][log' # log /\ LastCommit.kind = "commit_edit" =>
       \A t \in DOMAIN cut.tracks :
         cut.tracks[t].locked => OnTrack(cut', t) = OnTrack(cut, t)]_tlVars

(* docs/mvp-prd.md:142: what commits is what was previewed, whatever others    *)
(* committed in between, and a restore replaces the state its caller named.    *)
CommitsWhatWasShown ==
  [][\A e \in Editors :
       log' # log /\ edits'[e] # edits[e] =>
         /\ LastCommit.kind = "commit_edit" => cut = edits[e].before /\ cut' = edits[e].after
         /\ LastCommit.kind = "restore_edit" => cut = log[edits[e].base].cut]_tlVars

Shows(c, source, t) == Timed(c) /\ c.source = source /\ c.tick <= t /\ t < c.tick + c.ticks
ShownTwice(s, source, t) ==
  \E c, d \in s.clips : c # d /\ Shows(c, source, t) /\ Shows(d, source, t)
ChoosesRange(op) ==
  \/ op.kind \in {"insert-clip", "restore-clip", "batch-replace-range"}
  \/ op.kind = "trim-clip" /\ NamesRange(op)
(* docs/mvp-prd.md:820: an edit shows no tick of a source twice that was shown *)
(* once.  However its operations split, cut, trim, move and round, and         *)
(* whatever was committed before it, two clips show a tick only if two did     *)
(* before the edit, unless an operation names a range of the source itself.    *)
CutsShowOnce ==
  [][\A e \in Editors :
       /\ log' # log /\ LastCommit.kind = "commit_edit" /\ edits'[e] # edits[e]
       /\ \A i \in DOMAIN edits[e].intent : ~ChoosesRange(edits[e].intent[i])
       => \A c \in cut'.clips, t \in 0..StreamTicks :
            ShownTwice(cut', c.source, t) => ShownTwice(cut, c.source, t)]_tlVars

(* edits.ts:1022, validateSequenceProjection: what is committed could be       *)
(* projected again.  A restore writes a state that it has validated for        *)
(* itself beside the tracks that were added since.                             *)
TransitionsFit == \A x \in cut.transitions : Fits(cut, x)

(* sequences.ts:332: only an empty track is removed.                           *)
RemovedIsEmpty ==
  [][\A t \in DOMAIN cut.tracks \ DOMAIN cut'.tracks : OnTrack(cut, t) = {}]_tlVars

(* An edit does what was shown, and leaves locked tracks in place.             *)
EditsAreFaithful == LockedKeepsPlacement /\ CommitsWhatWasShown
================================================================================

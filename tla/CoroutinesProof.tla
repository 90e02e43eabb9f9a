-------------------------- MODULE CoroutinesProof --------------------------
(***************************************************************************)
(* Proofs about Coroutines, for any tasks and any number of wrappers.       *)
(***************************************************************************)
EXTENDS Coroutines, FiniteSetTheorems, TLAPS

(* The frame is somewhere between its first step and its end. *)
Live(fs, f) ==
  fs[f].at \in {"leaf", "awaiting", "anyof", "running", "calling", "starting", "won",
                "notifying", "unwinding"}

(* What each kind of frame may be at; wrappers obey no flag but their own. *)
KindInv(fs) ==
  /\ fs[AnyFrame].at \in {"unborn", "running", "anyof", "unwinding", "done", "destroyed"}
  /\ \A w \in Wrap : fs[w].at \notin {"leaf", "starting", "anyof"} /\ fs[w].root = None
  /\ \A t \in Task : fs[t].at \notin {"won", "notifying", "anyof"}

FlagInv(fs) ==
  \A f \in Frame :
    /\ fs[f].at \in {"unborn", "destroyed"} => fs[f].holder = None
    /\ fs[f].canceled => fs[f].holder = None
    /\ fs[f].at \in {"unborn", "created"} => fs[f].parent = None /\ fs[f].root = None
    /\ fs[f].at = "unborn" => ~fs[f].canceled

(***************************************************************************)
(* A task holds the one it awaits and nothing else, a wrapper its task, and *)
(* AnyOf first the tasks it is given and then the wrappers.                 *)
(***************************************************************************)
HolderInv(fs) ==
  /\ \A f \in Frame : \A p \in Task : fs[f].holder = p =>
       fs[p].at \in {"calling", "awaiting"} /\ f \in Task \cup {AnyFrame}
  /\ \A f \in Frame : \A w \in Wrap : fs[f].holder = w =>
       /\ f \in Task /\ fs[w].at \notin {"unborn", "destroyed"}
       /\ fs[w].at \in {"created", "running"} => fs[f].at = "created"
       /\ fs[w].at \notin {"calling", "awaiting"} => fs[f].at \in {"created", "done"}
  /\ \A f \in Frame : fs[f].holder = AnyFrame =>
       \/ /\ f \in Task /\ fs[f].at = "created" /\ \A w \in Wrap : fs[w].at = "unborn"
          /\ fs[AnyFrame].at \in {"running", "unwinding", "done"}
       \/ f \in Wrap /\ fs[AnyFrame].at \in {"running", "anyof", "unwinding"}
  /\ \A f, g \in Frame :
       fs[f].holder = fs[g].holder /\ fs[f].holder \in Task \cup Wrap => f = g

(* Who waits holds what it waits for, and the flag is passed on. *)
Awaits(fs, p, c) ==
  fs[c].holder = p /\ (Live(fs, c) \/ fs[c].at = "done") /\ fs[c].root = RootOf(fs, p)

AwaitInv(fs) ==
  \A p \in Frame :
    /\ fs[p].at = "calling" => \E c \in Frame : Awaits(fs, p, c) /\ fs[c].parent = None
    /\ fs[p].at = "awaiting" => \E c \in Frame : Awaits(fs, p, c) /\ fs[c].parent = p

AwaitedInv(fs) ==
  /\ \A f \in Frame : Live(fs, f) /\ fs[f].root # None =>
       fs[f].holder # None /\ fs[fs[f].holder].at \in {"calling", "awaiting"}
  /\ \A f \in Frame \ Wrap : Live(fs, f) /\ fs[f].holder # None => fs[f].root # None
  /\ \A f \in Frame : Live(fs, f) /\ fs[f].parent # None => fs[f].root # None

(* No chain of holders is closed. *)
Forest(fs) ==
  \A set \in SUBSET Frame : set # {} => \E f \in set : fs[f].holder \notin set

(* A wrapper belongs to AnyOf, with which it begins and by which it is canceled. *)
WrapInv(fs) ==
  \A w \in Wrap :
    /\ fs[w].at \notin {"unborn", "destroyed"} /\ ~fs[w].canceled => fs[w].holder = AnyFrame
    /\ fs[w].at \in {"created", "running"} => \E c \in Task : fs[c].holder = w
    /\ fs[w].at = "created" => ~fs[w].canceled /\ fs[AnyFrame].at = "running"
    /\ fs[w].at = "unborn" =>
         (\A v \in Wrap : fs[v].at = "unborn") /\ fs[AnyFrame].at # "anyof"
    /\ fs[w].at \in {"running", "won"} => ~fs[w].canceled
    /\ fs[AnyFrame].at = "unborn" => fs[w].at = "unborn"

GivenInv(fs) ==
  fs[AnyFrame].at = "running" /\ (\A w \in Wrap : fs[w].at = "unborn") =>
    Cardinality({f \in Frame : fs[f].holder = AnyFrame}) = Wrappers

FrameInv(fs) ==
  /\ fs \in [Frame -> Promise]
  /\ KindInv(fs) /\ FlagInv(fs) /\ HolderInv(fs) /\ AwaitInv(fs) /\ AwaitedInv(fs)
  /\ Forest(fs) /\ WrapInv(fs) /\ GivenInv(fs)

(* Who awaits has not missed the end of what it awaits. *)
AwaitedLive(fs) ==
  \A c \in Frame : fs[c].holder # None /\ fs[c].at = "done" => fs[fs[c].holder].at # "awaiting"

(***************************************************************************)
(* Frames below the top of the stack are in a call, each below what it      *)
(* holds.  Who is resumed by a suspended frame is at the bottom, until AnyOf *)
(* suspends: before, its wrapper that executes was begun by it.             *)
(***************************************************************************)
InCall(fs, f, rs) ==
  \/ fs[f].at \in {"calling", "starting", "notifying"}
  \/ f = AnyFrame /\ fs[f].at = "running" /\ ~rs

BottomInv(fs, st) ==
  /\ \A i \in DOMAIN st : i < Len(st) => fs[st[i]].parent = None
  /\ \A i \in DOMAIN st : st[i] = AnyFrame => i < Len(st)
  /\ \A i, j \in DOMAIN st : st[i] \in Wrap /\ st[j] \in Wrap => i = j
  /\ \A i, j \in DOMAIN st : st[i] \in Wrap /\ st[j] = AnyFrame => i < j

StackInv(fs, st, rs) ==
  /\ ToSet(st) = {f \in Frame : fs[f].at \in Execution}
  /\ \A i, j \in DOMAIN st : st[i] = st[j] => i = j
  /\ \A i \in DOMAIN st : i > 1 => InCall(fs, st[i], rs)
  /\ \A i, j \in DOMAIN st : fs[st[i]].holder = st[j] /\ st[j] # AnyFrame => i < j
  /\ ~rs => BottomInv(fs, st)

(* AnyOf waits until there is a result; wrappers execute before only by its call. *)
ResultInv(fs, rt, rs, ws) ==
  /\ \A w \in Wrap : fs[w].at \in {"won", "calling"} => rt = None
  /\ \A w \in Wrap : fs[w].at = "unborn" => ~rs
  /\ rs => \A w \in Wrap : fs[w].at \notin {"created", "running", "calling"}
  /\ fs[AnyFrame].at = "anyof" <=> rs /\ rt = None
  /\ ws # {} => rt # None

OwnerInv(fs, ts, sf) ==
  /\ \A t \in ToSet(ts) : /\ fs[t].holder = None /\ fs[t].root = None /\ ~fs[t].canceled
                          /\ fs[t].at \notin {"unborn", "created", "destroyed"}
  /\ \A f \in Task \cup {AnyFrame} :
       Live(fs, f) /\ fs[f].holder = None /\ ~fs[f].canceled => f \in ToSet(ts)
  /\ \A t \in sf : fs[t].at \in {"done", "destroyed"} /\ ~fs[t].failed

Whole(fs, st, rt, rs, ws, ts, sf) ==
  /\ FrameInv(fs) /\ AwaitedLive(fs) /\ st \in Seq(Frame) /\ StackInv(fs, st, rs)
  /\ ResultInv(fs, rt, rs, ws) /\ OwnerInv(fs, ts, sf)

IInv == TypeOK /\ Whole(frames, stack, ret, resumable, winners, tasks, surfaced)

-----------------------------------------------------------------------------
(* Frames and promises                                                       *)

(* Tasks, AnyOf and its wrappers are three kinds of frame. *)
LEMMA Kinds ==
  /\ Wrap \subseteq Frame /\ Task \subseteq Frame /\ AnyFrame \in Frame
  /\ Frame = Task \cup {AnyFrame} \cup Wrap
  /\ AnyFrame \notin Task /\ AnyFrame \notin Wrap
  /\ \A t \in Task : t \notin Wrap /\ t # None /\ t # AnyFrame
  /\ \A w \in Wrap : w # None /\ w # AnyFrame
  /\ None \notin Frame /\ AnyFrame # None /\ Wrap # {}
BY FramesAssumption DEF Frame, Wrap

(* Frames change hands, but only ones that hold nothing get a holder. *)
LEMMA ForestKept ==
  ASSUME NEW fs, NEW gs, Forest(fs), NEW leaves \in SUBSET Frame, None \notin Frame,
         \A f \in Frame : gs[f].holder \notin leaves,
         \A f \in Frame \ leaves : gs[f].holder \in {fs[f].holder, None}
  PROVE  Forest(gs)
<1> SUFFICES ASSUME NEW set \in SUBSET Frame, set # {}
             PROVE  \E f \in set : gs[f].holder \notin set
  BY DEF Forest
<1>1. CASE set \subseteq leaves
  BY <1>1
<1>2. CASE ~ (set \subseteq leaves)
  <2>1. PICK f \in set \ leaves : fs[f].holder \notin set \ leaves
    BY <1>2 DEF Forest
  <2>2. gs[f].holder \notin set
    BY <2>1
  <2>3. QED
    BY <2>2
<1>3. QED
  BY <1>1, <1>2

-----------------------------------------------------------------------------
(* What the steps do to the frames                                           *)

(* A frame goes on, or stops, without any other being concerned. *)
MayMove(fs, f, at) ==
  /\ fs[f].at \in {"leaf", "running", "starting", "anyof", "won", "notifying", "unwinding"}
  /\ f \in Task => at \in {"leaf", "running", "starting", "unwinding"}
  /\ f \in Wrap => at \in {"notifying", "unwinding"}
  /\ f = AnyFrame => /\ at \in {"running", "anyof", "unwinding"}
                     /\ \A w \in Wrap : fs[w].at # "created"
                     /\ at # "unwinding" => \A w \in Wrap : fs[w].at # "unborn"

(* A frame changes its state alone: its links may stay what they are. *)
LEMMA MovedInv ==
  ASSUME NEW fs, FrameInv(fs), NEW f \in Frame, NEW at, MayMove(fs, f, at)
  PROVE  FrameInv([fs EXCEPT ![f].at = at])
<1> USE DEF MayMove
<1> DEFINE gs == [fs EXCEPT ![f].at = at]
<1>0. fs \in [Frame -> Promise] /\ at \in Suspension \cup Execution
  BY Kinds DEF FrameInv, Suspension, Execution
<1>1. /\ gs \in [Frame -> Promise]
      /\ \A g \in Frame : gs[g].at = IF g = f THEN at ELSE fs[g].at
      /\ \A g \in Frame : /\ gs[g].canceled = fs[g].canceled /\ gs[g].root = fs[g].root
                          /\ gs[g].parent = fs[g].parent /\ gs[g].holder = fs[g].holder
  BY <1>0 DEF Promise
<1> HIDE DEF gs
<1>a. at \in {"leaf", "running", "starting", "anyof", "won", "notifying", "unwinding"}
  BY Kinds
<1>b. \A g \in Frame : Live(gs, g) <=> Live(fs, g)
  BY <1>1, <1>a DEF Live
<1>c. \A g \in Frame : \A state \in {"done", "calling", "awaiting", "unborn"} :
        gs[g].at = state <=> fs[g].at = state
  BY <1>1, <1>a
<1>d. \A g \in Frame : RootOf(gs, g) = RootOf(fs, g)
  BY <1>1 DEF RootOf
<1>e. \A g \in Frame : fs[g].holder \in Frame \cup {None}
  BY <1>0 DEF Promise
<1>2. KindInv(gs)
  BY <1>1, Kinds DEF FrameInv, KindInv
<1>3. FlagInv(gs)
  BY <1>1, Kinds DEF FrameInv, FlagInv
<1>4. HolderInv(gs)
  BY <1>1, Kinds DEF FrameInv, HolderInv
<1>5. AwaitInv(gs)
  <2>1. ASSUME NEW p \in Frame, NEW c \in Frame, Awaits(fs, p, c)
        PROVE  Awaits(gs, p, c) /\ gs[c].parent = fs[c].parent
    BY <2>1, <1>1, <1>b, <1>c, <1>d DEF Awaits
  <2>2. QED
    BY <2>1, <1>1, <1>b, <1>c, <1>d DEF FrameInv, AwaitInv
<1>6. AwaitedInv(gs)
  BY <1>1, <1>b, <1>c, <1>d, <1>e, Kinds DEF FrameInv, AwaitedInv
<1>7. Forest(gs)
  BY <1>1 DEF FrameInv, Forest
<1>8. WrapInv(gs)
  BY <1>1, Kinds DEF FrameInv, WrapInv
<1>9. GivenInv(gs)
  <2>1. {g \in Frame : gs[g].holder = AnyFrame} = {g \in Frame : fs[g].holder = AnyFrame}
    BY <1>1
  <2>2. SUFFICES ASSUME gs[AnyFrame].at = "running", \A w \in Wrap : gs[w].at = "unborn"
                 PROVE  fs[AnyFrame].at = "running" /\ \A w \in Wrap : fs[w].at = "unborn"
    BY <2>1 DEF FrameInv, GivenInv
  <2>3. \A w \in Wrap : fs[w].at = "unborn"
    BY <2>2, <1>c, Kinds
  <2>4. f # AnyFrame
    BY <2>2, <2>3, <1>1, Kinds
  <2>5. QED
    BY <2>2, <2>3, <2>4, <1>1, Kinds
<1>10. QED
  BY <1>1, <1>2, <1>3, <1>4, <1>5, <1>6, <1>7, <1>8, <1>9 DEF FrameInv, gs

(***************************************************************************)
(* Handles go: of frames that are done, with all that these hold, and of     *)
(* others that obey no flag but their own or that have not been begun.      *)
(***************************************************************************)
Without(fs, all) ==
  [f \in Frame |->
     IF f \in all
     THEN [fs[f] EXCEPT !.at       = IF @ = "done" THEN "destroyed" ELSE @,
                        !.canceled = fs[f].at # "done" \/ @,
                        !.holder   = None]
     ELSE fs[f]]

Droppable(fs, h) ==
  /\ fs[h].at \notin {"unborn", "destroyed"}
  /\ fs[h].at \in {"done", "created"} \/ fs[h].root = None
  /\ h \in Wrap => fs[h].at \notin {"created", "running", "won"}
  /\ fs[h].holder \in Frame => fs[fs[h].holder].at \notin {"calling", "awaiting"}
  /\ fs[h].holder \in Wrap => fs[fs[h].holder].at \notin {"created", "running"}
  /\ fs[h].holder = AnyFrame /\ h \in Task => fs[AnyFrame].at # "running"

(* What abandoning frames changes, field by field. *)
LEMMA WithoutFields ==
  ASSUME NEW fs \in [Frame -> Promise], NEW all
  PROVE  /\ Without(fs, all) \in [Frame -> Promise]
         /\ \A g \in Frame :
              /\ Without(fs, all)[g].at =
                   IF g \in all /\ fs[g].at = "done" THEN "destroyed" ELSE fs[g].at
              /\ Without(fs, all)[g].canceled <=>
                   (g \in all /\ fs[g].at # "done") \/ fs[g].canceled
              /\ Without(fs, all)[g].holder = IF g \in all THEN None ELSE fs[g].holder
              /\ Without(fs, all)[g].root = fs[g].root
              /\ Without(fs, all)[g].parent = fs[g].parent
              /\ Without(fs, all)[g].failed = fs[g].failed
<1>1. ASSUME NEW g \in Frame
      PROVE  /\ Without(fs, all)[g] \in Promise
             /\ Without(fs, all)[g].at =
                   IF g \in all /\ fs[g].at = "done" THEN "destroyed" ELSE fs[g].at
             /\ Without(fs, all)[g].canceled <=>
                  (g \in all /\ fs[g].at # "done") \/ fs[g].canceled
             /\ Without(fs, all)[g].holder = IF g \in all THEN None ELSE fs[g].holder
             /\ Without(fs, all)[g].root = fs[g].root
             /\ Without(fs, all)[g].parent = fs[g].parent
             /\ Without(fs, all)[g].failed = fs[g].failed
  <2>1. fs[g] \in Promise
    OBVIOUS
  <2>2. CASE g \notin all
    BY <2>1, <2>2 DEF Without
  <2>3. CASE g \in all
    <3>1. Without(fs, all)[g] =
            [fs[g] EXCEPT !.at       = IF fs[g].at = "done" THEN "destroyed" ELSE fs[g].at,
                          !.canceled = fs[g].at # "done" \/ fs[g].canceled,
                          !.holder   = None]
      BY <2>3 DEF Without
    <3>2. QED
      BY <2>1, <2>3, <3>1 DEF Promise
  <2>4. QED
    BY <2>2, <2>3
<1>2. Without(fs, all) \in [Frame -> Promise]
  BY <1>1 DEF Without
<1>3. QED
  BY <1>1, <1>2

(* Abandoning handles flags the unfinished and frees the finished frames. *)
LEMMA DroppedInv ==
  ASSUME NEW fs, FrameInv(fs), NEW all \in SUBSET Frame, \A h \in all : Droppable(fs, h),
         \A c \in Frame : fs[c].holder \in all /\ fs[fs[c].holder].at = "done" => c \in all
  PROVE  FrameInv(Without(fs, all))
<1> DEFINE gs == Without(fs, all)
<1>1. fs \in [Frame -> Promise] /\ \A g \in Frame : fs[g].holder \in Frame \cup {None}
  BY DEF FrameInv, Promise
<1>2. /\ gs \in [Frame -> Promise]
      /\ \A g \in Frame :
           /\ gs[g].at = IF g \in all /\ fs[g].at = "done" THEN "destroyed" ELSE fs[g].at
           /\ gs[g].canceled <=> (g \in all /\ fs[g].at # "done") \/ fs[g].canceled
           /\ gs[g].holder = IF g \in all THEN None ELSE fs[g].holder
           /\ gs[g].root = fs[g].root
           /\ gs[g].parent = fs[g].parent
  BY <1>1, WithoutFields
<1> HIDE DEF gs
<1>3. /\ \A g \in Frame : Live(gs, g) <=> Live(fs, g)
      /\ \A g \in Frame : RootOf(gs, g) = RootOf(fs, g)
      /\ \A g \in Frame : gs[g].at \notin {"done", "destroyed"} => gs[g].at = fs[g].at
      /\ \A g \in Frame : fs[g].at # "done" => gs[g].at = fs[g].at
      /\ \A g \in Frame : gs[g].at = "done" => fs[g].at = "done"
  BY <1>2 DEF Live, RootOf
<1>4. KindInv(gs)
  BY <1>2, Kinds DEF FrameInv, KindInv
<1>5. FlagInv(gs)
  <2>1. SUFFICES ASSUME NEW f \in Frame
                 PROVE  /\ gs[f].at \in {"unborn", "destroyed"} => gs[f].holder = None
                        /\ gs[f].canceled => gs[f].holder = None
                        /\ gs[f].at \in {"unborn", "created"} =>
                             gs[f].parent = None /\ gs[f].root = None
                        /\ gs[f].at = "unborn" => ~gs[f].canceled
    BY DEF FlagInv
  <2>2. f \in all => fs[f].at # "unborn"
    BY DEF Droppable
  <2>3. QED
    BY <2>2, <1>2 DEF FrameInv, FlagInv
<1>6. HolderInv(gs)
  <2>1. \A f \in Frame : gs[f].holder \in Frame =>
          f \notin all /\ gs[f].holder = fs[f].holder /\ gs[f].at = fs[f].at
    BY <1>2, Kinds
  <2>2. \A f \in Frame : gs[f].holder \in Frame /\ fs[f].at # "done" =>
          gs[f].at = fs[f].at
    BY <1>2
  <2>3. \A f \in Frame : gs[f].holder \in Frame => gs[gs[f].holder].at = fs[fs[f].holder].at
    BY <2>1, <1>2
  <2>4. \A w \in Wrap : fs[w].at = "unborn" => gs[w].at = "unborn"
    BY <1>2, Kinds
  <2>5. QED
    BY <2>1, <2>3, <2>4, Kinds DEF FrameInv, HolderInv
<1>7. AwaitInv(gs)
  <2>1. ASSUME NEW p \in Frame, fs[p].at \in {"calling", "awaiting"},
               NEW c \in Frame, Awaits(fs, p, c)
        PROVE  Awaits(gs, p, c) /\ gs[c].parent = fs[c].parent
    <3>1. c \notin all
      BY <2>1 DEF Awaits, Droppable
    <3>2. QED
      BY <2>1, <3>1, <1>2, <1>3 DEF Awaits
  <2>2. ASSUME NEW p \in Frame, NEW at \in {"calling", "awaiting"}, gs[p].at = at
        PROVE  fs[p].at = at
    BY <1>3, <2>2
  <2>3. QED
    BY <2>1, <2>2 DEF FrameInv, AwaitInv
<1>8. AwaitedInv(gs)
  <2>1. ASSUME NEW f \in Frame, Live(gs, f), gs[f].root # None
        PROVE  gs[f].holder # None /\ gs[gs[f].holder].at \in {"calling", "awaiting"}
    <3>1. /\ fs[f].holder # None /\ fs[fs[f].holder].at \in {"calling", "awaiting"}
          /\ fs[f].holder \in Frame
      BY <2>1, <1>1, <1>2, <1>3 DEF FrameInv, AwaitedInv
    <3>2. f \notin all
      BY <3>1 DEF Droppable
    <3>3. QED
      BY <3>1, <3>2, <1>2
  <2>2. QED
    BY <2>1, <1>2, <1>3 DEF FrameInv, AwaitedInv
<1>9. Forest(gs)
  <2>1. \A f \in Frame : gs[f].holder \notin {} /\ gs[f].holder \in {fs[f].holder, None}
    BY <1>2
  <2>2. {} \in SUBSET Frame /\ Forest(fs) /\ None \notin Frame
    BY Kinds DEF FrameInv
  <2>3. QED
    BY <2>1, <2>2, ForestKept
<1>10. WrapInv(gs)
  <2>1. SUFFICES ASSUME NEW w \in Wrap
                 PROVE  /\ gs[w].at \notin {"unborn", "destroyed"} /\ ~gs[w].canceled =>
                             gs[w].holder = AnyFrame
                        /\ gs[w].at \in {"created", "running"} =>
                             \E c \in Task : gs[c].holder = w
                        /\ gs[w].at = "created" =>
                             ~gs[w].canceled /\ gs[AnyFrame].at = "running"
                        /\ gs[w].at = "unborn" =>
                             (\A v \in Wrap : gs[v].at = "unborn") /\ gs[AnyFrame].at # "anyof"
                        /\ gs[w].at \in {"running", "won"} => ~gs[w].canceled
                        /\ gs[AnyFrame].at = "unborn" => gs[w].at = "unborn"
    BY DEF WrapInv
  <2>2. w \in Frame /\ AnyFrame \in Frame
    BY Kinds
  <2>3. ASSUME gs[w].at \in {"created", "running"}
        PROVE  \E c \in Task : gs[c].holder = w
    <3>1. fs[w].at \in {"created", "running"}
      BY <2>3, <2>2, <1>3
    <3>2. PICK c \in Task : fs[c].holder = w
      BY <3>1 DEF FrameInv, WrapInv
    <3>3. c \in Frame /\ c \notin all
      BY <3>1, <3>2, Kinds DEF Droppable
    <3>4. QED
      BY <3>2, <3>3, <1>2
  <2>4. w \in all => fs[w].at \notin {"created", "running", "won"}
    BY DEF Droppable
  <2>5. gs[w].at = "unborn" => \A v \in Wrap : gs[v].at = "unborn"
    BY <1>3, <2>2, Kinds DEF FrameInv, WrapInv
  <2>6. QED
    BY <2>2, <2>3, <2>4, <2>5, <1>2 DEF FrameInv, WrapInv
<1>11. GivenInv(gs)
  <2>1. SUFFICES ASSUME gs[AnyFrame].at = "running", \A w \in Wrap : gs[w].at = "unborn"
                 PROVE  Cardinality({g \in Frame : gs[g].holder = AnyFrame}) = Wrappers
    BY DEF GivenInv
  <2>2. fs[AnyFrame].at = "running" /\ \A w \in Wrap : fs[w].at = "unborn"
    BY <2>1, <1>3, Kinds
  <2>3. ASSUME NEW g \in Frame
        PROVE  gs[g].holder = AnyFrame <=> fs[g].holder = AnyFrame
    <3>1. fs[g].holder = AnyFrame => g \notin all
      BY <2>2, Kinds DEF FrameInv, HolderInv, Droppable
    <3>2. QED
      BY <3>1, <1>2, Kinds
  <2>4. {g \in Frame : gs[g].holder = AnyFrame} = {g \in Frame : fs[g].holder = AnyFrame}
    BY <2>3
  <2>5. QED
    BY <2>2, <2>4 DEF FrameInv, GivenInv
<1>12. QED
  BY <1>2, <1>4, <1>5, <1>6, <1>7, <1>8, <1>9, <1>10, <1>11 DEF FrameInv, gs

(***************************************************************************)
(* A task nobody awaits is created, and begins or goes at once.             *)
(***************************************************************************)
LEMMA BornInv ==
  ASSUME NEW fs, FrameInv(fs), NEW c \in Task, fs[c].at = "unborn",
         NEW gs \in [Frame -> Promise], \A g \in Frame \ {c} : gs[g] = fs[g],
         gs[c].at \in {"running", "created"},
         gs[c].holder = None, gs[c].root = None, gs[c].parent = None
  PROVE  FrameInv(gs)
<1>1. /\ fs \in [Frame -> Promise] /\ \A g \in Frame : fs[g].holder \in Frame \cup {None}
      /\ c \in Frame
  BY Kinds DEF FrameInv, Promise
<1>2. fs[c].holder = None /\ fs[c].root = None /\ fs[c].parent = None
  BY <1>1 DEF FrameInv, FlagInv
<1>3. \A g \in Frame : /\ gs[g].holder = fs[g].holder /\ gs[g].root = fs[g].root
                       /\ gs[g].parent = fs[g].parent
                       /\ fs[g].holder # c
                       /\ g # c => gs[g].at = fs[g].at /\ gs[g].canceled = fs[g].canceled
  BY <1>1, <1>2 DEF FrameInv, HolderInv
<1>4. /\ \A g \in Frame \ {c} : Live(gs, g) <=> Live(fs, g)
      /\ \A g \in Frame : RootOf(gs, g) = RootOf(fs, g)
  BY <1>3 DEF Live, RootOf
<1>5. KindInv(gs)
  BY <1>3, Kinds DEF FrameInv, KindInv
<1>6. FlagInv(gs)
  BY <1>2, <1>3 DEF FrameInv, FlagInv
<1>7. HolderInv(gs)
  <2>1. \A f \in Frame : gs[f].holder \in Frame =>
          f # c /\ gs[f].at = fs[f].at /\ gs[gs[f].holder].at = fs[fs[f].holder].at
    BY <1>2, <1>3, Kinds
  <2>2. \A w \in Wrap : gs[w].at = fs[w].at
    BY <1>3, Kinds
  <2>3. QED
    BY <2>1, <2>2, <1>3, Kinds DEF FrameInv, HolderInv
<1>8. AwaitInv(gs)
  <2>1. ASSUME NEW p \in Frame, NEW d \in Frame, Awaits(fs, p, d)
        PROVE  Awaits(gs, p, d) /\ gs[d].parent = fs[d].parent
    <3>1. d # c
      BY <2>1, <1>2, Kinds DEF Awaits
    <3>2. QED
      BY <2>1, <3>1, <1>3, <1>4 DEF Awaits
  <2>2. ASSUME NEW p \in Frame, NEW at \in {"calling", "awaiting"}, gs[p].at = at
        PROVE  fs[p].at = at
    BY <1>3, <2>2
  <2>3. QED
    BY <2>1, <2>2 DEF FrameInv, AwaitInv
<1>9. AwaitedInv(gs)
  <2>1. ASSUME NEW f \in Frame, Live(gs, f), f # c
        PROVE  /\ gs[f].root # None =>
                    gs[f].holder # None /\ gs[gs[f].holder].at \in {"calling", "awaiting"}
               /\ f \notin Wrap /\ gs[f].holder # None => gs[f].root # None
               /\ gs[f].parent # None => gs[f].root # None
    BY <2>1, <1>1, <1>3, <1>4 DEF FrameInv, AwaitedInv
  <2>2. QED
    BY <2>1, <1>2, <1>3 DEF AwaitedInv
<1>10. Forest(gs)
  BY <1>3 DEF FrameInv, Forest
<1>11. WrapInv(gs)
  <2>1. /\ \A w \in Wrap : gs[w].at = fs[w].at /\ gs[w].canceled = fs[w].canceled
        /\ \A f \in Task \cup Wrap : gs[f].holder = fs[f].holder
        /\ gs[AnyFrame].at = fs[AnyFrame].at
    BY <1>3, Kinds
  <2>2. QED
    BY <2>1 DEF FrameInv, WrapInv
<1>12. GivenInv(gs)
  <2>1. {g \in Frame : gs[g].holder = AnyFrame} = {g \in Frame : fs[g].holder = AnyFrame}
    BY <1>3
  <2>2. gs[AnyFrame].at = fs[AnyFrame].at /\ \A w \in Wrap : gs[w].at = fs[w].at
    BY <1>3, Kinds
  <2>3. QED
    BY <2>1, <2>2 DEF FrameInv, GivenInv
<1>13. QED
  BY <1>5, <1>6, <1>7, <1>8, <1>9, <1>10, <1>11, <1>12 DEF FrameInv

(***************************************************************************)
(* A frame c is created and begun by the task t that awaits it; AnyOf comes  *)
(* with the tasks it is given.                                              *)
(***************************************************************************)
Called(fs, gs, t, c, given) ==
  /\ fs[t].at = "running" /\ fs[c].at = "unborn" /\ \A g \in given : fs[g].at = "unborn"
  /\ c \in Task => given = {}
  /\ c = AnyFrame => Cardinality(given) = Wrappers
  /\ gs \in [Frame -> Promise]
  /\ \A g \in Frame \ (given \cup {c, t}) : gs[g] = fs[g]
  /\ gs[t] = [fs[t] EXCEPT !.at = "calling"]
  /\ \A g \in given : /\ gs[g].at = "created" /\ gs[g].holder = c
                      /\ gs[g].canceled = fs[g].canceled
                      /\ gs[g].root = fs[g].root /\ gs[g].parent = fs[g].parent
  /\ gs[c].at \in {"running", "unwinding"} /\ gs[c].holder = t
  /\ gs[c].root = RootOf(fs, t) /\ gs[c].parent = None /\ gs[c].canceled = FALSE
  /\ gs[c].at = "running" => ~Canceled(gs, c)

(* A task calls another one or AnyOf. *)
LEMMA CalledInv ==
  ASSUME NEW fs, FrameInv(fs), NEW gs, NEW t \in Task, NEW c \in Task \cup {AnyFrame},
         NEW given \in SUBSET Task, Called(fs, gs, t, c, given)
  PROVE  FrameInv(gs)
<1>1. /\ fs \in [Frame -> Promise] /\ \A g \in Frame : fs[g].holder \in Frame \cup {None}
      /\ c \in Frame /\ t \in Frame /\ given \subseteq Frame /\ t # c /\ t \notin given
      /\ c \notin given /\ c \notin Wrap /\ gs \in [Frame -> Promise]
  BY Kinds DEF FrameInv, Promise, Called
<1>2. /\ \A g \in given \cup {c} : /\ fs[g].holder = None /\ fs[g].root = None
                                   /\ fs[g].parent = None /\ ~fs[g].canceled
      /\ \A g \in Frame : fs[g].holder \notin given \cup {c, t}
  <2>1. ASSUME NEW g \in Frame, fs[g].holder \in given \cup {c, t}
        PROVE  FALSE
    <3>1. CASE fs[g].holder = AnyFrame
      BY <3>1, <2>1, <1>1, Kinds DEF FrameInv, HolderInv, Called
    <3>2. CASE fs[g].holder \in Task
      <4>1. fs[fs[g].holder].at \in {"calling", "awaiting"}
        BY <3>2 DEF FrameInv, HolderInv
      <4>2. fs[fs[g].holder].at \in {"unborn", "running"}
        BY <2>1 DEF Called
      <4>3. QED
        BY <4>1, <4>2
    <3>3. QED
      BY <3>1, <3>2, <2>1, Kinds
  <2>2. \A g \in given \cup {c} : fs[g].at = "unborn" /\ g \in Frame
    BY <1>1 DEF Called
  <2>3. QED
    BY <2>1, <2>2 DEF FrameInv, FlagInv
<1>3. /\ \A g \in Frame \ (given \cup {c, t}) :
           /\ gs[g].at = fs[g].at /\ gs[g].canceled = fs[g].canceled
           /\ gs[g].holder = fs[g].holder /\ gs[g].root = fs[g].root
           /\ gs[g].parent = fs[g].parent
      /\ \A g \in given : /\ gs[g].at = "created" /\ ~gs[g].canceled /\ gs[g].holder = c
                          /\ gs[g].root = None /\ gs[g].parent = None
      /\ gs[t].at = "calling" /\ gs[t].canceled = fs[t].canceled
      /\ gs[t].holder = fs[t].holder /\ gs[t].root = fs[t].root /\ gs[t].parent = fs[t].parent
      /\ gs[c].at \in {"running", "unwinding"} /\ gs[c].holder = t
      /\ gs[c].root = RootOf(fs, t) /\ gs[c].parent = None /\ ~gs[c].canceled
      /\ fs[t].at = "running" /\ fs[c].at = "unborn" /\ \A g \in given : fs[g].at = "unborn"
      /\ c \in Task => given = {}
      /\ c = AnyFrame => Cardinality(given) = Wrappers
  <2>1. \A g \in Frame \ (given \cup {c, t}) : gs[g] = fs[g]
    BY DEF Called
  <2>2. ASSUME NEW g \in given
        PROVE  /\ gs[g].at = "created" /\ ~gs[g].canceled /\ gs[g].holder = c
               /\ gs[g].root = None /\ gs[g].parent = None
    BY <1>1, <1>2 DEF Called
  <2>3. /\ gs[t].at = "calling" /\ gs[t].canceled = fs[t].canceled
        /\ gs[t].holder = fs[t].holder /\ gs[t].root = fs[t].root /\ gs[t].parent = fs[t].parent
    <3>1. fs[t] \in Promise /\ gs[t] = [fs[t] EXCEPT !.at = "calling"]
      BY <1>1 DEF Called
    <3>2. QED
      BY <3>1 DEF Promise
  <2>4. QED
    BY <2>1, <2>2, <2>3 DEF Called
<1>4. /\ \A g \in Frame \ {c} : Live(gs, g) <=> Live(fs, g)
      /\ Live(gs, c) /\ ~Live(fs, c)
      /\ \A g \in Frame \ {c} : RootOf(gs, g) = RootOf(fs, g)
      /\ \A g \in Frame : fs[g].at \notin {"unborn", "running"} => gs[g] = fs[g]
      /\ \A w \in Wrap : gs[w] = fs[w]
  <2>1. \A g \in Frame \ {c} : Live(gs, g) <=> Live(fs, g)
    BY <1>1, <1>3 DEF Live
  <2>2. Live(gs, c) /\ ~Live(fs, c)
    BY <1>3 DEF Live
  <2>3. \A g \in Frame \ {c} : RootOf(gs, g) = RootOf(fs, g)
    BY <1>1, <1>2, <1>3 DEF RootOf
  <2>4. \A g \in Frame : fs[g].at \notin {"unborn", "running"} => gs[g] = fs[g]
    BY DEF Called
  <2>5. ASSUME NEW w \in Wrap
        PROVE  gs[w] = fs[w]
    <3>1. w \in Frame \ (given \cup {c, t})
      BY <1>1, Kinds
    <3>2. QED
      BY <3>1 DEF Called
  <2>6. QED
    BY <2>1, <2>2, <2>3, <2>4, <2>5
<1>5. KindInv(gs)
  BY <1>1, <1>3, <1>4, Kinds DEF FrameInv, KindInv
<1>6. FlagInv(gs)
  BY <1>1, <1>3 DEF FrameInv, FlagInv
<1>7. c = AnyFrame => \A w \in Wrap : gs[w].at = "unborn"
  BY <1>3, <1>4 DEF FrameInv, WrapInv
<1>8. HolderInv(gs)
  <2>1. ASSUME NEW f \in Frame, f \notin given \cup {c}
        PROVE  /\ gs[f].holder = fs[f].holder
               /\ gs[f].holder \in Frame =>
                    gs[f].holder \notin given \cup {c, t} /\ gs[gs[f].holder].at = fs[fs[f].holder].at
               /\ f # t => gs[f].at = fs[f].at
    BY <2>1, <1>1, <1>2, <1>3
  <2>2. ASSUME NEW f \in Frame, NEW p \in Task, gs[f].holder = p
        PROVE  gs[p].at \in {"calling", "awaiting"} /\ f \in Task \cup {AnyFrame}
    <3>1. CASE f = c
      BY <3>1, <2>2, <1>3
    <3>2. CASE f \in given
      BY <3>2, <2>2, <1>3, Kinds
    <3>3. CASE f \notin given \cup {c}
      BY <3>3, <2>1, <2>2, Kinds DEF FrameInv, HolderInv
    <3>4. QED
      BY <3>1, <3>2, <3>3
  <2>3. ASSUME NEW f \in Frame, NEW w \in Wrap, gs[f].holder = w
        PROVE  /\ f \in Task /\ gs[w].at \notin {"unborn", "destroyed"}
               /\ gs[w].at \in {"created", "running"} => gs[f].at = "created"
               /\ gs[w].at \notin {"calling", "awaiting"} => gs[f].at \in {"created", "done"}
    <3>1. f \notin given \cup {c}
      BY <2>3, <1>1, <1>3, Kinds
    <3>2. fs[f].holder = w /\ gs[w].at = fs[w].at
      BY <3>1, <2>1, <2>3, <1>4
    <3>3. f # t \/ fs[w].at \in {"calling", "awaiting"}
      BY <3>2, <1>3 DEF FrameInv, HolderInv
    <3>4. QED
      BY <3>1, <3>2, <3>3, <2>1 DEF FrameInv, HolderInv
  <2>4. ASSUME NEW f \in Frame, gs[f].holder = AnyFrame
        PROVE  \/ /\ f \in Task /\ gs[f].at = "created" /\ \A w \in Wrap : gs[w].at = "unborn"
                  /\ gs[AnyFrame].at \in {"running", "unwinding", "done"}
               \/ f \in Wrap /\ gs[AnyFrame].at \in {"running", "anyof", "unwinding"}
    <3>1. CASE f \in given
      BY <3>1, <1>3, <1>7, Kinds
    <3>2. CASE f = c
      BY <3>2, <2>4, <1>3, Kinds
    <3>3. CASE f \notin given \cup {c}
      <4>1. fs[f].holder = AnyFrame /\ gs[AnyFrame].at = fs[AnyFrame].at
        BY <3>3, <2>1, <2>4, Kinds
      <4>2. f # t
        BY <4>1, <1>3, Kinds DEF FrameInv, HolderInv
      <4>3. QED
        BY <4>1, <4>2, <3>3, <2>1, <1>4 DEF FrameInv, HolderInv
    <3>4. QED
      BY <3>1, <3>2, <3>3
  <2>5. ASSUME NEW f \in Frame, NEW g \in Frame, gs[f].holder = gs[g].holder,
               gs[f].holder \in Task \cup Wrap
        PROVE  f = g
    <3>1. f \notin given /\ g \notin given
      BY <2>5, <1>3, Kinds
    <3>2. QED
      <4>1. CASE f # c /\ g # c
        BY <4>1, <3>1, <2>1, <2>5 DEF FrameInv, HolderInv
      <4>2. ASSUME NEW d \in Frame, d \notin given \cup {c}
            PROVE  gs[d].holder # gs[c].holder
        BY <4>2, <2>1, <1>1, <1>2, <1>3
      <4>3. QED
        BY <4>1, <4>2, <3>1, <2>5
  <2>6. QED
    BY <2>2, <2>3, <2>4, <2>5 DEF HolderInv
<1>9. AwaitInv(gs)
  <2>1. ASSUME NEW p \in Frame, NEW d \in Frame, Awaits(fs, p, d)
        PROVE  Awaits(gs, p, d) /\ gs[d].parent = fs[d].parent
    <3>1. d \notin given \cup {c} /\ p \notin given \cup {c, t}
      BY <2>1, <1>2, Kinds DEF Awaits
    <3>2. gs[d].at = "done" <=> fs[d].at = "done"
      BY <3>1, <1>3
    <3>3. RootOf(gs, p) = RootOf(fs, p) /\ (Live(gs, d) <=> Live(fs, d))
      BY <3>1, <1>4
    <3>4. gs[d].holder = fs[d].holder /\ gs[d].root = fs[d].root /\ gs[d].parent = fs[d].parent
      BY <3>1, <1>3
    <3>5. QED
      BY <2>1, <3>2, <3>3, <3>4 DEF Awaits
  <2>2. ASSUME NEW p \in Frame, NEW at \in {"calling", "awaiting"}, gs[p].at = at, p # t
        PROVE  fs[p].at = at
    BY <1>3, <2>2
  <2>3. Awaits(gs, t, c)
    BY <1>1, <1>3, <1>4 DEF Awaits
  <2>4. QED
    BY <2>1, <2>2, <2>3, <1>1, <1>3 DEF FrameInv, AwaitInv
<1>10. AwaitedInv(gs)
  <2>1. ASSUME NEW f \in Frame, Live(gs, f), f # c
        PROVE  /\ gs[f].root # None =>
                    gs[f].holder # None /\ gs[gs[f].holder].at \in {"calling", "awaiting"}
               /\ f \notin Wrap /\ gs[f].holder # None => gs[f].root # None
               /\ gs[f].parent # None => gs[f].root # None
    <3>1. Live(fs, f) /\ f \notin given
      BY <2>1, <1>3, <1>4 DEF Live
    <3>2. gs[f].holder = fs[f].holder /\ gs[f].root = fs[f].root /\ gs[f].parent = fs[f].parent
      BY <3>1, <2>1, <1>3
    <3>3. fs[f].holder \in Frame => gs[fs[f].holder].at = fs[fs[f].holder].at
      BY <1>2, <1>3
    <3>4. QED
      BY <3>1, <3>2, <3>3, <2>1, <1>1 DEF FrameInv, AwaitedInv
  <2>2. gs[c].root # None
    BY <1>1, <1>3, Kinds DEF RootOf
  <2>3. QED
    BY <2>1, <2>2, <1>1, <1>3, Kinds DEF AwaitedInv
<1>11. Forest(gs)
  <2>1. CASE c \in Task
    <3>1. \A f \in Frame : gs[f].holder # c /\ (f # c => gs[f].holder = fs[f].holder)
      BY <2>1, <1>1, <1>2, <1>3
    <3>2. QED
      <4>1. {c} \in SUBSET Frame /\ Forest(fs) /\ None \notin Frame
        BY <1>1, Kinds DEF FrameInv
      <4>2. \A f \in Frame : gs[f].holder \notin {c}
        BY <3>1
      <4>3. \A f \in Frame \ {c} : gs[f].holder \in {fs[f].holder, None}
        BY <3>1
      <4>4. QED
        BY <4>1, <4>2, <4>3, ForestKept
  <2>2. CASE c = AnyFrame
    <3>1. SUFFICES ASSUME NEW set \in SUBSET Frame, set # {}
                   PROVE  \E f \in set : gs[f].holder \notin set
      BY DEF Forest
    <3>2. \A f \in Frame : gs[f].holder \notin given
      BY <1>1, <1>2, <1>3
    <3>3. CASE set \subseteq given
      BY <3>1, <3>3, <3>2
    <3>4. CASE set \ given = {c}
      BY <3>2, <3>4, <1>1, <1>3
    <3>5. CASE set \ (given \cup {c}) # {}
      <4>1. PICK f \in set \ (given \cup {c}) : fs[f].holder \notin set \ (given \cup {c})
        BY <3>5, <1>1 DEF FrameInv, Forest
      <4>2. gs[f].holder = fs[f].holder /\ fs[f].holder \notin given \cup {c}
        BY <4>1, <1>1, <1>2, <1>3
      <4>3. QED
        BY <4>1, <4>2
    <3>6. QED
      BY <3>3, <3>4, <3>5
  <2>3. QED
    BY <2>1, <2>2
<1>12. WrapInv(gs)
  <2>1. /\ \A w \in Wrap : gs[w] = fs[w]
        /\ \A f \in Task, w \in Wrap : fs[f].holder = w => gs[f].holder = w
    BY <1>2, <1>3, <1>4, Kinds
  <2>2. c # AnyFrame => gs[AnyFrame].at = fs[AnyFrame].at
    BY <1>3, Kinds
  <2>3. SUFFICES ASSUME NEW w \in Wrap
                 PROVE  /\ gs[w].at = "created" => gs[AnyFrame].at = "running"
                        /\ gs[w].at = "unborn" =>
                             (\A v \in Wrap : gs[v].at = "unborn") /\ gs[AnyFrame].at # "anyof"
                        /\ gs[AnyFrame].at = "unborn" => gs[w].at = "unborn"
    BY <2>1, Kinds DEF FrameInv, WrapInv
  <2>4. CASE c = AnyFrame
    BY <2>4, <1>3, <1>7
  <2>5. CASE c # AnyFrame
    BY <2>1, <2>2, <2>5, Kinds DEF FrameInv, WrapInv
  <2>6. QED
    BY <2>4, <2>5
<1>13. GivenInv(gs)
  <2>1. CASE c = AnyFrame
    <3>1. \A g \in Frame : fs[g].holder # AnyFrame
      BY <2>1, <1>2
    <3>2. {g \in Frame : gs[g].holder = AnyFrame} = given
      BY <2>1, <3>1, <1>1, <1>3, Kinds
    <3>3. QED
      BY <2>1, <3>2, <1>3 DEF GivenInv
  <2>2. CASE c # AnyFrame
    <3>1. \A g \in Frame : gs[g].holder = AnyFrame <=> fs[g].holder = AnyFrame
      BY <2>2, <1>1, <1>2, <1>3, Kinds
    <3>2. {g \in Frame : gs[g].holder = AnyFrame} = {g \in Frame : fs[g].holder = AnyFrame}
      BY <3>1
    <3>3. gs[AnyFrame].at = fs[AnyFrame].at /\ \A w \in Wrap : gs[w].at = fs[w].at
      BY <2>2, <1>3, <1>4, Kinds
    <3>4. QED
      BY <3>2, <3>3 DEF FrameInv, GivenInv
  <2>3. QED
    BY <2>1, <2>2
<1>14. QED
  BY <1>1, <1>5, <1>6, <1>8, <1>9, <1>10, <1>11, <1>12, <1>13 DEF FrameInv

(* A task or a wrapper registers with what it awaits and suspends. *)
LEMMA RegisterInv ==
  ASSUME NEW fs, FrameInv(fs), NEW p \in Task \cup Wrap, NEW c \in Frame,
         fs[p].at = "calling", Awaits(fs, p, c), fs[c].at # "done"
  PROVE  FrameInv([fs EXCEPT ![p].at = "awaiting", ![c].parent = p])
<1> DEFINE gs == [fs EXCEPT ![p].at = "awaiting", ![c].parent = p]
<1>0. /\ fs \in [Frame -> Promise] /\ \A g \in Frame : fs[g].holder \in Frame \cup {None}
      /\ p \in Frame /\ "awaiting" \in Suspension
  BY Kinds DEF FrameInv, Promise, Suspension
<1>1. /\ gs \in [Frame -> Promise]
      /\ \A g \in Frame : gs[g].at = IF g = p THEN "awaiting" ELSE fs[g].at
      /\ \A g \in Frame : gs[g].parent = IF g = c THEN p ELSE fs[g].parent
      /\ \A g \in Frame : /\ gs[g].canceled = fs[g].canceled /\ gs[g].root = fs[g].root
                          /\ gs[g].holder = fs[g].holder
  BY <1>0 DEF Promise
<1>2. Live(fs, c) /\ c # p
  <2>1. {p} \in SUBSET Frame /\ {p} # {} /\ Forest(fs)
    BY <1>0 DEF FrameInv
  <2>2. fs[p].holder # p
    BY <2>1 DEF Forest
  <2>3. QED
    BY <2>2 DEF Awaits
<1> HIDE DEF gs
<1>3. /\ \A g \in Frame : Live(gs, g) <=> Live(fs, g)
      /\ \A g \in Frame : \A state \in {"done", "unborn", "created", "running", "unwinding",
                                         "destroyed", "won", "anyof"} :
           gs[g].at = state <=> fs[g].at = state
      /\ \A g \in Frame : RootOf(gs, g) = RootOf(fs, g)
      /\ \A g \in Frame : gs[g].at \in {"calling", "awaiting"} <=>
                          fs[g].at \in {"calling", "awaiting"}
  BY <1>0, <1>1 DEF Live, RootOf
<1>4. KindInv(gs)
  BY <1>0, <1>1, Kinds DEF FrameInv, KindInv
<1>5. FlagInv(gs)
  <2>1. fs[c].at \notin {"unborn", "created"}
    BY <1>2 DEF Live
  <2>2. QED
    BY <2>1, <1>1, <1>3 DEF FrameInv, FlagInv
<1>6. HolderInv(gs)
  BY <1>1, <1>3, Kinds DEF FrameInv, HolderInv
<1>7. AwaitInv(gs)
  <2>1. ASSUME NEW q \in Frame, NEW d \in Frame, Awaits(fs, q, d)
        PROVE  Awaits(gs, q, d) /\ (q # p => gs[d].parent = fs[d].parent)
    <3>1. q # p => d # c
      BY <2>1 DEF Awaits
    <3>2. QED
      BY <2>1, <3>1, <1>1, <1>3 DEF Awaits
  <2>2. ASSUME NEW q \in Frame \ {p}, NEW at \in {"calling", "awaiting"}, gs[q].at = at
        PROVE  fs[q].at = at
    BY <1>1, <2>2
  <2>3. Awaits(gs, p, c) /\ gs[c].parent = p /\ gs[p].at = "awaiting"
    BY <2>1, <1>0, <1>1
  <2>4. QED
    BY <2>1, <2>2, <2>3 DEF FrameInv, AwaitInv
<1>8. AwaitedInv(gs)
  <2>1. fs[c].root # None
    BY <1>0, Kinds DEF Awaits, RootOf
  <2>2. QED
    BY <2>1, <1>0, <1>1, <1>3, Kinds DEF FrameInv, AwaitedInv
<1>9. Forest(gs)
  BY <1>1 DEF FrameInv, Forest
<1>10. WrapInv(gs)
  BY <1>1, <1>3, Kinds DEF FrameInv, WrapInv
<1>11. GivenInv(gs)
  <2>1. {g \in Frame : gs[g].holder = AnyFrame} = {g \in Frame : fs[g].holder = AnyFrame}
    BY <1>1
  <2>2. QED
    BY <2>1, <1>3, Kinds DEF FrameInv, GivenInv
<1>12. QED
  BY <1>1, <1>4, <1>5, <1>6, <1>7, <1>8, <1>9, <1>10, <1>11 DEF FrameInv, gs

(* AnyOf begins a wrapper. *)
LEMMA WrapperBegunInv ==
  ASSUME NEW fs, FrameInv(fs), NEW w \in Wrap, fs[w].at = "created"
  PROVE  FrameInv([fs EXCEPT ![w].at = "running"])
<1> DEFINE gs == [fs EXCEPT ![w].at = "running"]
<1>0. /\ fs \in [Frame -> Promise] /\ \A g \in Frame : fs[g].holder \in Frame \cup {None}
      /\ w \in Frame /\ w # AnyFrame /\ w \notin Task /\ "running" \in Execution
  BY Kinds DEF FrameInv, Promise, Execution
<1>1. /\ gs \in [Frame -> Promise]
      /\ \A g \in Frame : gs[g].at = IF g = w THEN "running" ELSE fs[g].at
      /\ \A g \in Frame : /\ gs[g].canceled = fs[g].canceled /\ gs[g].root = fs[g].root
                          /\ gs[g].holder = fs[g].holder /\ gs[g].parent = fs[g].parent
  BY <1>0 DEF Promise
<1>2. fs[w].root = None /\ fs[w].parent = None
  BY <1>0 DEF FrameInv, FlagInv
<1> HIDE DEF gs
<1>3. /\ \A g \in Frame \ {w} : Live(gs, g) <=> Live(fs, g)
      /\ \A g \in Frame : \A state \in {"done", "unborn", "calling", "awaiting", "unwinding",
                                         "destroyed", "won", "anyof"} :
           gs[g].at = state <=> fs[g].at = state
      /\ \A g \in Frame : RootOf(gs, g) = RootOf(fs, g)
      /\ gs[AnyFrame].at = fs[AnyFrame].at
      /\ \A g \in Frame : gs[g].at \in {"running", "created"} <=>
                          fs[g].at \in {"running", "created"}
      /\ \A g \in Frame : gs[g].at = "created" => fs[g].at = "created"
      /\ \A g \in Task : gs[g].at = fs[g].at
  BY <1>0, <1>1, Kinds DEF Live, RootOf
<1>4. KindInv(gs)
  BY <1>0, <1>1, Kinds DEF FrameInv, KindInv
<1>5. FlagInv(gs)
  BY <1>1, <1>3 DEF FrameInv, FlagInv
<1>6. HolderInv(gs)
  BY <1>1, <1>3, Kinds DEF FrameInv, HolderInv
<1>7. AwaitInv(gs)
  <2>1. ASSUME NEW q \in Frame, NEW d \in Frame, Awaits(fs, q, d), d # w
        PROVE  Awaits(gs, q, d) /\ gs[d].parent = fs[d].parent
    BY <2>1, <1>1, <1>3 DEF Awaits
  <2>2. ASSUME NEW q \in Frame, NEW d \in Frame, Awaits(fs, q, d)
        PROVE  d # w
    BY <2>2, <1>0 DEF Awaits, Live
  <2>3. QED
    BY <2>1, <2>2, <1>3 DEF FrameInv, AwaitInv
<1>8. AwaitedInv(gs)
  BY <1>0, <1>1, <1>2, <1>3, Kinds DEF FrameInv, AwaitedInv
<1>9. Forest(gs)
  BY <1>1 DEF FrameInv, Forest
<1>10. WrapInv(gs)
  BY <1>1, <1>3, Kinds DEF FrameInv, WrapInv
<1>11. GivenInv(gs)
  <2>1. {g \in Frame : gs[g].holder = AnyFrame} = {g \in Frame : fs[g].holder = AnyFrame}
    BY <1>1
  <2>2. QED
    BY <2>1, <1>3, Kinds DEF FrameInv, GivenInv
<1>12. QED
  BY <1>1, <1>4, <1>5, <1>6, <1>7, <1>8, <1>9, <1>10, <1>11 DEF FrameInv, gs

(* A wrapper begins the task it is given, under its own flag. *)
Begun(fs, gs, w, c) ==
  /\ fs[w].at = "running" /\ fs[c].at = "created" /\ fs[c].holder = w
  /\ gs \in [Frame -> Promise]
  /\ \A g \in Frame \ {c, w} : gs[g] = fs[g]
  /\ gs[w] = [fs[w] EXCEPT !.at = "calling"]
  /\ gs[c].at \in {"running", "unwinding"} /\ gs[c].root = w
  /\ gs[c].holder = w /\ gs[c].parent = None /\ gs[c].canceled = FALSE

(* A wrapper starts the task it was given. *)
LEMMA BegunInv ==
  ASSUME NEW fs, FrameInv(fs), NEW gs, NEW w \in Wrap, NEW c \in Task, Begun(fs, gs, w, c)
  PROVE  FrameInv(gs)
<1>0. /\ fs \in [Frame -> Promise] /\ \A g \in Frame : fs[g].holder \in Frame \cup {None}
      /\ w \in Frame /\ c \in Frame /\ w # c /\ c # AnyFrame /\ w # AnyFrame
      /\ w \notin Task /\ c \notin Wrap /\ fs[w] \in Promise
  BY Kinds DEF FrameInv, Promise
<1>1. /\ gs \in [Frame -> Promise]
      /\ \A g \in Frame \ {c, w} : gs[g] = fs[g]
      /\ fs[w].at = "running" /\ gs[w].at = "calling" /\ gs[w].root = fs[w].root
      /\ gs[w].parent = fs[w].parent
      /\ gs[w].holder = fs[w].holder /\ gs[w].canceled = fs[w].canceled
      /\ gs[c].at \in {"running", "unwinding"} /\ gs[c].root = w
      /\ gs[c].holder = w /\ gs[c].parent = None /\ gs[c].canceled = FALSE
      /\ fs[c].holder = w /\ fs[c].at = "created"
  BY <1>0 DEF Begun, Promise
<1>2. /\ \A g \in Frame : fs[g].holder # c
      /\ fs[w].root = None
      /\ fs[c].parent = None /\ fs[c].root = None
  BY <1>0, <1>1, Kinds DEF FrameInv, KindInv, HolderInv, FlagInv
<1>3. /\ \A g \in Frame : gs[g].holder = fs[g].holder /\ gs[g].parent = fs[g].parent
      /\ \A g \in Frame \ {c} : Live(gs, g) <=> Live(fs, g)
      /\ Live(gs, c)
      /\ \A g \in Frame : \A state \in {"done", "unborn", "starting", "awaiting",
                                         "destroyed", "won", "anyof"} :
           gs[g].at = state <=> fs[g].at = state
      /\ \A g \in Frame \ {c} : RootOf(gs, g) = RootOf(fs, g)
      /\ gs[AnyFrame] = fs[AnyFrame]
      /\ \A g \in Frame : gs[g].at = "created" => fs[g].at = "created"
      /\ \A v \in Wrap \ {w} : gs[v] = fs[v]
      /\ \A t \in Task \ {c} : gs[t] = fs[t]
  BY <1>0, <1>1, <1>2, Kinds DEF Live, RootOf
<1>4. KindInv(gs)
  BY <1>0, <1>1, <1>3, Kinds DEF FrameInv, KindInv
<1>5. FlagInv(gs)
  BY <1>0, <1>1, <1>3 DEF FrameInv, FlagInv
<1>6. HolderInv(gs)
  <2>1. ASSUME NEW f \in Frame, NEW p \in Task, gs[f].holder = p
        PROVE  gs[p].at \in {"calling", "awaiting"} /\ f \in Task \cup {AnyFrame}
    <3>1. fs[f].holder = p /\ p # c
      BY <2>1, <1>2, <1>3
    <3>2. QED
      BY <3>1, <1>3 DEF FrameInv, HolderInv
  <2>2. ASSUME NEW f \in Frame, NEW v \in Wrap, gs[f].holder = v
        PROVE  /\ f \in Task /\ gs[v].at \notin {"unborn", "destroyed"}
               /\ gs[v].at \in {"created", "running"} => gs[f].at = "created"
               /\ gs[v].at \notin {"calling", "awaiting"} => gs[f].at \in {"created", "done"}
    <3>1. CASE v = w
      <4>1. f \in Task
        BY <2>2, <1>3 DEF FrameInv, HolderInv
      <4>2. QED
        BY <4>1, <3>1, <1>1
    <3>2. CASE v # w
      <4>1. fs[f].holder = v /\ f # c /\ gs[v] = fs[v]
        BY <3>2, <2>2, <1>1, <1>3
      <4>2. f \in Task /\ gs[f] = fs[f]
        BY <4>1, <1>3 DEF FrameInv, HolderInv
      <4>3. QED
        BY <4>1, <4>2 DEF FrameInv, HolderInv
    <3>3. QED
      BY <3>1, <3>2
  <2>3. ASSUME NEW f \in Frame, gs[f].holder = AnyFrame
        PROVE  \/ /\ f \in Task /\ gs[f].at = "created" /\ \A v \in Wrap : gs[v].at = "unborn"
                  /\ gs[AnyFrame].at \in {"running", "unwinding", "done"}
               \/ f \in Wrap /\ gs[AnyFrame].at \in {"running", "anyof", "unwinding"}
    <3>1. fs[f].holder = AnyFrame /\ fs[w].at # "unborn"
      BY <2>3, <1>1, <1>3
    <3>2. QED
      BY <3>1, <1>3 DEF FrameInv, HolderInv
  <2>4. ASSUME NEW f \in Frame, NEW g \in Frame, gs[f].holder = gs[g].holder,
               gs[f].holder \in Task \cup Wrap
        PROVE  f = g
    BY <2>4, <1>3 DEF FrameInv, HolderInv
  <2>5. QED
    BY <2>1, <2>2, <2>3, <2>4 DEF HolderInv
<1>7. AwaitInv(gs)
  <2>1. ASSUME NEW q \in Frame, NEW d \in Frame, Awaits(fs, q, d)
        PROVE  Awaits(gs, q, d) /\ gs[d].parent = fs[d].parent
    <3>1. d # c /\ q # c
      BY <2>1, <1>1, <1>2 DEF Awaits, Live
    <3>2. gs[d].root = fs[d].root /\ (gs[d].at = "done" <=> fs[d].at = "done")
      BY <3>1, <1>1, <1>3
    <3>3. QED
      BY <2>1, <3>1, <3>2, <1>3 DEF Awaits
  <2>2. Awaits(gs, w, c)
    BY <1>0, <1>1, <1>2, <1>3 DEF Awaits, RootOf
  <2>3. ASSUME NEW q \in Frame \ {w}, NEW at \in {"calling", "awaiting"}, gs[q].at = at
        PROVE  fs[q].at = at
    BY <1>1, <2>3
  <2>4. ASSUME NEW q \in Frame \ {w}, gs[q].at = "calling"
        PROVE  \E d \in Frame : Awaits(gs, q, d) /\ gs[d].parent = None
    BY <2>1, <2>3, <2>4 DEF FrameInv, AwaitInv
  <2>5. ASSUME NEW q \in Frame \ {w}, gs[q].at = "awaiting"
        PROVE  \E d \in Frame : Awaits(gs, q, d) /\ gs[d].parent = q
    BY <2>1, <2>3, <2>5 DEF FrameInv, AwaitInv
  <2>6. QED
    BY <2>2, <2>4, <2>5, <1>0, <1>1 DEF AwaitInv
<1>8. AwaitedInv(gs)
  <2>1. ASSUME NEW f \in Frame, Live(gs, f), f # c
        PROVE  /\ gs[f].root # None =>
                    gs[f].holder # None /\ gs[gs[f].holder].at \in {"calling", "awaiting"}
               /\ f \notin Wrap /\ gs[f].holder # None => gs[f].root # None
               /\ gs[f].parent # None => gs[f].root # None
    <3>1. gs[f].root = fs[f].root /\ Live(fs, f)
      BY <2>1, <1>1, <1>3
    <3>2. fs[f].holder \in Frame /\ fs[fs[f].holder].at \in {"calling", "awaiting"} =>
            gs[fs[f].holder].at = fs[fs[f].holder].at
      BY <1>1
    <3>3. QED
      BY <2>1, <3>1, <3>2, <1>0, <1>3 DEF FrameInv, AwaitedInv
  <2>2. QED
    BY <2>1, <1>0, <1>1, Kinds DEF AwaitedInv
<1>9. Forest(gs)
  BY <1>3 DEF FrameInv, Forest
<1>10. WrapInv(gs)
  BY <1>1, <1>3, Kinds DEF FrameInv, WrapInv
<1>11. GivenInv(gs)
  BY <1>0, <1>1, <1>3 DEF GivenInv
<1>12. QED
  BY <1>1, <1>4, <1>5, <1>6, <1>7, <1>8, <1>9, <1>10, <1>11 DEF FrameInv

(* A frame is at its final suspend point; AnyOf has let its wrappers go before. *)
LEMMA DoneInv ==
  ASSUME NEW fs, FrameInv(fs), NEW f \in Frame, NEW failed \in BOOLEAN,
         fs[f].at \in {"running", "unwinding", "won", "notifying"}, ~fs[f].canceled,
         f = AnyFrame => \A w \in Wrap : fs[w].holder # AnyFrame
  PROVE  FrameInv([fs EXCEPT ![f].at = "done", ![f].failed = failed])
<1> DEFINE gs == [fs EXCEPT ![f].at = "done", ![f].failed = failed]
<1>0. /\ fs \in [Frame -> Promise] /\ \A g \in Frame : fs[g].holder \in Frame \cup {None}
      /\ "done" \in Suspension
  BY Kinds DEF FrameInv, Promise, Suspension
<1>1. /\ gs \in [Frame -> Promise]
      /\ \A g \in Frame : gs[g].at = IF g = f THEN "done" ELSE fs[g].at
      /\ \A g \in Frame : /\ gs[g].canceled = fs[g].canceled /\ gs[g].root = fs[g].root
                          /\ gs[g].holder = fs[g].holder /\ gs[g].parent = fs[g].parent
  BY <1>0 DEF Promise
<1> HIDE DEF gs
<1>2. /\ \A g \in Frame : Live(gs, g) => Live(fs, g)
      /\ \A g \in Frame : Live(fs, g) => Live(gs, g) \/ gs[g].at = "done"
      /\ \A g \in Frame : \A state \in {"unborn", "calling", "awaiting", "created",
                                         "destroyed", "anyof"} :
           gs[g].at = state <=> fs[g].at = state
      /\ \A g \in Frame : \A state \in {"won", "running"} : gs[g].at = state => fs[g].at = state
      /\ \A g \in Frame : RootOf(gs, g) = RootOf(fs, g)
  BY <1>1 DEF Live, RootOf
<1>3. KindInv(gs)
  BY <1>1, Kinds DEF FrameInv, KindInv
<1>4. FlagInv(gs)
  BY <1>1, <1>2 DEF FrameInv, FlagInv
<1>5. HolderInv(gs)
  <2>1. ASSUME NEW g \in Frame, NEW p \in Task, gs[g].holder = p
        PROVE  gs[p].at \in {"calling", "awaiting"} /\ g \in Task \cup {AnyFrame}
    BY <2>1, <1>1, <1>2, Kinds DEF FrameInv, HolderInv
  <2>2. ASSUME NEW g \in Frame, NEW w \in Wrap, gs[g].holder = w
        PROVE  /\ g \in Task /\ gs[w].at \notin {"unborn", "destroyed"}
               /\ gs[w].at \in {"created", "running"} => gs[g].at = "created"
               /\ gs[w].at \notin {"calling", "awaiting"} => gs[g].at \in {"created", "done"}
    BY <2>2, <1>1, <1>2, Kinds DEF FrameInv, HolderInv
  <2>3. ASSUME NEW g \in Frame, gs[g].holder = AnyFrame
        PROVE  \/ /\ g \in Task /\ gs[g].at = "created" /\ \A w \in Wrap : gs[w].at = "unborn"
                  /\ gs[AnyFrame].at \in {"running", "unwinding", "done"}
               \/ g \in Wrap /\ gs[AnyFrame].at \in {"running", "anyof", "unwinding"}
    <3>1. CASE g \in Wrap
      BY <3>1, <2>3, <1>1, Kinds DEF FrameInv, HolderInv
    <3>2. CASE g \notin Wrap
      <4>1. /\ g \in Task /\ fs[g].at = "created" /\ \A w \in Wrap : fs[w].at = "unborn"
            /\ fs[AnyFrame].at \in {"running", "unwinding", "done"}
        BY <3>2, <2>3, <1>1 DEF FrameInv, HolderInv
      <4>2. QED
        BY <4>1, <1>1, <1>2, Kinds
    <3>3. QED
      BY <3>1, <3>2
  <2>4. \A g, h \in Frame :
          gs[g].holder = gs[h].holder /\ gs[g].holder \in Task \cup Wrap => g = h
    BY <1>1 DEF FrameInv, HolderInv
  <2>5. QED
    BY <2>1, <2>2, <2>3, <2>4 DEF HolderInv
<1>6. AwaitInv(gs)
  <2>1. ASSUME NEW q \in Frame, NEW d \in Frame, Awaits(fs, q, d)
        PROVE  Awaits(gs, q, d) /\ gs[d].parent = fs[d].parent
    <3>1. gs[d].at = "done" \/ Live(gs, d)
      BY <2>1, <1>1, <1>2 DEF Awaits
    <3>2. QED
      BY <2>1, <3>1, <1>1, <1>2 DEF Awaits
  <2>2. QED
    BY <2>1, <1>2 DEF FrameInv, AwaitInv
<1>7. AwaitedInv(gs)
  BY <1>0, <1>1, <1>2, Kinds DEF FrameInv, AwaitedInv
<1>8. Forest(gs)
  BY <1>1 DEF FrameInv, Forest
<1>9. WrapInv(gs)
  <2>1. SUFFICES ASSUME NEW w \in Wrap
                 PROVE  /\ gs[w].at \notin {"unborn", "destroyed"} /\ ~gs[w].canceled =>
                             gs[w].holder = AnyFrame
                        /\ gs[w].at \in {"created", "running"} =>
                             \E c \in Task : gs[c].holder = w
                        /\ gs[w].at = "created" =>
                             ~gs[w].canceled /\ gs[AnyFrame].at = "running"
                        /\ gs[w].at = "unborn" =>
                             (\A v \in Wrap : gs[v].at = "unborn") /\ gs[AnyFrame].at # "anyof"
                        /\ gs[w].at \in {"running", "won"} => ~gs[w].canceled
                        /\ gs[AnyFrame].at = "unborn" => gs[w].at = "unborn"
    BY DEF WrapInv
  <2>2. w \in Frame /\ AnyFrame \in Frame /\ Task \subseteq Frame /\ Wrap \subseteq Frame
    BY Kinds
  <2>3. gs[w].at = "created" => ~gs[w].canceled /\ gs[AnyFrame].at = "running"
    BY <2>2, <1>1, <1>2 DEF FrameInv, WrapInv
  <2>4. gs[w].at = "unborn" =>
          (\A v \in Wrap : gs[v].at = "unborn") /\ gs[AnyFrame].at # "anyof"
    BY <2>2, <1>2 DEF FrameInv, WrapInv
  <2>5. QED
    BY <2>2, <2>3, <2>4, <1>1, <1>2 DEF FrameInv, WrapInv
<1>10. GivenInv(gs)
  <2>1. {g \in Frame : gs[g].holder = AnyFrame} = {g \in Frame : fs[g].holder = AnyFrame}
    BY <1>1
  <2>2. QED
    BY <2>1, <1>2, Kinds DEF FrameInv, GivenInv
<1>11. QED
  BY <1>1, <1>3, <1>4, <1>5, <1>6, <1>7, <1>8, <1>9, <1>10 DEF FrameInv, gs

(* A frame that nobody holds and that holds nothing any more is destroyed. *)
LEMMA DestroyedInv ==
  ASSUME NEW fs, FrameInv(fs), NEW f \in Frame,
         fs[f].at \in {"running", "unwinding", "won", "notifying"}, fs[f].canceled,
         \A g \in Frame : fs[g].holder # f
  PROVE  FrameInv([fs EXCEPT ![f].at = "destroyed"])
<1> DEFINE gs == [fs EXCEPT ![f].at = "destroyed"]
<1>0. /\ fs \in [Frame -> Promise] /\ \A g \in Frame : fs[g].holder \in Frame \cup {None}
      /\ fs[f].holder = None
  BY Kinds DEF FrameInv, Promise, FlagInv
<1>1. /\ gs \in [Frame -> Promise]
      /\ \A g \in Frame : gs[g].at = IF g = f THEN "destroyed" ELSE fs[g].at
      /\ \A g \in Frame : /\ gs[g].canceled = fs[g].canceled /\ gs[g].root = fs[g].root
                          /\ gs[g].holder = fs[g].holder /\ gs[g].parent = fs[g].parent
  BY <1>0 DEF Promise
<1> HIDE DEF gs
<1>2. /\ \A g \in Frame : Live(gs, g) => Live(fs, g)
      /\ \A g \in Frame \ {f} : Live(fs, g) => Live(gs, g)
      /\ \A g \in Frame : \A state \in {"unborn", "calling", "awaiting", "created", "done",
                                         "anyof"} :
           gs[g].at = state <=> fs[g].at = state
      /\ \A g \in Frame : \A state \in {"won", "running"} : gs[g].at = state => fs[g].at = state
      /\ \A g \in Frame : RootOf(gs, g) = RootOf(fs, g)
      /\ \A g \in Frame : gs[g].holder \in Frame =>
           g # f /\ gs[g].at = fs[g].at /\ gs[g].holder = fs[g].holder
                 /\ gs[gs[g].holder].at = fs[fs[g].holder].at
  BY <1>0, <1>1, Kinds DEF Live, RootOf
<1>3. KindInv(gs)
  BY <1>1, Kinds DEF FrameInv, KindInv
<1>4. FlagInv(gs)
  BY <1>0, <1>1, <1>2 DEF FrameInv, FlagInv
<1>5. HolderInv(gs)
  <2>1. \A w \in Wrap : fs[w].at = "unborn" => gs[w].at = "unborn"
    BY <1>2, Kinds
  <2>2. QED
    BY <1>1, <1>2, <2>1, Kinds DEF FrameInv, HolderInv
<1>6. AwaitInv(gs)
  <2>1. ASSUME NEW q \in Frame, NEW d \in Frame, Awaits(fs, q, d)
        PROVE  Awaits(gs, q, d) /\ gs[d].parent = fs[d].parent
    <3>1. d # f
      BY <2>1, <1>0, Kinds DEF Awaits
    <3>2. QED
      BY <2>1, <3>1, <1>1, <1>2 DEF Awaits
  <2>2. QED
    BY <2>1, <1>2 DEF FrameInv, AwaitInv
<1>7. AwaitedInv(gs)
  BY <1>0, <1>1, <1>2, Kinds DEF FrameInv, AwaitedInv
<1>8. Forest(gs)
  BY <1>1 DEF FrameInv, Forest
<1>9. WrapInv(gs)
  <2>1. SUFFICES ASSUME NEW w \in Wrap
                 PROVE  /\ gs[w].at \notin {"unborn", "destroyed"} /\ ~gs[w].canceled =>
                             gs[w].holder = AnyFrame
                        /\ gs[w].at \in {"created", "running"} =>
                             \E c \in Task : gs[c].holder = w
                        /\ gs[w].at = "created" =>
                             ~gs[w].canceled /\ gs[AnyFrame].at = "running"
                        /\ gs[w].at = "unborn" =>
                             (\A v \in Wrap : gs[v].at = "unborn") /\ gs[AnyFrame].at # "anyof"
                        /\ gs[w].at \in {"running", "won"} => ~gs[w].canceled
                        /\ gs[AnyFrame].at = "unborn" => gs[w].at = "unborn"
    BY DEF WrapInv
  <2>2. w \in Frame /\ AnyFrame \in Frame /\ Task \subseteq Frame /\ Wrap \subseteq Frame
    BY Kinds
  <2>3. gs[w].at = "created" => ~gs[w].canceled /\ gs[AnyFrame].at = "running"
    <3>1. fs[w].at = "created" => /\ ~fs[w].canceled /\ fs[AnyFrame].at = "running"
                                  /\ fs[w].holder = AnyFrame
      BY <2>2 DEF FrameInv, WrapInv
    <3>2. QED
      BY <3>1, <2>2, <1>1, <1>2
  <2>4. gs[w].at = "unborn" =>
          (\A v \in Wrap : gs[v].at = "unborn") /\ gs[AnyFrame].at # "anyof"
    BY <2>2, <1>2 DEF FrameInv, WrapInv
  <2>5. QED
    BY <2>2, <2>3, <2>4, <1>1, <1>2 DEF FrameInv, WrapInv
<1>10. GivenInv(gs)
  <2>1. {g \in Frame : gs[g].holder = AnyFrame} = {g \in Frame : fs[g].holder = AnyFrame}
    BY <1>1
  <2>2. QED
    BY <2>1, <1>2, Kinds DEF FrameInv, GivenInv
<1>11. QED
  BY <1>1, <1>3, <1>4, <1>5, <1>6, <1>7, <1>8, <1>9, <1>10 DEF FrameInv, gs

(* A wrapper goes on, its task done. *)
LEMMA WrapperResumedInv ==
  ASSUME NEW fs, FrameInv(fs), NEW w \in Wrap, NEW c \in Frame, NEW go \in {"won", "unwinding"},
         fs[w].at \in {"calling", "awaiting"}, fs[c].holder = w, fs[c].at = "done",
         go = "won" => ~fs[w].canceled
  PROVE  FrameInv([fs EXCEPT ![w].at = go])
<1> DEFINE gs == [fs EXCEPT ![w].at = go]
<1>0. /\ fs \in [Frame -> Promise] /\ \A g \in Frame : fs[g].holder \in Frame \cup {None}
      /\ w \in Frame /\ w # AnyFrame /\ w \notin Task /\ go \in Execution
      /\ \A g \in Frame : fs[g].holder = w => g = c
  BY Kinds DEF FrameInv, Promise, Execution, HolderInv
<1>1. /\ gs \in [Frame -> Promise]
      /\ \A g \in Frame : gs[g].at = IF g = w THEN go ELSE fs[g].at
      /\ \A g \in Frame : /\ gs[g].canceled = fs[g].canceled /\ gs[g].root = fs[g].root
                          /\ gs[g].holder = fs[g].holder /\ gs[g].parent = fs[g].parent
  BY <1>0 DEF Promise
<1> HIDE DEF gs
<1>2. /\ \A g \in Frame : Live(gs, g) <=> Live(fs, g)
      /\ \A g \in Frame : \A state \in {"unborn", "created", "done", "running", "destroyed"} :
           gs[g].at = state <=> fs[g].at = state
      /\ \A g \in Frame : RootOf(gs, g) = RootOf(fs, g)
      /\ \A g \in Frame : \A state \in {"calling", "awaiting"} :
           gs[g].at = state => fs[g].at = state
      /\ \A g \in Frame \ {w} : gs[g].at = fs[g].at
      /\ gs[AnyFrame].at = fs[AnyFrame].at
      /\ ~Live(fs, c)
  BY <1>0, <1>1, Kinds DEF Live, RootOf
<1>3. KindInv(gs)
  BY <1>0, <1>1, Kinds DEF FrameInv, KindInv
<1>4. FlagInv(gs)
  BY <1>0, <1>1, <1>2 DEF FrameInv, FlagInv
<1>5. HolderInv(gs)
  <2>1. \A p \in Task : gs[p].at = fs[p].at
    BY <1>0, <1>1, Kinds
  <2>2. ASSUME NEW g \in Frame, NEW v \in Wrap, gs[g].holder = v
        PROVE  /\ g \in Task /\ gs[v].at \notin {"unborn", "destroyed"}
               /\ gs[v].at \in {"created", "running"} => gs[g].at = "created"
               /\ gs[v].at \notin {"calling", "awaiting"} => gs[g].at \in {"created", "done"}
    <3>1. CASE v = w
      <4>1. g = c /\ g \in Task
        BY <3>1, <2>2, <1>0, <1>1 DEF FrameInv, HolderInv
      <4>2. gs[g].at = "done" /\ gs[w].at = go
        BY <4>1, <1>0, <1>1
      <4>3. QED
        BY <4>1, <4>2, <3>1
    <3>2. CASE v # w
      <4>1. gs[v].at = fs[v].at /\ fs[g].holder = v
        BY <3>2, <2>2, <1>1, Kinds
      <4>2. g \in Task
        BY <4>1 DEF FrameInv, HolderInv
      <4>3. QED
        BY <4>1, <4>2, <2>1 DEF FrameInv, HolderInv
    <3>3. QED
      BY <3>1, <3>2
  <2>3. QED
    BY <2>1, <2>2, <1>1, <1>2, Kinds DEF FrameInv, HolderInv
<1>6. AwaitInv(gs)
  <2>1. ASSUME NEW q \in Frame, NEW d \in Frame, Awaits(fs, q, d)
        PROVE  Awaits(gs, q, d) /\ gs[d].parent = fs[d].parent
    BY <2>1, <1>1, <1>2 DEF Awaits
  <2>2. QED
    BY <2>1, <1>2 DEF FrameInv, AwaitInv
<1>7. AwaitedInv(gs)
  <2>1. ASSUME NEW f \in Frame, Live(gs, f), gs[f].root # None
        PROVE  gs[f].holder # None /\ gs[gs[f].holder].at \in {"calling", "awaiting"}
    <3>1. /\ fs[f].holder # None /\ fs[fs[f].holder].at \in {"calling", "awaiting"}
      BY <2>1, <1>1, <1>2 DEF FrameInv, AwaitedInv
    <3>2. fs[f].holder # w
      BY <2>1, <1>0, <1>2
    <3>3. QED
      BY <3>1, <3>2, <1>0, <1>1
  <2>2. QED
    BY <2>1, <1>1, <1>2, Kinds DEF FrameInv, AwaitedInv
<1>8. Forest(gs)
  BY <1>1 DEF FrameInv, Forest
<1>9. WrapInv(gs)
  <2>1. gs[w].at \in {"running", "won"} => ~gs[w].canceled
    BY <1>0, <1>1
  <2>2. \A v \in Wrap \ {w} : gs[v].at = fs[v].at
    BY <1>1, Kinds
  <2>3. QED
    BY <2>1, <2>2, <1>1, <1>2, Kinds DEF FrameInv, WrapInv
<1>10. GivenInv(gs)
  <2>1. {g \in Frame : gs[g].holder = AnyFrame} = {g \in Frame : fs[g].holder = AnyFrame}
    BY <1>1
  <2>2. QED
    BY <2>1, <1>2, Kinds DEF FrameInv, GivenInv
<1>11. QED
  BY <1>1, <1>3, <1>4, <1>5, <1>6, <1>7, <1>8, <1>9, <1>10 DEF FrameInv, gs

(***************************************************************************)
(* A task goes on, what it awaited is done: the handle goes, with it the    *)
(* frame, and if that is AnyOf's the handles of tasks it never began.       *)
(***************************************************************************)
Ended(fs, gs, p, c, go) ==
  /\ gs \in [Frame -> Promise]
  /\ \A g \in Frame :
       /\ gs[g].at = IF g = p THEN go ELSE IF g = c THEN "destroyed" ELSE fs[g].at
       /\ gs[g].holder = IF g = c \/ fs[g].holder = c THEN None ELSE fs[g].holder
       /\ gs[g].canceled <=> fs[g].canceled \/ fs[g].holder = c
       /\ gs[g].root = fs[g].root /\ gs[g].parent = fs[g].parent

(* The awaiting frame takes the result and frees the frame it held. *)
LEMMA EndedInv ==
  ASSUME NEW fs, FrameInv(fs), NEW p \in Task, NEW c \in Frame, NEW go \in {"running", "unwinding"},
         fs[p].at \in {"calling", "awaiting"}, fs[c].holder = p, fs[c].at = "done",
         NEW gs, Ended(fs, gs, p, c, go)
  PROVE  FrameInv(gs)
<1>0. /\ fs \in [Frame -> Promise] /\ \A g \in Frame : fs[g].holder \in Frame \cup {None}
      /\ p \in Frame /\ p # AnyFrame /\ p \notin Wrap /\ p # c
      /\ c \in Task \cup {AnyFrame} /\ c \notin Wrap
      /\ \A g \in Frame : fs[g].holder = p => g = c
  BY Kinds DEF FrameInv, Promise, HolderInv
<1>1. \A g \in Frame : fs[g].holder = c =>
        /\ c = AnyFrame /\ g \in Task /\ g # c /\ g # p /\ g \notin Wrap
        /\ fs[g].at = "created" /\ fs[g].root = None /\ \A w \in Wrap : fs[w].at = "unborn"
  <2>1. SUFFICES ASSUME NEW g \in Frame, fs[g].holder = c
                 PROVE  /\ c = AnyFrame /\ g \in Task /\ g # c /\ g # p /\ g \notin Wrap
                        /\ fs[g].at = "created" /\ fs[g].root = None
                        /\ \A w \in Wrap : fs[w].at = "unborn"
    OBVIOUS
  <2>2. c \notin Task
    BY <2>1 DEF FrameInv, HolderInv
  <2>3. /\ g \in Task /\ fs[g].at = "created" /\ \A w \in Wrap : fs[w].at = "unborn"
    BY <2>1, <2>2, <1>0 DEF FrameInv, HolderInv
  <2>4. QED
    BY <2>2, <2>3, <1>0, Kinds DEF FrameInv, FlagInv
<1>2. /\ gs \in [Frame -> Promise]
      /\ gs[p].at = go /\ gs[c].at = "destroyed" /\ gs[c].holder = None
      /\ \A g \in Frame \ {p, c} : gs[g].at = fs[g].at
      /\ \A g \in Frame : gs[g].holder \in {fs[g].holder, None}
      /\ \A g \in Frame : gs[g].holder # c /\ gs[g].holder # p
      /\ \A g \in Frame \ {c} : fs[g].holder # c =>
           gs[g].holder = fs[g].holder /\ gs[g].canceled = fs[g].canceled
      /\ \A g \in Frame : fs[g].holder = c => gs[g].holder = None
      /\ \A g \in Frame : gs[g].root = fs[g].root /\ gs[g].parent = fs[g].parent
      /\ \A g \in Frame : gs[g].canceled => fs[g].canceled \/ fs[g].holder = c
      /\ \A g \in Frame : fs[g].canceled => gs[g].canceled
  BY <1>0, Kinds DEF Ended, FrameInv, Promise
<1>3. /\ \A g \in Frame : Live(gs, g) <=> Live(fs, g)
      /\ \A g \in Frame : \A state \in {"unborn", "created", "anyof", "won"} :
           gs[g].at = state <=> fs[g].at = state
      /\ \A g \in Frame : \A state \in {"calling", "awaiting"} :
           gs[g].at = state => fs[g].at = state
      /\ \A g \in Frame : RootOf(gs, g) = RootOf(fs, g)
      /\ ~Live(fs, c)
      /\ \A w \in Wrap : /\ gs[w].at = fs[w].at /\ gs[w].canceled = fs[w].canceled
                         /\ gs[w].holder = fs[w].holder
      /\ \A g \in Frame : gs[g].holder \in Frame =>
           /\ g # c /\ gs[g].holder = fs[g].holder
           /\ gs[gs[g].holder].at = fs[fs[g].holder].at
  <2>1. \A g \in Frame : Live(gs, g) <=> Live(fs, g)
    BY <1>0, <1>2 DEF Live
  <2>2. \A w \in Wrap : /\ gs[w].at = fs[w].at /\ gs[w].canceled = fs[w].canceled
                        /\ gs[w].holder = fs[w].holder
    BY <1>0, <1>1, <1>2, Kinds
  <2>3. QED
    BY <2>1, <2>2, <1>0, <1>2, Kinds DEF Live, RootOf
<1>4. KindInv(gs)
  BY <1>0, <1>2, <1>3, Kinds DEF FrameInv, KindInv
<1>5. FlagInv(gs)
  BY <1>0, <1>1, <1>2, <1>3 DEF FrameInv, FlagInv
<1>6. HolderInv(gs)
  <2>1. ASSUME NEW f \in Frame, NEW q \in Task, gs[f].holder = q
        PROVE  gs[q].at \in {"calling", "awaiting"} /\ f \in Task \cup {AnyFrame}
    BY <2>1, <1>3, Kinds DEF FrameInv, HolderInv
  <2>2. ASSUME NEW f \in Frame, NEW w \in Wrap, gs[f].holder = w
        PROVE  /\ f \in Task /\ gs[w].at \notin {"unborn", "destroyed"}
               /\ gs[w].at \in {"created", "running"} => gs[f].at = "created"
               /\ gs[w].at \notin {"calling", "awaiting"} => gs[f].at \in {"created", "done"}
    <3>1. fs[f].holder = w /\ gs[w].at = fs[w].at /\ f # c
      BY <2>2, <1>3, Kinds
    <3>2. f \in Task /\ (f = p => fs[w].at \in {"calling", "awaiting"})
      BY <3>1 DEF FrameInv, HolderInv
    <3>3. QED
      BY <3>1, <3>2, <1>2, Kinds DEF FrameInv, HolderInv
  <2>3. ASSUME NEW f \in Frame, gs[f].holder = AnyFrame
        PROVE  \/ /\ f \in Task /\ gs[f].at = "created" /\ \A w \in Wrap : gs[w].at = "unborn"
                  /\ gs[AnyFrame].at \in {"running", "unwinding", "done"}
               \/ f \in Wrap /\ gs[AnyFrame].at \in {"running", "anyof", "unwinding"}
    <3>1. fs[f].holder = AnyFrame /\ c # AnyFrame /\ gs[AnyFrame].at = fs[AnyFrame].at
      BY <2>3, <1>0, <1>2, <1>3, Kinds
    <3>2. QED
      BY <3>1, <1>3 DEF FrameInv, HolderInv
  <2>4. ASSUME NEW f \in Frame, NEW g \in Frame, gs[f].holder = gs[g].holder,
               gs[f].holder \in Task \cup Wrap
        PROVE  f = g
    BY <2>4, <1>3, Kinds DEF FrameInv, HolderInv
  <2>5. QED
    BY <2>1, <2>2, <2>3, <2>4 DEF HolderInv
<1>7. AwaitInv(gs)
  <2>1. ASSUME NEW q \in Frame \ {p}, fs[q].at \in {"calling", "awaiting"},
               NEW d \in Frame, Awaits(fs, q, d)
        PROVE  Awaits(gs, q, d) /\ gs[d].parent = fs[d].parent
    <3>1. d # c /\ fs[d].holder # c
      BY <2>1 DEF Awaits
    <3>2. Live(gs, d) \/ gs[d].at = "done"
      BY <2>1, <3>1, <1>0, <1>2, <1>3 DEF Awaits, Live
    <3>3. QED
      BY <2>1, <3>1, <3>2, <1>2, <1>3 DEF Awaits
  <2>2. gs[p].at \notin {"calling", "awaiting"}
    BY <1>2
  <2>3. QED
    BY <2>1, <2>2, <1>3 DEF FrameInv, AwaitInv
<1>8. AwaitedInv(gs)
  <2>1. ASSUME NEW f \in Frame, Live(gs, f), gs[f].root # None
        PROVE  gs[f].holder # None /\ gs[gs[f].holder].at \in {"calling", "awaiting"}
    <3>1. fs[f].holder # None /\ fs[fs[f].holder].at \in {"calling", "awaiting"}
      BY <2>1, <1>2, <1>3 DEF FrameInv, AwaitedInv
    <3>2. fs[f].holder # p /\ fs[f].holder # c
      BY <2>1, <3>1, <1>0, <1>3
    <3>3. gs[f].holder = fs[f].holder
      BY <3>2, <2>1, <1>2, <1>3
    <3>4. QED
      BY <3>1, <3>2, <3>3, <1>0, <1>2
  <2>2. QED
    BY <2>1, <1>2, <1>3, Kinds DEF FrameInv, AwaitedInv
<1>9. Forest(gs)
  <2>1. \A f \in Frame : gs[f].holder \notin {} /\ gs[f].holder \in {fs[f].holder, None}
    BY <1>2
  <2>2. {} \in SUBSET Frame /\ Forest(fs) /\ None \notin Frame
    BY Kinds DEF FrameInv
  <2>3. QED
    BY <2>1, <2>2, ForestKept
<1>10. WrapInv(gs)
  <2>1. SUFFICES ASSUME NEW w \in Wrap
                 PROVE  /\ gs[w].at \in {"created", "running"} =>
                             \E d \in Task : gs[d].holder = w
                        /\ gs[w].at = "created" => gs[AnyFrame].at = "running"
                        /\ gs[w].at = "unborn" =>
                             (\A v \in Wrap : gs[v].at = "unborn") /\ gs[AnyFrame].at # "anyof"
                        /\ gs[AnyFrame].at = "unborn" => gs[w].at = "unborn"
    BY <1>3 DEF FrameInv, WrapInv
  <2>2. ASSUME gs[w].at \in {"created", "running"}
        PROVE  \E d \in Task : gs[d].holder = w
    <3>1. PICK d \in Task : fs[d].holder = w
      BY <2>2, <1>3 DEF FrameInv, WrapInv
    <3>2. gs[d].holder = w
      BY <3>1, <1>0, <1>2, Kinds
    <3>3. QED
      BY <3>2
  <2>3. ASSUME gs[w].at = "created"
        PROVE  gs[AnyFrame].at = "running"
    <3>1. fs[AnyFrame].at = "running"
      BY <2>3, <1>3 DEF FrameInv, WrapInv
    <3>2. QED
      BY <3>1, <1>0, <1>2, Kinds
  <2>4. QED
    BY <2>2, <2>3, <1>3, Kinds DEF FrameInv, WrapInv
<1>11. GivenInv(gs)
  <2>1. SUFFICES ASSUME gs[AnyFrame].at = "running", \A w \in Wrap : gs[w].at = "unborn"
                 PROVE  Cardinality({g \in Frame : gs[g].holder = AnyFrame}) = Wrappers
    BY DEF GivenInv
  <2>2. fs[AnyFrame].at = "running" /\ AnyFrame # c /\ \A w \in Wrap : fs[w].at = "unborn"
    BY <2>1, <1>0, <1>2, <1>3, Kinds
  <2>3. {g \in Frame : gs[g].holder = AnyFrame} = {g \in Frame : fs[g].holder = AnyFrame}
    BY <2>2, <1>0, <1>2, Kinds
  <2>4. QED
    BY <2>2, <2>3 DEF FrameInv, GivenInv
<1>12. QED
  BY <1>2, <1>4, <1>5, <1>6, <1>7, <1>8, <1>9, <1>10, <1>11 DEF FrameInv

(* As many frames as there are wrappers can be dealt out to them. *)
LEMMA Dealt ==
  ASSUME NEW given, IsFiniteSet(given), Cardinality(given) = Wrappers
  PROVE  LET taken == CHOOSE m \in [Wrap -> given] : \A v, w \in Wrap : m[v] = m[w] => v = w
         IN  /\ taken \in [Wrap -> given]
             /\ \A v, w \in Wrap : taken[v] = taken[w] => v = w
             /\ \A f \in given : \E w \in Wrap : taken[w] = f
<1> DEFINE taken == CHOOSE m \in [Wrap -> given] : \A v, w \in Wrap : m[v] = m[w] => v = w
<1>1. ExistsBijection(Wrap, given)
  BY FS_CardinalityType DEF Wrap
<1>2. \E m \in [Wrap -> given] : \A v, w \in Wrap : m[v] = m[w] => v = w
  BY <1>1 DEF ExistsBijection, Bijection, Injection, IsInjective
<1>3. /\ taken \in [Wrap -> given]
      /\ \A v, w \in Wrap : taken[v] = taken[w] => v = w
  BY <1>2
<1> HIDE DEF taken
<1>4. taken \in Injection(Wrap, given)
  BY <1>3 DEF Injection, IsInjective
<1>5. Cardinality(Wrap) = Wrappers
  BY FramesAssumption, FS_Interval DEF Wrap
<1>6. taken \in Surjection(Wrap, given)
  BY <1>4, <1>5, FS_Injection
<1>7. \A f \in given : \E w \in Wrap : taken[w] = f
  BY <1>6 DEF Surjection
<1>8. QED
  BY <1>3, <1>7 DEF taken

(* There are finitely many frames. *)
LEMMA FramesFinite == IsFiniteSet(Frame)
<1>1. IsFiniteSet(Wrap)
  BY FramesAssumption, FS_Interval DEF Wrap
<1>2. IsFiniteSet(Task \cup {AnyFrame})
  BY FramesAssumption, FS_Union, FS_Singleton
<1>3. QED
  BY <1>1, <1>2, FS_Union DEF Frame

(* AnyOf makes its wrappers, each takes one of the tasks. *)
Arrayed(fs, gs, given) ==
  /\ gs \in [Frame -> Promise]
  /\ \A g \in Frame : g \notin given \cup Wrap => gs[g] = fs[g]
  /\ \A g \in Frame :
       /\ gs[g].canceled = fs[g].canceled
       /\ gs[g].root = fs[g].root /\ gs[g].parent = fs[g].parent
  /\ \A w \in Wrap : gs[w].at = "created" /\ gs[w].holder = AnyFrame
  /\ \A g \in given : gs[g].at = fs[g].at /\ gs[g].holder \in Wrap
  /\ \A f, g \in given : gs[f].holder = gs[g].holder => f = g
  /\ \A w \in Wrap : \E g \in given : gs[g].holder = w

(* AnyOf makes one wrapper of each task it holds. *)
LEMMA ArrayedInv ==
  ASSUME NEW fs, FrameInv(fs), fs[AnyFrame].at = "running", \A w \in Wrap : fs[w].at = "unborn",
         NEW gs, Arrayed(fs, gs, {f \in Frame : fs[f].holder = AnyFrame})
  PROVE  FrameInv(gs)
<1> DEFINE given == {f \in Frame : fs[f].holder = AnyFrame}
<1>0. /\ fs \in [Frame -> Promise] /\ \A g \in Frame : fs[g].holder \in Frame \cup {None}
      /\ \A w \in Wrap : fs[w].holder = None /\ ~fs[w].canceled
      /\ \A g \in Frame : fs[g].holder \notin Wrap
  BY Kinds DEF FrameInv, Promise, FlagInv, HolderInv
<1>1. \A g \in given : /\ g \in Task /\ fs[g].at = "created" /\ g \notin Wrap /\ g # AnyFrame
                       /\ fs[g].root = None
                       /\ \A h \in Frame : fs[h].holder # g
  <2>1. \A g \in given : g \in Task /\ fs[g].at = "created"
    BY <1>0, Kinds DEF FrameInv, HolderInv
  <2>2. QED
    BY <2>1, Kinds DEF FrameInv, HolderInv, FlagInv
<1>2. /\ gs \in [Frame -> Promise]
      /\ \A g \in Frame : g \notin given \cup Wrap => gs[g] = fs[g]
      /\ \A g \in Frame : /\ gs[g].canceled = fs[g].canceled
                          /\ gs[g].root = fs[g].root /\ gs[g].parent = fs[g].parent
      /\ \A w \in Wrap : gs[w].at = "created" /\ gs[w].holder = AnyFrame
      /\ \A g \in given : gs[g].at = fs[g].at /\ gs[g].holder \in Wrap
      /\ \A f, g \in given : gs[f].holder = gs[g].holder => f = g
      /\ \A w \in Wrap : \E g \in given : gs[g].holder = w
      /\ \A g \in Frame : g \in given <=> fs[g].holder = AnyFrame
  BY DEF Arrayed, given
<1> HIDE DEF given
<1>3. /\ \A g \in Frame \ Wrap : gs[g].at = fs[g].at
      /\ \A g \in Frame : Live(gs, g) <=> Live(fs, g)
      /\ \A g \in Frame : RootOf(gs, g) = RootOf(fs, g)
      /\ gs[AnyFrame] = fs[AnyFrame]
      /\ given \subseteq Frame /\ given \cap Wrap = {}
      /\ \A g \in Frame : g \notin given \cup Wrap =>
           gs[g].holder \notin given \cup Wrap \cup {AnyFrame}
  <2>1. \A g \in Frame \ Wrap : gs[g].at = fs[g].at
    BY <1>2
  <2>2. \A w \in Wrap : ~Live(fs, w) /\ ~Live(gs, w)
    BY <1>2 DEF Live
  <2>3. \A g \in Frame : Live(gs, g) <=> Live(fs, g)
    BY <2>1, <2>2 DEF Live
  <2>4. gs[AnyFrame] = fs[AnyFrame]
    BY <1>1, <1>2, Kinds
  <2>5. given \subseteq Frame /\ given \cap Wrap = {}
    BY <1>1 DEF given
  <2>6. QED
    BY <2>1, <2>3, <2>4, <2>5, <1>0, <1>1, <1>2 DEF RootOf
<1>4. KindInv(gs)
  BY <1>2, <1>3, Kinds DEF FrameInv, KindInv
<1>5. FlagInv(gs)
  <2>1. SUFFICES ASSUME NEW f \in Frame
                 PROVE  /\ gs[f].at \in {"unborn", "destroyed"} => gs[f].holder = None
                        /\ gs[f].canceled => gs[f].holder = None
                        /\ gs[f].at \in {"unborn", "created"} =>
                             gs[f].parent = None /\ gs[f].root = None
                        /\ gs[f].at = "unborn" => ~gs[f].canceled
    BY DEF FlagInv
  <2>2. CASE f \in Wrap
    BY <2>2, <1>0, <1>2 DEF FrameInv, FlagInv
  <2>3. CASE f \in given
    <3>1. fs[f].holder # None /\ fs[f].at = "created"
      BY <2>3, <1>1, <1>2, Kinds
    <3>2. QED
      BY <2>3, <3>1, <1>2 DEF FrameInv, FlagInv
  <2>4. CASE f \notin given \cup Wrap
    BY <2>4, <1>2 DEF FrameInv, FlagInv
  <2>5. QED
    BY <2>2, <2>3, <2>4
<1>6. HolderInv(gs)
  <2>1. ASSUME NEW f \in Frame, NEW p \in Task, gs[f].holder = p
        PROVE  gs[p].at \in {"calling", "awaiting"} /\ f \in Task \cup {AnyFrame}
    <3>1. f \notin given \cup Wrap
      BY <2>1, <1>2, Kinds
    <3>2. fs[f].holder = p
      BY <2>1, <3>1, <1>2
    <3>3. QED
      BY <3>2, <1>3, Kinds DEF FrameInv, HolderInv
  <2>2. ASSUME NEW f \in Frame, NEW w \in Wrap, gs[f].holder = w
        PROVE  /\ f \in Task /\ gs[w].at = "created" /\ gs[f].at = "created" /\ f \in given
    <3>1. f \notin Wrap
      BY <2>2, <1>2, Kinds
    <3>2. f \in given
      BY <2>2, <3>1, <1>3
    <3>3. QED
      BY <3>2, <1>1, <1>2
  <2>3. ASSUME NEW f \in Frame, gs[f].holder = AnyFrame
        PROVE  f \in Wrap /\ gs[AnyFrame].at \in {"running", "anyof", "unwinding"}
    BY <2>3, <1>2, <1>3, Kinds
  <2>4. ASSUME NEW f \in Frame, NEW g \in Frame, gs[f].holder = gs[g].holder,
               gs[f].holder \in Task \cup Wrap
        PROVE  f = g
    <3>1. CASE gs[f].holder \in Wrap
      <4>1. f \in given /\ g \in given
        BY <3>1, <2>2, <2>4
      <4>2. QED
        BY <4>1, <2>4, <1>2
    <3>2. CASE gs[f].holder \in Task
      <4>1. f \notin given \cup Wrap /\ g \notin given \cup Wrap
        BY <3>2, <2>4, <1>2, Kinds
      <4>2. gs[f] = fs[f] /\ gs[g] = fs[g]
        BY <4>1, <1>2
      <4>3. QED
        BY <4>2, <2>4 DEF FrameInv, HolderInv
    <3>3. QED
      BY <3>1, <3>2, <2>4
  <2>5. QED
    BY <2>1, <2>2, <2>3, <2>4 DEF HolderInv
<1>7. AwaitInv(gs)
  <2>1. ASSUME NEW q \in Frame, NEW d \in Frame, Awaits(fs, q, d)
        PROVE  Awaits(gs, q, d) /\ gs[d].parent = fs[d].parent
    <3>1. d \notin given \cup Wrap
      BY <2>1, <1>1 DEF Awaits, Live
    <3>2. QED
      BY <2>1, <3>1, <1>2, <1>3 DEF Awaits
  <2>2. ASSUME NEW q \in Frame, NEW at \in {"calling", "awaiting"}, gs[q].at = at
        PROVE  fs[q].at = at
    BY <2>2, <1>2, <1>3
  <2>3. QED
    BY <2>1, <2>2 DEF FrameInv, AwaitInv
<1>8. AwaitedInv(gs)
  <2>1. ASSUME NEW f \in Frame, Live(gs, f)
        PROVE  /\ gs[f].root # None =>
                    gs[f].holder # None /\ gs[gs[f].holder].at \in {"calling", "awaiting"}
               /\ f \notin Wrap /\ gs[f].holder # None => gs[f].root # None
               /\ gs[f].parent # None => gs[f].root # None
    <3>1. Live(fs, f) /\ f \notin given \cup Wrap
      BY <2>1, <1>1, <1>3 DEF Live
    <3>2. gs[f] = fs[f] /\ fs[f].holder \notin Wrap
      BY <3>1, <1>0, <1>2
    <3>3. QED
      BY <3>1, <3>2, <1>0, <1>3 DEF FrameInv, AwaitedInv
  <2>2. QED
    BY <2>1 DEF AwaitedInv
<1>9. Forest(gs)
  <2>1. SUFFICES ASSUME NEW set \in SUBSET Frame, set # {}
                 PROVE  \E f \in set : gs[f].holder \notin set
    BY DEF Forest
  <2>2. CASE AnyFrame \in set \/ set \cap Wrap = {}
    <3>1. CASE set \subseteq given \cup Wrap
      <4>1. set \cap Wrap = {}
        BY <2>2, <3>1, <1>1, Kinds
      <4>2. QED
        BY <2>1, <3>1, <4>1, <1>2
    <3>2. CASE ~(set \subseteq given \cup Wrap)
      <4>1. PICK f \in set \ (given \cup Wrap) : fs[f].holder \notin set \ (given \cup Wrap)
        <5>1. set \ (given \cup Wrap) \in SUBSET Frame /\ set \ (given \cup Wrap) # {}
          BY <3>2
        <5>2. QED
          BY <5>1 DEF FrameInv, Forest
      <4>2. gs[f].holder = fs[f].holder /\ gs[f].holder \notin given \cup Wrap
        BY <4>1, <1>2, <1>3
      <4>3. QED
        BY <4>1, <4>2
    <3>3. QED
      BY <3>1, <3>2
  <2>3. CASE AnyFrame \notin set /\ set \cap Wrap # {}
    BY <2>3, <1>2
  <2>4. QED
    BY <2>2, <2>3
<1>10. WrapInv(gs)
  <2>1. SUFFICES ASSUME NEW w \in Wrap
                 PROVE  /\ gs[w].at = "created" /\ gs[w].holder = AnyFrame
                        /\ \E c \in Task : gs[c].holder = w
                        /\ ~gs[w].canceled /\ gs[AnyFrame].at = "running"
    BY DEF WrapInv
  <2>2. QED
    BY <1>0, <1>1, <1>2, <1>3, Kinds
<1>11. GivenInv(gs)
  BY <1>2, Kinds DEF GivenInv
<1>12. QED
  BY <1>2, <1>4, <1>5, <1>6, <1>7, <1>8, <1>9, <1>10, <1>11 DEF FrameInv

-----------------------------------------------------------------------------
(* What the steps do to the stack                                            *)

(* A return takes the innermost call off the stack. *)
LEMMA TailFacts ==
  ASSUME NEW st \in Seq(Frame), st # <<>>
  PROVE  /\ Tail(st) \in Seq(Frame) /\ Len(Tail(st)) = Len(st) - 1
         /\ DOMAIN Tail(st) = 1 .. Len(st) - 1 /\ DOMAIN st = 1 .. Len(st)
         /\ \A i \in DOMAIN Tail(st) : Tail(st)[i] = st[i + 1] /\ i + 1 \in DOMAIN st
         /\ Head(st) = st[1] /\ 1 \in DOMAIN st /\ Len(st) \in Nat /\ Head(st) \in Frame
OBVIOUS

(* A call puts a frame on the stack. *)
LEMMA PushFacts ==
  ASSUME NEW st \in Seq(Frame), NEW c \in Frame
  PROVE  /\ <<c>> \o st \in Seq(Frame) /\ Len(<<c>> \o st) = Len(st) + 1
         /\ DOMAIN (<<c>> \o st) = 1 .. Len(st) + 1 /\ DOMAIN st = 1 .. Len(st)
         /\ (<<c>> \o st)[1] = c
         /\ \A i \in DOMAIN st : (<<c>> \o st)[i + 1] = st[i]
         /\ \A i \in DOMAIN (<<c>> \o st) : i # 1 => i - 1 \in DOMAIN st /\ (<<c>> \o st)[i] = st[i - 1]
         /\ Len(st) \in Nat
OBVIOUS

(* The frames on the stack stay as they are, but for the one that has control. *)
SameBelow(fs, gs, st) ==
  \A f \in Frame \ {Head(st)} :
    /\ gs[f].at \in Execution <=> fs[f].at \in Execution
    /\ fs[f].at \in Execution => /\ gs[f].at = fs[f].at /\ gs[f].parent = fs[f].parent
                                 /\ gs[f].holder \in {fs[f].holder, None}

(* The innermost call moves on and stays on the stack. *)
LEMMA StackKept ==
  ASSUME NEW st \in Seq(Frame), st # <<>>, NEW fs, NEW gs, NEW rs \in BOOLEAN,
         StackInv(fs, st, rs), SameBelow(fs, gs, st),
         gs[Head(st)].at \in Execution, gs[Head(st)].parent = fs[Head(st)].parent,
         gs[Head(st)].holder \in {fs[Head(st)].holder, None}
  PROVE  StackInv(gs, st, rs)
<1> DEFINE h == Head(st)
<1>1. /\ h = st[1] /\ 1 \in DOMAIN st /\ DOMAIN st = 1 .. Len(st) /\ Len(st) \in Nat
      /\ h \in Frame /\ None \notin Frame
      /\ \A i \in DOMAIN st : st[i] \in Frame /\ st[i] \in ToSet(st)
  BY TailFacts, Kinds DEF ToSet
<1>2. fs[h].at \in Execution
  BY <1>1 DEF StackInv
<1> HIDE DEF h
<1>3. /\ \A i \in DOMAIN st : gs[st[i]].parent = fs[st[i]].parent
      /\ \A i \in DOMAIN st : gs[st[i]].holder \in {fs[st[i]].holder, None}
      /\ \A i \in DOMAIN st : i > 1 => gs[st[i]].at = fs[st[i]].at
  <2>1. SUFFICES ASSUME NEW i \in DOMAIN st
                 PROVE  /\ gs[st[i]].parent = fs[st[i]].parent
                        /\ gs[st[i]].holder \in {fs[st[i]].holder, None}
                        /\ i > 1 => gs[st[i]].at = fs[st[i]].at
    OBVIOUS
  <2>2. st[i] \in Frame /\ fs[st[i]].at \in Execution
    BY <1>1 DEF StackInv
  <2>3. CASE i = 1
    BY <2>3, <1>1 DEF h
  <2>4. CASE i # 1
    <3>1. st[i] # h /\ i > 1
      BY <2>4, <1>1 DEF StackInv
    <3>2. QED
      BY <3>1, <2>2 DEF SameBelow, h
  <2>5. QED
    BY <2>3, <2>4
<1>4. ToSet(st) = {f \in Frame : gs[f].at \in Execution}
  <2>1. ASSUME NEW f \in Frame
        PROVE  gs[f].at \in Execution <=> fs[f].at \in Execution
    BY <1>2 DEF SameBelow, h
  <2>2. QED
    BY <2>1 DEF StackInv
<1>5. \A i \in DOMAIN st : i > 1 => InCall(gs, st[i], rs)
  BY <1>3 DEF StackInv, InCall
<1>6. \A i, j \in DOMAIN st : gs[st[i]].holder = st[j] /\ st[j] # AnyFrame => i < j
  BY <1>1, <1>3 DEF StackInv
<1>7. ~rs => BottomInv(gs, st)
  BY <1>3 DEF StackInv, BottomInv
<1>8. QED
  BY <1>4, <1>5, <1>6, <1>7 DEF StackInv

(* The innermost call suspends or ends. *)
LEMMA StackPopped ==
  ASSUME NEW st \in Seq(Frame), st # <<>>, NEW fs, NEW gs, NEW rs \in BOOLEAN,
         StackInv(fs, st, rs), SameBelow(fs, gs, st), gs[Head(st)].at \notin Execution
  PROVE  /\ StackInv(gs, Tail(st), rs)
         /\ \A i \in DOMAIN Tail(st) : InCall(gs, Tail(st)[i], rs)
<1> DEFINE h == Head(st)  tl == Tail(st)
<1>1. /\ h = st[1] /\ 1 \in DOMAIN st /\ DOMAIN st = 1 .. Len(st) /\ Len(st) \in Nat
      /\ h \in Frame /\ None \notin Frame
      /\ \A i \in DOMAIN st : st[i] \in Frame /\ st[i] \in ToSet(st)
      /\ DOMAIN tl = 1 .. Len(st) - 1 /\ Len(tl) = Len(st) - 1
      /\ \A i \in DOMAIN tl : tl[i] = st[i + 1] /\ i + 1 \in DOMAIN st /\ i + 1 > 1
  BY TailFacts, Kinds DEF ToSet
<1>2. fs[h].at \in Execution
  BY <1>1 DEF StackInv
<1> HIDE DEF h, tl
<1>3. ASSUME NEW i \in DOMAIN tl
      PROVE  /\ tl[i] \in Frame /\ tl[i] # h
             /\ gs[tl[i]].at = fs[tl[i]].at /\ gs[tl[i]].parent = fs[tl[i]].parent
             /\ gs[tl[i]].holder \in {fs[tl[i]].holder, None}
             /\ gs[tl[i]].at \in Execution
  <2>1. tl[i] = st[i + 1] /\ i + 1 \in DOMAIN st /\ i + 1 # 1
    BY <1>1
  <2>2. st[i + 1] \in Frame /\ fs[st[i + 1]].at \in Execution /\ st[i + 1] # h
    BY <2>1, <1>1 DEF StackInv
  <2>3. QED
    BY <2>1, <2>2 DEF SameBelow, h
<1>4. ToSet(tl) = {f \in Frame : gs[f].at \in Execution}
  <2>1. ASSUME NEW f \in Frame, gs[f].at \in Execution
        PROVE  f \in ToSet(tl)
    <3>1. f # h /\ fs[f].at \in Execution
      BY <2>1 DEF SameBelow, h
    <3>2. f \in ToSet(st)
      BY <3>1 DEF StackInv
    <3>3. PICK i \in DOMAIN st : st[i] = f
      BY <3>2 DEF ToSet
    <3>4. i - 1 \in DOMAIN tl /\ (i - 1) + 1 = i
      BY <3>1, <3>3, <1>1
    <3>5. tl[i - 1] = f
      BY <3>3, <3>4, <1>1
    <3>6. QED
      BY <3>4, <3>5 DEF ToSet
  <2>2. QED
    BY <2>1, <1>3 DEF ToSet
<1>5. \A i, j \in DOMAIN tl : tl[i] = tl[j] => i = j
  <2>1. SUFFICES ASSUME NEW i \in DOMAIN tl, NEW j \in DOMAIN tl, tl[i] = tl[j]
                 PROVE  i = j
    OBVIOUS
  <2>2. i + 1 \in DOMAIN st /\ j + 1 \in DOMAIN st /\ st[i + 1] = st[j + 1] /\ i \in Int /\ j \in Int
    BY <2>1, <1>1
  <2>3. i + 1 = j + 1
    BY <2>2 DEF StackInv
  <2>4. QED
    BY <2>2, <2>3
<1>6. \A i \in DOMAIN tl : InCall(gs, tl[i], rs)
  <2>1. SUFFICES ASSUME NEW i \in DOMAIN tl
                 PROVE  InCall(gs, tl[i], rs)
    OBVIOUS
  <2>2. InCall(fs, tl[i], rs)
    BY <1>1 DEF StackInv
  <2>3. QED
    BY <2>2, <1>3 DEF InCall
<1>7. \A i, j \in DOMAIN tl : gs[tl[i]].holder = tl[j] /\ tl[j] # AnyFrame => i < j
  <2>1. SUFFICES ASSUME NEW i \in DOMAIN tl, NEW j \in DOMAIN tl,
                        gs[tl[i]].holder = tl[j], tl[j] # AnyFrame
                 PROVE  i < j
    OBVIOUS
  <2>2. /\ i + 1 \in DOMAIN st /\ j + 1 \in DOMAIN st /\ i \in Int /\ j \in Int
        /\ fs[st[i + 1]].holder = st[j + 1] /\ st[j + 1] # AnyFrame
    BY <2>1, <1>1, <1>3
  <2>3. i + 1 < j + 1
    BY <2>2 DEF StackInv
  <2>4. QED
    BY <2>2, <2>3
<1>8. ASSUME ~rs
      PROVE  BottomInv(gs, tl)
  <2>1. BottomInv(fs, st)
    BY <1>8 DEF StackInv
  <2>2. ASSUME NEW i \in DOMAIN tl
        PROVE  /\ i \in Int /\ i + 1 \in DOMAIN st /\ tl[i] = st[i + 1]
               /\ i + 1 < Len(st) <=> i < Len(tl)
    BY <1>1
  <2>3. \A i \in DOMAIN tl : i < Len(tl) => gs[tl[i]].parent = None
    BY <2>1, <2>2, <1>3 DEF BottomInv
  <2>4. \A i \in DOMAIN tl : tl[i] = AnyFrame => i < Len(tl)
    BY <2>1, <2>2 DEF BottomInv
  <2>5. \A i, j \in DOMAIN tl : tl[i] \in Wrap /\ tl[j] \in Wrap => i = j
    <3>1. SUFFICES ASSUME NEW i \in DOMAIN tl, NEW j \in DOMAIN tl,
                          tl[i] \in Wrap, tl[j] \in Wrap
                   PROVE  i = j
      OBVIOUS
    <3>2. i + 1 = j + 1
      BY <2>1, <2>2, <3>1 DEF BottomInv
    <3>3. QED
      BY <3>2, <2>2
  <2>6. \A i, j \in DOMAIN tl : tl[i] \in Wrap /\ tl[j] = AnyFrame => i < j
    <3>1. SUFFICES ASSUME NEW i \in DOMAIN tl, NEW j \in DOMAIN tl,
                          tl[i] \in Wrap, tl[j] = AnyFrame
                   PROVE  i < j
      OBVIOUS
    <3>2. i + 1 < j + 1
      BY <2>1, <2>2, <3>1 DEF BottomInv
    <3>3. QED
      BY <3>2, <2>2
  <2>7. QED
    BY <2>3, <2>4, <2>5, <2>6 DEF BottomInv
<1>9. QED
  BY <1>4, <1>5, <1>6, <1>7, <1>8 DEF StackInv, tl

(* c is put on top, the frame that had control calls it. *)
MayPush(fs, gs, st, rs, c) ==
  /\ fs[c].at \notin Execution /\ gs[c].at \in Execution
  /\ \A f \in Frame \ {c} : gs[f].at \in Execution <=> fs[f].at \in Execution
  /\ \A f \in Frame : fs[f].at \in Execution =>
       /\ gs[f].parent = fs[f].parent /\ gs[f].holder \in {fs[f].holder, None}
       /\ st # <<>> /\ f # Head(st) => gs[f].at = fs[f].at
       /\ c = AnyFrame \/ gs[f].holder # c
  /\ st # <<>> => InCall(gs, Head(st), rs)
  /\ gs[c].holder # c
  /\ ~rs => /\ st # <<>> => gs[c].parent = None
            /\ c = AnyFrame => st # <<>>
            /\ c \in Wrap \cup {AnyFrame} => \A f \in Wrap : fs[f].at \notin Execution

(* A frame that is called or resumed goes on the stack. *)
LEMMA StackPushed ==
  ASSUME NEW st \in Seq(Frame), NEW fs, NEW gs, NEW rs \in BOOLEAN, NEW c \in Frame,
         StackInv(fs, st, rs), MayPush(fs, gs, st, rs, c)
  PROVE  StackInv(gs, <<c>> \o st, rs)
<1> USE DEF MayPush
<1> DEFINE nx == <<c>> \o st
<1>1. /\ nx \in Seq(Frame) /\ Len(nx) = Len(st) + 1
      /\ DOMAIN nx = 1 .. Len(st) + 1 /\ DOMAIN st = 1 .. Len(st)
      /\ nx[1] = c /\ Len(st) \in Nat
      /\ \A i \in DOMAIN st : nx[i + 1] = st[i] /\ i + 1 \in DOMAIN nx
      /\ \A i \in DOMAIN nx : i # 1 => i - 1 \in DOMAIN st /\ nx[i] = st[i - 1]
      /\ \A i \in DOMAIN st : st[i] \in Frame /\ st[i] \in ToSet(st)
      /\ \A i \in DOMAIN nx : nx[i] \in Frame
  BY PushFacts DEF ToSet
<1> HIDE DEF nx
<1>2. ASSUME NEW i \in DOMAIN st
      PROVE  /\ fs[st[i]].at \in Execution /\ st[i] # c /\ st[i] \in Frame
             /\ gs[st[i]].parent = fs[st[i]].parent
             /\ gs[st[i]].holder \in {fs[st[i]].holder, None}
  BY <1>1 DEF StackInv
<1>3. ASSUME NEW i \in DOMAIN nx
      PROVE  \/ i = 1 /\ nx[i] = c
             \/ /\ i > 1 /\ i - 1 \in DOMAIN st /\ nx[i] = st[i - 1] /\ st[i - 1] # c
                /\ fs[st[i - 1]].at \in Execution
  BY <1>1, <1>2
<1>4. ToSet(nx) = {f \in Frame : gs[f].at \in Execution}
  <2>1. ASSUME NEW f \in Frame, gs[f].at \in Execution, f # c
        PROVE  \E i \in DOMAIN nx : nx[i] = f
    <3>1. f \in ToSet(st)
      BY <2>1 DEF StackInv
    <3>2. PICK i \in DOMAIN st : st[i] = f
      BY <3>1 DEF ToSet
    <3>3. QED
      BY <3>2, <1>1
  <2>2. 1 \in DOMAIN nx
    BY <1>1
  <2>3. ASSUME NEW i \in DOMAIN nx
        PROVE  nx[i] \in Frame /\ gs[nx[i]].at \in Execution
    BY <1>1, <1>3
  <2>4. ASSUME NEW f \in Frame, gs[f].at \in Execution
        PROVE  \E i \in DOMAIN nx : nx[i] = f
    BY <2>1, <2>2, <2>4, <1>1
  <2>5. QED
    BY <2>3, <2>4 DEF ToSet
<1>5. \A i, j \in DOMAIN nx : nx[i] = nx[j] => i = j
  <2>1. SUFFICES ASSUME NEW i \in DOMAIN nx, NEW j \in DOMAIN nx, nx[i] = nx[j]
                 PROVE  i = j
    OBVIOUS
  <2>2. CASE i = 1 \/ j = 1
    BY <2>1, <2>2, <1>3
  <2>3. CASE i # 1 /\ j # 1
    <3>1. /\ i - 1 \in DOMAIN st /\ j - 1 \in DOMAIN st /\ st[i - 1] = st[j - 1]
          /\ i \in Int /\ j \in Int
      BY <2>1, <2>3, <1>1
    <3>2. i - 1 = j - 1
      BY <3>1 DEF StackInv
    <3>3. QED
      BY <3>1, <3>2
  <2>4. QED
    BY <2>2, <2>3
<1>6. \A i \in DOMAIN nx : i > 1 => InCall(gs, nx[i], rs)
  <2>1. SUFFICES ASSUME NEW i \in DOMAIN nx, i > 1
                 PROVE  InCall(gs, nx[i], rs)
    OBVIOUS
  <2>2. i - 1 \in DOMAIN st /\ nx[i] = st[i - 1] /\ st # <<>>
    BY <2>1, <1>1
  <2>3. CASE i - 1 = 1
    BY <2>2, <2>3
  <2>4. CASE i - 1 # 1
    <3>1. i - 1 > 1 /\ 1 \in DOMAIN st /\ Head(st) = st[1]
      BY <2>1, <2>2, <2>4, <1>1
    <3>2. InCall(fs, st[i - 1], rs) /\ st[i - 1] # Head(st)
      BY <3>1, <2>2, <2>4 DEF StackInv
    <3>3. gs[st[i - 1]].at = fs[st[i - 1]].at
      BY <3>2, <2>2, <1>2
    <3>4. QED
      BY <3>2, <3>3, <2>2 DEF InCall
  <2>5. QED
    BY <2>3, <2>4
<1>7. \A i, j \in DOMAIN nx : gs[nx[i]].holder = nx[j] /\ nx[j] # AnyFrame => i < j
  <2>1. SUFFICES ASSUME NEW i \in DOMAIN nx, NEW j \in DOMAIN nx,
                        gs[nx[i]].holder = nx[j], nx[j] # AnyFrame
                 PROVE  i < j
    OBVIOUS
  <2>2. CASE i = 1
    <3>1. j # 1
      BY <2>1, <2>2, <1>3
    <3>2. QED
      BY <2>2, <3>1, <1>3
  <2>3. CASE i # 1
    <3>1. /\ i - 1 \in DOMAIN st /\ nx[i] = st[i - 1] /\ fs[nx[i]].at \in Execution
          /\ nx[i] \in Frame /\ i \in Int
      BY <2>3, <1>1, <1>3
    <3>2. nx[j] # c /\ j # 1
      BY <2>1, <3>1, <1>3
    <3>3. j - 1 \in DOMAIN st /\ nx[j] = st[j - 1] /\ nx[j] \in Frame /\ j \in Int
      BY <3>2, <1>1
    <3>4. fs[st[i - 1]].holder = st[j - 1]
      BY <2>1, <3>1, <3>3, <1>2, Kinds
    <3>5. i - 1 < j - 1
      BY <2>1, <3>1, <3>3, <3>4 DEF StackInv
    <3>6. QED
      BY <3>1, <3>3, <3>5
  <2>4. QED
    BY <2>2, <2>3
<1>8. ASSUME ~rs
      PROVE  BottomInv(gs, nx)
  <2>1. BottomInv(fs, st)
    BY <1>8 DEF StackInv
  <2>2. Len(st) > 0 <=> st # <<>>
    OBVIOUS
  <2>3. ASSUME NEW i \in DOMAIN nx, i # 1
        PROVE  /\ i - 1 \in DOMAIN st /\ nx[i] = st[i - 1] /\ i \in Int
               /\ i - 1 < Len(st) <=> i < Len(nx)
    BY <2>3, <1>1
  <2>4. \A i \in DOMAIN nx : i < Len(nx) => gs[nx[i]].parent = None
    <3>1. SUFFICES ASSUME NEW i \in DOMAIN nx, i < Len(nx)
                   PROVE  gs[nx[i]].parent = None
      OBVIOUS
    <3>2. CASE i = 1
      BY <3>1, <3>2, <2>2, <1>1, <1>8
    <3>3. CASE i # 1
      BY <3>1, <3>3, <2>1, <2>3, <1>2 DEF BottomInv
    <3>4. QED
      BY <3>2, <3>3
  <2>5. \A i \in DOMAIN nx : nx[i] = AnyFrame => i < Len(nx)
    <3>1. SUFFICES ASSUME NEW i \in DOMAIN nx, nx[i] = AnyFrame
                   PROVE  i < Len(nx)
      OBVIOUS
    <3>2. CASE i = 1
      BY <3>1, <3>2, <2>2, <1>1, <1>8
    <3>3. CASE i # 1
      BY <3>1, <3>3, <2>1, <2>3 DEF BottomInv
    <3>4. QED
      BY <3>2, <3>3
  <2>6. \A i, j \in DOMAIN nx : nx[i] \in Wrap /\ nx[j] \in Wrap => i = j
    <3>1. SUFFICES ASSUME NEW i \in DOMAIN nx, NEW j \in DOMAIN nx, nx[i] \in Wrap, nx[j] \in Wrap
                   PROVE  i = j
      OBVIOUS
    <3>2. CASE i = 1 \/ j = 1
      BY <3>1, <3>2, <1>3, <1>8
    <3>3. CASE i # 1 /\ j # 1
      <4>1. i - 1 = j - 1
        BY <3>1, <3>3, <2>1, <2>3 DEF BottomInv
      <4>2. QED
        BY <4>1, <3>3, <2>3
    <3>4. QED
      BY <3>2, <3>3
  <2>7. \A i, j \in DOMAIN nx : nx[i] \in Wrap /\ nx[j] = AnyFrame => i < j
    <3>1. SUFFICES ASSUME NEW i \in DOMAIN nx, NEW j \in DOMAIN nx,
                          nx[i] \in Wrap, nx[j] = AnyFrame
                   PROVE  i < j
      OBVIOUS
    <3>2. CASE i = 1
      BY <3>1, <3>2, <1>3, Kinds
    <3>3. CASE i # 1 /\ j = 1
      BY <3>1, <3>3, <1>3, <1>8
    <3>4. CASE i # 1 /\ j # 1
      <4>1. i - 1 < j - 1
        BY <3>1, <3>4, <2>1, <2>3 DEF BottomInv
      <4>2. QED
        BY <4>1, <3>4, <2>3
    <3>5. QED
      BY <3>2, <3>3, <3>4
  <2>8. QED
    BY <2>4, <2>5, <2>6, <2>7 DEF BottomInv
<1>9. QED
  BY <1>4, <1>5, <1>6, <1>7, <1>8 DEF StackInv, nx

-----------------------------------------------------------------------------
(* Who holds and who awaits                                                  *)

(* A task or a wrapper that waits holds exactly one frame. *)
LEMMA OneHeld ==
  ASSUME NEW fs, FrameInv(fs), NEW p \in Task \cup Wrap, NEW c \in Frame, fs[c].holder = p
  PROVE  Held(fs, p) = {c} /\ (CHOOSE u \in Held(fs, p) : TRUE) = c
<1>1. \A g \in Frame : fs[g].holder = p => g = c
  BY DEF FrameInv, HolderInv
<1>2. Held(fs, p) = {c}
  BY <1>1 DEF Held
<1>3. QED
  BY <1>2

(* A running frame with a root is awaited by who holds it. *)
LEMMA HolderAwaits ==
  ASSUME NEW fs, FrameInv(fs), NEW f \in Frame, Live(fs, f), fs[f].root # None
  PROVE  LET p == fs[f].holder
         IN  /\ p \in Task \cup Wrap /\ Awaits(fs, p, f) /\ f \notin Wrap
             /\ \/ fs[p].at = "calling" /\ fs[f].parent = None
                \/ fs[p].at = "awaiting" /\ fs[f].parent = p
<1> DEFINE p == fs[f].holder
<1>1. p \in Frame /\ fs[p].at \in {"calling", "awaiting"}
  BY DEF FrameInv, AwaitedInv, Promise
<1>2. p \in Task \cup Wrap
  BY <1>1, Kinds DEF FrameInv, KindInv
<1> HIDE DEF p
<1>3. \A c \in Frame : Awaits(fs, p, c) => c = f
  BY <1>2 DEF FrameInv, HolderInv, Awaits, p
<1>4. CASE fs[p].at = "calling"
  <2>1. Awaits(fs, p, f) /\ fs[f].parent = None
    BY <1>1, <1>3, <1>4 DEF FrameInv, AwaitInv
  <2>2. QED
    BY <2>1, <1>2, <1>4, Kinds DEF p, FrameInv, KindInv
<1>5. CASE fs[p].at = "awaiting"
  <2>1. Awaits(fs, p, f) /\ fs[f].parent = p
    BY <1>1, <1>3, <1>5 DEF FrameInv, AwaitInv
  <2>2. QED
    BY <2>1, <1>2, <1>5, Kinds DEF p, FrameInv, KindInv
<1>6. QED
  BY <1>1, <1>4, <1>5 DEF p

(* The parent of a frame is its holder. *)
LEMMA ParentAwaits ==
  ASSUME NEW fs, FrameInv(fs), NEW f \in Frame, Live(fs, f), fs[f].parent # None
  PROVE  LET p == fs[f].parent
         IN  /\ p \in Task \cup Wrap /\ Awaits(fs, p, f) /\ f \notin Wrap
             /\ fs[p].at = "awaiting" /\ fs[f].holder = p
<1>1. fs[f].root # None
  BY DEF FrameInv, AwaitedInv
<1>2. QED
  BY <1>1, HolderAwaits

(* Dropped, as the frames its handles reach. *)
LEMMA DroppedWithout ==
  ASSUME NEW fs, NEW handles, DOMAIN fs = Frame
  PROVE  Dropped(fs, handles) =
           Without(fs, handles \cup {c \in Frame : fs[c].holder \in handles \cap At(fs, "done")})
BY DEF Dropped, Without

(* What is still there after p has gone on, c being done. *)
Resolved(fs, gs, p, c) ==
  /\ gs[p].at \in {"running", "unwinding", "won"}
  /\ gs[p].at = "won" => ~fs[p].canceled
  /\ p \in Task => gs[p].at # "won"
  /\ p \in Wrap => gs[p].at # "running"
  /\ Canceled(fs, p) => gs[p].at = "unwinding"
  /\ gs[c].at \in {"done", "destroyed"} /\ (p \in Task => gs[c].at = "destroyed")
  /\ \A g \in Frame \ {p, c} : gs[g].at = fs[g].at
  /\ \A g \in Frame :
       /\ gs[g].root = fs[g].root /\ gs[g].parent = fs[g].parent /\ gs[g].failed = fs[g].failed
       /\ \/ gs[g].holder = fs[g].holder /\ gs[g].canceled = fs[g].canceled
          \/ fs[g].holder # None /\ gs[g].holder = None /\ gs[g].canceled
          \/ /\ g = c /\ gs[g].holder = None /\ gs[g].canceled = fs[g].canceled
             /\ gs[g].at = "destroyed"

(* A resumed parent takes the result of the frame it awaited. *)
LEMMA ConsumedInv ==
  ASSUME NEW fs, FrameInv(fs), NEW p \in Task \cup Wrap, NEW c \in Frame,
         fs[p].at \in {"calling", "awaiting"}, fs[c].holder = p, fs[c].at = "done"
  PROVE  FrameInv(Consumed(fs, p, c)) /\ Resolved(fs, Consumed(fs, p, c), p, c)
<1>0. fs \in [Frame -> Promise] /\ p \in Frame /\ p # c /\ fs[p] \in Promise
  BY Kinds DEF FrameInv
<1> DEFINE go == IF Canceled(fs, p) \/ fs[c].failed THEN "unwinding"
                 ELSE IF p \in Wrap THEN "won" ELSE "running"
           hs == [fs EXCEPT ![p].at = go]
           gs == Consumed(fs, p, c)
<1>1. go \in Execution
  BY DEF Execution
<1>2. /\ go \in {"running", "unwinding", "won"}
      /\ Canceled(fs, p) => go = "unwinding"
      /\ go = "won" => p \in Wrap /\ ~fs[p].canceled
      /\ go = "running" => p \notin Wrap
  BY DEF Canceled
<1>3. gs = IF p \in Wrap THEN hs ELSE Dropped(hs, {c})
  BY DEF Consumed
<1> HIDE DEF go, gs
<1>4. /\ hs \in [Frame -> Promise]
      /\ \A g \in Frame : hs[g].at = IF g = p THEN go ELSE fs[g].at
      /\ \A g \in Frame : /\ hs[g].canceled = fs[g].canceled /\ hs[g].root = fs[g].root
                          /\ hs[g].holder = fs[g].holder /\ hs[g].parent = fs[g].parent
                          /\ hs[g].failed = fs[g].failed
  BY <1>0, <1>1 DEF Promise
<1> HIDE DEF hs
<1>5. CASE p \in Wrap
  <2>1. gs = hs
    BY <1>3, <1>5
  <2>2. FrameInv(gs)
    BY <2>1, <1>2, <1>5, WrapperResumedInv DEF hs
  <2>3. p \notin Task
    BY <1>5, Kinds
  <2>4. Resolved(fs, gs, p, c)
    BY <2>1, <2>3, <1>0, <1>2, <1>4 DEF Resolved
  <2>5. QED
    BY <2>2, <2>4 DEF gs
<1>6. CASE p \notin Wrap
  <2> DEFINE all == {c} \cup {g \in Frame : hs[g].holder \in {c} \cap At(hs, "done")}
  <2>1. gs = Without(hs, all)
    BY <1>3, <1>4, <1>6, DroppedWithout
  <2>2. \A g \in Frame : g \in all <=> g = c \/ fs[g].holder = c
    BY <1>0, <1>4 DEF At
  <2> HIDE DEF all
  <2>3. /\ gs \in [Frame -> Promise]
        /\ \A g \in Frame :
             /\ gs[g].at = IF g \in all /\ hs[g].at = "done" THEN "destroyed" ELSE hs[g].at
             /\ gs[g].canceled <=> (g \in all /\ hs[g].at # "done") \/ hs[g].canceled
             /\ gs[g].holder = IF g \in all THEN None ELSE hs[g].holder
             /\ gs[g].root = hs[g].root
             /\ gs[g].parent = hs[g].parent
             /\ gs[g].failed = hs[g].failed
    BY <2>1, <1>4, WithoutFields
  <2>4. \A g \in Frame : fs[g].holder = c => fs[g].at # "done" /\ g # c /\ g # p
    <3>1. c \in Task \cup {AnyFrame}
      BY <1>6 DEF FrameInv, HolderInv
    <3>2. ASSUME NEW g \in Frame, fs[g].holder = c
          PROVE  c = AnyFrame /\ g \in Task /\ fs[g].at = "created"
      <4>1. c \notin Task
        BY <3>2 DEF FrameInv, HolderInv
      <4>2. QED
        BY <4>1, <3>1, <3>2, Kinds DEF FrameInv, HolderInv, KindInv
    <3>3. QED
      BY <3>2, <1>0, Kinds
  <2>5. p \in Task /\ go \in {"running", "unwinding"}
    BY <1>2, <1>6
  <2>6. Ended(fs, gs, p, c, go)
    BY <2>2, <2>3, <2>4, <2>5, <1>0, <1>4 DEF Ended
  <2>7. FrameInv(gs)
    BY <2>5, <2>6, EndedInv
  <2>8. Resolved(fs, gs, p, c)
    <3>1. /\ gs[p].at = go /\ gs[c].at = "destroyed"
          /\ \A g \in Frame \ {p, c} : gs[g].at = fs[g].at
      BY <2>6, <1>0 DEF Ended
    <3>2. ASSUME NEW g \in Frame
          PROVE  /\ gs[g].root = fs[g].root /\ gs[g].parent = fs[g].parent
                 /\ gs[g].failed = fs[g].failed
                 /\ \/ gs[g].holder = fs[g].holder /\ gs[g].canceled = fs[g].canceled
                    \/ fs[g].holder # None /\ gs[g].holder = None /\ gs[g].canceled
                    \/ /\ g = c /\ gs[g].holder = None /\ gs[g].canceled = fs[g].canceled
                       /\ gs[g].at = "destroyed"
      <4>1. /\ gs[g].canceled \in BOOLEAN /\ fs[g].canceled \in BOOLEAN
        BY <2>3, <1>0 DEF Promise
      <4>2. gs[g].root = fs[g].root /\ gs[g].parent = fs[g].parent /\ gs[g].failed = fs[g].failed
        BY <2>3, <1>4
      <4>3. CASE g \notin all
        BY <4>1, <4>3, <4>2, <2>3, <1>4
      <4>4. CASE g = c
        BY <4>1, <4>2, <4>4, <2>2, <2>3, <3>1, <1>0, <1>4
      <4>5. CASE g # c /\ fs[g].holder = c
        <5>1. hs[g].at # "done" /\ g \in all
          BY <4>5, <2>2, <2>4, <1>4
        <5>2. c # None
          BY Kinds
        <5>3. QED
          BY <4>1, <4>2, <4>5, <5>1, <5>2, <2>3
      <4>6. QED
        BY <4>3, <4>4, <4>5, <2>2
    <3>3. QED
      BY <3>1, <3>2, <2>5, <1>2, <1>6 DEF Resolved
  <2>9. QED
    BY <2>7, <2>8 DEF gs
<1>7. QED
  BY <1>5, <1>6

-----------------------------------------------------------------------------
(* The end of a frame                                                        *)

(* The frame that has control is about to end; rt is already what it leaves. *)
AtEnd(fs, st, rt, rs, ws, ts, sf) ==
  LET f == Head(st)
  IN /\ FrameInv(fs) /\ AwaitedLive(fs) /\ StackInv(fs, st, rs) /\ OwnerInv(fs, ts, sf)
     /\ st \in Seq(Frame) /\ st # <<>> /\ rs \in BOOLEAN
     /\ ts \in Seq(Task) /\ sf \in SUBSET Task
     /\ fs[f].at \in {"running", "unwinding", "won", "notifying"}
     /\ f = AnyFrame => \A g \in Frame : fs[g].holder = AnyFrame =>
                          g \in Task /\ fs[AnyFrame].at # "running"
     /\ \A w \in Wrap \ {f} : fs[w].at \in {"won", "calling"} => rt = None
     /\ \A w \in Wrap : fs[w].at = "unborn" => ~rs
     /\ rs => \A w \in Wrap \ {f} : fs[w].at \notin {"created", "running", "calling"}
     /\ fs[AnyFrame].at = "anyof" <=> rs /\ rt = None
     /\ ws # {} => rt # None

(* What is left once f has ended and nobody goes on. *)
Over(fs, gs, f) ==
  /\ gs[f].at \in {"done", "destroyed"}
  /\ \A g \in Frame \ {f} :
       /\ gs[g].failed = fs[g].failed
       /\ \/ gs[g].at = fs[g].at
          \/ fs[g].at = "done" /\ gs[g].at = "destroyed" /\ fs[g].holder # None
  /\ \A g \in Frame :
       /\ gs[g].root = fs[g].root /\ gs[g].parent = fs[g].parent
       /\ \/ gs[g].holder = fs[g].holder /\ gs[g].canceled = fs[g].canceled
          \/ /\ fs[g].holder # None /\ gs[g].holder = None
             /\ gs[g].canceled \/ gs[g].at = "destroyed"

(* The innermost frame is over and nobody is resumed by it. *)
LEMMA OverWhole ==
  ASSUME NEW fs, NEW st, NEW rt, NEW rs, NEW ws, NEW ts, NEW sf,
         AtEnd(fs, st, rt, rs, ws, ts, sf), NEW gs, FrameInv(gs), Over(fs, gs, Head(st)),
         Head(st) \in ToSet(ts) => gs[Head(st)].at # "destroyed",
         fs[Head(st)].holder # None /\ gs[Head(st)].at = "done" =>
           fs[fs[Head(st)].holder].at # "awaiting"
  PROVE  Whole(gs, Tail(st), rt, rs, ws, ts, sf)
<1> DEFINE f == Head(st)
<1>1. /\ FrameInv(fs) /\ AwaitedLive(fs) /\ StackInv(fs, st, rs) /\ OwnerInv(fs, ts, sf)
      /\ st \in Seq(Frame) /\ st # <<>> /\ rs \in BOOLEAN
      /\ fs[f].at \in {"running", "unwinding", "won", "notifying"}
      /\ f \in Frame /\ Tail(st) \in Seq(Frame)
  BY TailFacts DEF AtEnd
<1>0. ts \in Seq(Task) /\ sf \in SUBSET Task
  BY DEF AtEnd
<1>2. /\ gs[f].at \in {"done", "destroyed"}
      /\ \A g \in Frame \ {f} :
           /\ gs[g].failed = fs[g].failed
           /\ \/ gs[g].at = fs[g].at
              \/ fs[g].at = "done" /\ gs[g].at = "destroyed" /\ fs[g].holder # None
      /\ \A g \in Frame :
           /\ gs[g].root = fs[g].root /\ gs[g].parent = fs[g].parent
           /\ \/ gs[g].holder = fs[g].holder /\ gs[g].canceled = fs[g].canceled
              \/ /\ fs[g].holder # None /\ gs[g].holder = None
                 /\ gs[g].canceled \/ gs[g].at = "destroyed"
  BY DEF Over
<1>3. /\ \A w \in Wrap \ {f} : fs[w].at \in {"won", "calling"} => rt = None
      /\ \A w \in Wrap : fs[w].at = "unborn" => ~rs
      /\ rs => \A w \in Wrap \ {f} : fs[w].at \notin {"created", "running", "calling"}
      /\ fs[AnyFrame].at = "anyof" <=> rs /\ rt = None
      /\ ws # {} => rt # None
  BY DEF AtEnd
<1>4. f \in ToSet(ts) => gs[f].at # "destroyed"
  OBVIOUS
<1>5. fs[f].holder # None /\ gs[f].at = "done" => fs[fs[f].holder].at # "awaiting"
  OBVIOUS
<1>6. StackInv(gs, Tail(st), rs)
  <2>1. SameBelow(fs, gs, st)
    <3>1. ASSUME NEW g \in Frame \ {f}
          PROVE  /\ gs[g].at \in Execution <=> fs[g].at \in Execution
                 /\ fs[g].at \in Execution => gs[g].at = fs[g].at
      BY <1>2 DEF Execution
    <3>2. QED
      BY <3>1, <1>2 DEF SameBelow
  <2>2. gs[f].at \notin Execution
    BY <1>2 DEF Execution
  <2>3. QED
    BY <2>1, <2>2, <1>1, StackPopped
<1> HIDE DEF f
<1>7. ResultInv(gs, rt, rs, ws)
  <2>1. \A g \in Frame : gs[g].at \in {"done", "destroyed"} \/ gs[g].at = fs[g].at
    BY <1>2
  <2>2. \A g \in Frame \ {f} : gs[g].at \in {"unborn", "created", "running", "calling", "won"} =>
          gs[g].at = fs[g].at
    BY <1>2
  <2>3. gs[AnyFrame].at = "anyof" <=> fs[AnyFrame].at = "anyof"
    BY <1>1, <1>2, Kinds
  <2>4. \A w \in Wrap : w \in Frame
    BY Kinds
  <2>5. QED
    BY <2>1, <2>2, <2>3, <2>4, <1>2, <1>3 DEF ResultInv
<1>8. OwnerInv(gs, ts, sf)
  <2>1. ASSUME NEW t \in ToSet(ts)
        PROVE  /\ gs[t].holder = None /\ gs[t].root = None /\ ~gs[t].canceled
               /\ gs[t].at \notin {"unborn", "created", "destroyed"}
    <3>1. /\ fs[t].holder = None /\ fs[t].root = None /\ ~fs[t].canceled
          /\ fs[t].at \notin {"unborn", "created", "destroyed"}
      BY <1>1 DEF OwnerInv
    <3>2. t \in Frame
      BY <1>0, Kinds DEF ToSet
    <3>3. gs[t].holder = None /\ gs[t].root = None /\ ~gs[t].canceled
      BY <3>1, <3>2, <1>2
    <3>4. CASE t = f
      BY <3>3, <3>4, <1>2, <1>4
    <3>5. CASE t # f
      BY <3>1, <3>2, <3>3, <3>5, <1>2
    <3>6. QED
      BY <3>4, <3>5
  <2>2. ASSUME NEW g \in Task \cup {AnyFrame},
               Live(gs, g), gs[g].holder = None, ~gs[g].canceled
        PROVE  g \in ToSet(ts)
    <3>1. g \in Frame /\ g # f /\ gs[g].at \notin {"done", "destroyed"}
      BY <2>2, <1>2, Kinds DEF Live
    <3>2. Live(fs, g) /\ fs[g].holder = None /\ ~fs[g].canceled
      BY <2>2, <3>1, <1>2 DEF Live
    <3>3. QED
      BY <3>2, <1>1 DEF OwnerInv
  <2>3. ASSUME NEW t \in sf
        PROVE  gs[t].at \in {"done", "destroyed"} /\ ~gs[t].failed
    <3>1. fs[t].at \in {"done", "destroyed"} /\ ~fs[t].failed
      BY <1>1 DEF OwnerInv
    <3>2. t \in Frame /\ t # f
      BY <3>1, <1>0, <1>1, Kinds
    <3>3. QED
      BY <3>1, <3>2, <1>2
  <2>4. QED
    BY <2>1, <2>2, <2>3 DEF OwnerInv
<1>9. AwaitedLive(gs)
  <2>1. SUFFICES ASSUME NEW c \in Frame, gs[c].holder # None, gs[c].at = "done"
                 PROVE  gs[gs[c].holder].at # "awaiting"
    BY DEF AwaitedLive
  <2>2. gs[c].holder = fs[c].holder /\ fs[c].holder \in Frame
    BY <2>1, <1>1, <1>2 DEF FrameInv, Promise
  <2>3. fs[fs[c].holder].at # "awaiting"
    <3>1. CASE c = f
      BY <3>1, <2>1, <2>2, <1>5
    <3>2. CASE c # f
      BY <3>2, <2>1, <2>2, <1>1, <1>2 DEF AwaitedLive
    <3>3. QED
      BY <3>1, <3>2
  <2>4. gs[fs[c].holder].at # "awaiting"
    BY <2>2, <2>3, <1>2
  <2>5. QED
    BY <2>2, <2>4
<1>10. QED
  BY <1>1, <1>6, <1>7, <1>8, <1>9 DEF Whole

(* An abandoned frame destroys itself in final_suspend. *)
LEMMA SelfDestroyedWhole ==
  ASSUME NEW fs, NEW st, NEW rt, NEW rs, NEW ws, NEW ts, NEW sf,
         AtEnd(fs, st, rt, rs, ws, ts, sf), fs[Head(st)].canceled
  PROVE  /\ Whole(SelfDestroyed(fs, Head(st)), Tail(st), rt, rs, ws, ts, sf)
         /\ Over(fs, SelfDestroyed(fs, Head(st)), Head(st))
<1> DEFINE f  == Head(st)
           h  == Held(fs, f)
           hs == Without(fs, h)
           gs == [hs EXCEPT ![f].at = "destroyed"]
<1>1. /\ FrameInv(fs) /\ f \in Frame /\ fs \in [Frame -> Promise] /\ OwnerInv(fs, ts, sf)
      /\ fs[f].at \in {"running", "unwinding", "won", "notifying"} /\ fs[f].canceled
      /\ f = AnyFrame => \A g \in Frame : fs[g].holder = AnyFrame =>
                           g \in Task /\ fs[AnyFrame].at # "running"
      /\ fs[f].holder = None
  BY TailFacts DEF AtEnd, FrameInv, FlagInv
<1> HIDE DEF f
<1>2. ASSUME NEW g \in h
      PROVE  /\ g \in Frame /\ fs[g].holder = f /\ g \in Task /\ g # f
             /\ fs[g].at \in {"done", "created"} /\ f \notin Task
             /\ f = AnyFrame => fs[AnyFrame].at # "running"
             /\ f \in Wrap => fs[f].at \notin {"created", "running"}
  <2>1. g \in Frame /\ fs[g].holder = f
    BY DEF Held
  <2>2. f \notin Task
    BY <2>1, <1>1 DEF FrameInv, HolderInv
  <2>3. CASE f \in Wrap
    <3>1. fs[f].at # "running"
      BY <2>3, <1>1 DEF FrameInv, WrapInv
    <3>2. g \in Task /\ fs[g].at \in {"done", "created"}
      BY <2>1, <2>3, <1>1 DEF FrameInv, HolderInv
    <3>3. QED
      BY <2>1, <2>2, <2>3, <3>1, <3>2, <1>1, Kinds
  <2>4. CASE f = AnyFrame
    <3>1. g \in Task /\ fs[AnyFrame].at # "running"
      BY <2>1, <2>4, <1>1
    <3>2. fs[g].at = "created"
      BY <2>1, <2>4, <3>1, Kinds DEF FrameInv, HolderInv, AtEnd
    <3>3. QED
      BY <2>1, <2>2, <2>4, <3>1, <3>2, Kinds
  <2>5. QED
    BY <2>2, <2>3, <2>4, <1>1, Kinds
<1>3. SelfDestroyed(fs, f) = gs
  <2>1. {c \in Frame : fs[c].holder \in h \cap At(fs, "done")} = {}
    <3>1. SUFFICES ASSUME NEW c \in Frame, fs[c].holder \in h, fs[fs[c].holder].at = "done"
                   PROVE  FALSE
      BY DEF At
    <3>2. fs[c].holder \in Task
      BY <3>1, <1>2
    <3>3. QED
      BY <3>1, <3>2, <1>1 DEF FrameInv, HolderInv
  <2>2. Dropped(fs, h) = Without(fs, h \cup {c \in Frame : fs[c].holder \in h \cap At(fs, "done")})
    BY <1>1, DroppedWithout
  <2>3. Dropped(fs, h) = hs
    BY <2>1, <2>2
  <2>4. QED
    BY <2>3 DEF SelfDestroyed
<1>4. FrameInv(hs)
  <2>1. \A g \in h : Droppable(fs, g)
    <3>1. SUFFICES ASSUME NEW g \in h
                   PROVE  Droppable(fs, g)
      OBVIOUS
    <3>2. /\ g \in Task /\ fs[g].holder = f /\ f \notin Task
          /\ fs[g].at \in {"done", "created"} /\ g \notin Wrap
          /\ f = AnyFrame => fs[AnyFrame].at # "running"
          /\ f \in Wrap => fs[f].at \notin {"created", "running"}
      BY <1>2, Kinds
    <3>3. QED
      BY <3>2, <1>1, Kinds DEF Droppable
  <2>2. \A c \in Frame : fs[c].holder \in h /\ fs[fs[c].holder].at = "done" => c \in h
    <3>1. \A c \in Frame : fs[c].holder \in h => fs[c].holder \in Task
      BY <1>2
    <3>2. QED
      BY <3>1 DEF FrameInv, HolderInv, AtEnd
  <2>3. h \in SUBSET Frame
    BY DEF Held
  <2>4. QED
    BY <2>1, <2>2, <2>3, <1>1, DroppedInv
<1>5. /\ hs \in [Frame -> Promise]
      /\ \A g \in Frame :
           /\ hs[g].at = IF g \in h /\ fs[g].at = "done" THEN "destroyed" ELSE fs[g].at
           /\ hs[g].canceled <=> (g \in h /\ fs[g].at # "done") \/ fs[g].canceled
           /\ hs[g].holder = IF g \in h THEN None ELSE fs[g].holder
           /\ hs[g].root = fs[g].root
           /\ hs[g].parent = fs[g].parent
           /\ hs[g].failed = fs[g].failed
  BY <1>1, WithoutFields
<1>6. f \notin h /\ \A g \in Frame : hs[g].holder # f
  <2>1. f \notin h
    BY <1>2
  <2>2. \A g \in Frame : g \notin h => fs[g].holder # f
    BY DEF Held
  <2>3. QED
    BY <2>1, <2>2, <1>1, <1>5, Kinds
<1> HIDE DEF hs
<1>7. FrameInv(gs)
  <2>1. hs[f].at \in {"running", "unwinding", "won", "notifying"} /\ hs[f].canceled
    BY <1>1, <1>5, <1>6
  <2>2. QED
    BY <2>1, <1>1, <1>4, <1>6, DestroyedInv
<1>8. /\ gs[f].at = "destroyed"
      /\ \A g \in Frame : g # f => gs[g].at = hs[g].at /\ gs[g].failed = hs[g].failed
      /\ \A g \in Frame : /\ gs[g].root = hs[g].root /\ gs[g].parent = hs[g].parent
                          /\ gs[g].holder = hs[g].holder /\ gs[g].canceled = hs[g].canceled
  BY <1>1, <1>5 DEF Promise
<1> HIDE DEF gs
<1>9. Over(fs, gs, f)
  <2>1. ASSUME NEW g \in Frame \ {f}
        PROVE  /\ gs[g].failed = fs[g].failed
               /\ \/ gs[g].at = fs[g].at
                  \/ fs[g].at = "done" /\ gs[g].at = "destroyed" /\ fs[g].holder # None
    <3>1. g \in h => fs[g].holder # None
      BY <1>1, <1>2, Kinds
    <3>2. QED
      BY <3>1, <1>5, <1>8
  <2>2. ASSUME NEW g \in Frame
        PROVE  /\ gs[g].root = fs[g].root /\ gs[g].parent = fs[g].parent
               /\ \/ gs[g].holder = fs[g].holder /\ gs[g].canceled = fs[g].canceled
                  \/ /\ fs[g].holder # None /\ gs[g].holder = None
                     /\ gs[g].canceled \/ gs[g].at = "destroyed"
    <3>1. gs[g].root = fs[g].root /\ gs[g].parent = fs[g].parent
      BY <1>5, <1>8
    <3>2. CASE g \in h
      <4>1. fs[g].holder # None /\ gs[g].holder = None /\ g # f
        BY <3>2, <1>1, <1>2, <1>5, <1>8, Kinds
      <4>2. gs[g].canceled \/ gs[g].at = "destroyed"
        BY <3>2, <4>1, <1>5, <1>8
      <4>3. QED
        BY <3>1, <4>1, <4>2
    <3>3. CASE g \notin h
      <4>1. hs[g].canceled \in BOOLEAN /\ fs[g].canceled \in BOOLEAN
        BY <1>1, <1>5 DEF Promise
      <4>2. QED
        BY <3>1, <3>3, <4>1, <1>5, <1>8
    <3>4. QED
      BY <3>2, <3>3
  <2>3. QED
    BY <2>1, <2>2, <1>8 DEF Over
<1>10. f \notin ToSet(ts)
  BY <1>1 DEF OwnerInv
<1>11. Whole(gs, Tail(st), rt, rs, ws, ts, sf)
  BY <1>1, <1>7, <1>9, <1>10, OverWhole DEF f
<1>12. QED
  BY <1>3, <1>9, <1>11 DEF f

(* A frame that is held keeps its result in final_suspend. *)
LEMMA DoneWhole ==
  ASSUME NEW fs, NEW st, NEW rt, NEW rs, NEW ws, NEW ts, NEW sf,
         AtEnd(fs, st, rt, rs, ws, ts, sf), ~fs[Head(st)].canceled,
         NEW failed \in BOOLEAN
  PROVE  LET gs == [fs EXCEPT ![Head(st)].at = "done", ![Head(st)].failed = failed]
         IN  /\ FrameInv(gs) /\ Over(fs, gs, Head(st)) /\ gs[Head(st)].at = "done"
             /\ fs[Head(st)].parent = None => Whole(gs, Tail(st), rt, rs, ws, ts, sf)
<1> DEFINE f  == Head(st)
           gs == [fs EXCEPT ![f].at = "done", ![f].failed = failed]
<1>1. /\ FrameInv(fs) /\ f \in Frame /\ fs \in [Frame -> Promise]
      /\ fs[f].at \in {"running", "unwinding", "won", "notifying"} /\ ~fs[f].canceled
      /\ f = AnyFrame => \A g \in Frame : fs[g].holder = AnyFrame => g \in Task
  BY TailFacts DEF AtEnd, FrameInv
<1> HIDE DEF f
<1>2. FrameInv(gs)
  BY <1>1, DoneInv, Kinds
<1>3. /\ gs[f].at = "done"
      /\ \A g \in Frame : g # f => gs[g] = fs[g]
      /\ \A g \in Frame : /\ gs[g].root = fs[g].root /\ gs[g].parent = fs[g].parent
                          /\ gs[g].holder = fs[g].holder /\ gs[g].canceled = fs[g].canceled
  BY <1>1 DEF Promise
<1> HIDE DEF gs
<1>4. Over(fs, gs, f)
  BY <1>3 DEF Over
<1>5. ASSUME fs[f].parent = None
      PROVE  Whole(gs, Tail(st), rt, rs, ws, ts, sf)
  <2>1. ASSUME fs[f].holder # None
        PROVE  fs[fs[f].holder].at # "awaiting"
    <3>1. CASE f \in Wrap
      <4>1. fs[f].holder = AnyFrame
        BY <3>1, <1>1 DEF FrameInv, WrapInv
      <4>2. QED
        BY <4>1, <1>1 DEF FrameInv, KindInv
    <3>2. CASE f \notin Wrap
      <4>1. Live(fs, f)
        BY <1>1 DEF Live
      <4>2. fs[f].root # None
        BY <3>2, <4>1, <2>1, <1>1 DEF FrameInv, AwaitedInv
      <4>3. fs[fs[f].holder].at = "awaiting" => fs[f].parent = fs[f].holder
        BY <4>1, <4>2, <1>1, HolderAwaits
      <4>4. QED
        BY <4>3, <2>1, <1>5
    <3>3. QED
      BY <3>1, <3>2
  <2>2. QED
    BY <2>1, <1>2, <1>3, <1>4, OverWhole DEF f
<1>6. QED
  BY <1>2, <1>3, <1>4, <1>5 DEF f, gs

(***************************************************************************)
(* What may become of a frame: a canceled one gets past no await and is not  *)
(* begun; one that is done goes with its holder, or if it has not failed.   *)
(***************************************************************************)
Obeys(fs, gs, f) ==
  \/ gs[f].at = fs[f].at
  \/ fs[f].at \in Execution \cup {"created"}
  \/ gs[f].at \notin {"running", "won"} /\ (fs[f].at = "done" => fs[f].holder # None)
  \/ fs[f].at = "done" /\ ~fs[f].failed
  \/ fs[f].at \in {"leaf", "awaiting", "anyof"} /\ ~Canceled(fs, f)
  \/ fs[f].at = "unborn" /\ ~Canceled(gs, f)

(* A frame that ends obeys its flag, and so does every frame it frees. *)
LEMMA OverObeys ==
  ASSUME NEW fs, NEW gs, NEW f \in Frame, fs[f].at \in Execution, Over(fs, gs, f)
  PROVE  \A g \in Frame : Obeys(fs, gs, g)
<1>1. ASSUME NEW g \in Frame \ {f}
      PROVE  Obeys(fs, gs, g)
  BY DEF Over, Obeys
<1>2. Obeys(fs, gs, f)
  BY DEF Obeys
<1>3. QED
  BY <1>1, <1>2

(* final_suspend resumes the parent in the place of the frame. *)
LEMMA ResumedWhole ==
  ASSUME NEW fs, NEW st, NEW rt, NEW rs, NEW ws, NEW ts, NEW sf,
         AtEnd(fs, st, rt, rs, ws, ts, sf), ~fs[Head(st)].canceled,
         NEW failed \in BOOLEAN, fs[Head(st)].parent # None
  PROVE  LET f    == Head(st)
             p    == fs[f].parent
             done == [fs EXCEPT ![f].at = "done", ![f].failed = failed]
         IN  /\ Whole(Consumed(done, p, f), <<p>> \o Tail(st), rt, rs, ws, ts, sf)
             /\ Resolved(done, Consumed(done, p, f), p, f)
             /\ \A g \in Frame : Obeys(fs, Consumed(done, p, f), g)
<1> DEFINE f    == Head(st)
           p    == fs[f].parent
           done == [fs EXCEPT ![f].at = "done", ![f].failed = failed]
           gs   == Consumed(done, p, f)
           tl   == Tail(st)
<1>1. /\ FrameInv(fs) /\ AwaitedLive(fs) /\ StackInv(fs, st, rs) /\ OwnerInv(fs, ts, sf)
      /\ f \in Frame /\ fs \in [Frame -> Promise] /\ rs \in BOOLEAN
      /\ fs[f].at \in {"running", "unwinding", "won", "notifying"}
      /\ tl \in Seq(Frame) /\ st \in Seq(Frame) /\ st # <<>>
      /\ ts \in Seq(Task) /\ sf \in SUBSET Task /\ fs[f].parent # None
      /\ f = st[1] /\ 1 \in DOMAIN st /\ Len(st) \in Nat /\ DOMAIN st = 1 .. Len(st)
      /\ Len(tl) = Len(st) - 1
  BY TailFacts DEF AtEnd, FrameInv
<1>2. FrameInv(done) /\ Over(fs, done, f) /\ done[f].at = "done"
  BY DoneWhole
<1>3. /\ p \in Task \cup Wrap /\ p \in Frame /\ fs[p].at = "awaiting" /\ fs[f].holder = p
      /\ f \notin Wrap /\ p # f
  <2>1. Live(fs, f)
    BY <1>1 DEF Live
  <2>2. /\ p \in Task \cup Wrap /\ Awaits(fs, p, f) /\ f \notin Wrap
        /\ fs[p].at = "awaiting" /\ fs[f].holder = p
    BY <2>1, <1>1, ParentAwaits
  <2>3. QED
    BY <2>2, <1>1, Kinds
<1>4. /\ \A g \in Frame : g # f => done[g] = fs[g]
      /\ \A g \in Frame : /\ done[g].root = fs[g].root /\ done[g].parent = fs[g].parent
                          /\ done[g].holder = fs[g].holder /\ done[g].canceled = fs[g].canceled
  BY <1>1 DEF Promise
<1>5. StackInv(done, tl, rs) /\ \A i \in DOMAIN tl : InCall(done, tl[i], rs)
  <2>1. SameBelow(fs, done, st)
    BY <1>4 DEF SameBelow
  <2>2. done[f].at \notin Execution
    BY <1>2 DEF Execution
  <2>3. st \in Seq(Frame) /\ st # <<>> /\ rs \in BOOLEAN /\ StackInv(fs, st, rs)
    BY <1>1
  <2> HIDE DEF done
  <2>4. QED
    BY <2>1, <2>2, <2>3, StackPopped DEF f, tl
<1> HIDE DEF done, tl, f
<1>6. FrameInv(gs) /\ Resolved(done, gs, p, f)
  BY <1>1, <1>2, <1>3, <1>4, ConsumedInv
<1> HIDE DEF gs
<1>7. /\ gs[p].at \in {"running", "unwinding", "won"}
      /\ gs[p].at = "won" => ~fs[p].canceled
      /\ p \in Wrap => gs[p].at # "running"
      /\ p \in Task => gs[p].at # "won"
      /\ gs[f].at \in {"done", "destroyed"}
      /\ \A g \in Frame \ {p, f} : gs[g].at = fs[g].at
      /\ \A g \in Frame :
           /\ gs[g].root = fs[g].root /\ gs[g].parent = fs[g].parent
           /\ g # f => gs[g].failed = fs[g].failed
           /\ \/ gs[g].holder = fs[g].holder /\ gs[g].canceled = fs[g].canceled
              \/ fs[g].holder # None /\ gs[g].holder = None /\ gs[g].canceled
              \/ /\ g = f /\ gs[g].holder = None /\ gs[g].canceled = fs[g].canceled
                 /\ gs[g].at = "destroyed"
  BY <1>3, <1>4, <1>6 DEF Resolved
<1>8. ~rs => tl = <<>> /\ Len(st) = 1
  BY <1>1 DEF StackInv, BottomInv
<1>9. StackInv(gs, <<p>> \o tl, rs)
  <2>1. done[p].at \notin Execution /\ gs[p].at \in Execution
    BY <1>3, <1>4, <1>7 DEF Execution
  <2>2. ASSUME NEW g \in Frame \ {p}
        PROVE  gs[g].at \in Execution <=> done[g].at \in Execution
    BY <2>2, <1>2, <1>4, <1>7 DEF Execution
  <2>3. ASSUME NEW g \in Frame, done[g].at \in Execution
        PROVE  /\ gs[g].parent = done[g].parent /\ gs[g].holder \in {done[g].holder, None}
               /\ gs[g].at = done[g].at /\ g # p /\ g # f /\ gs[g].holder # p
    <3>1. g # p /\ g # f
      BY <2>1, <2>3, <1>2 DEF Execution
    <3>2. fs[g].holder # p
      BY <3>1, <1>1, <1>3 DEF FrameInv, HolderInv
    <3>3. QED
      BY <3>1, <3>2, <1>3, <1>4, <1>7, Kinds
  <2>4. tl # <<>> => InCall(gs, Head(tl), rs)
    <3>1. SUFFICES ASSUME tl # <<>>
                   PROVE  InCall(gs, Head(tl), rs)
      OBVIOUS
    <3>2. Head(tl) = tl[1] /\ 1 \in DOMAIN tl /\ Head(tl) \in Frame
      BY <3>1, <1>1, TailFacts
    <3>3. InCall(done, Head(tl), rs) /\ Head(tl) \in ToSet(tl)
      BY <3>2, <1>5 DEF ToSet
    <3>4. done[Head(tl)].at \in Execution
      BY <3>2, <3>3, <1>5 DEF StackInv
    <3>5. QED
      BY <3>2, <3>3, <3>4, <2>3 DEF InCall
  <2>5. gs[p].holder # p
    <3>1. {p} \in SUBSET Frame /\ {p} # {}
      BY <1>3
    <3>2. QED
      BY <3>1, <1>6 DEF FrameInv, Forest
  <2>6. ~rs => \A g \in Frame : done[g].at \notin Execution
    <3>1. ~rs => ToSet(tl) = {}
      BY <1>8 DEF ToSet
    <3>2. QED
      BY <3>1, <1>5 DEF StackInv
  <2>7. p # AnyFrame /\ \A w \in Wrap : w \in Frame
    BY <1>3, Kinds
  <2>8. MayPush(done, gs, tl, rs, p)
    BY <2>1, <2>2, <2>3, <2>4, <2>5, <2>6, <2>7, <1>1, <1>3, <1>8 DEF MayPush
  <2>9. QED
    BY <2>8, <1>1, <1>3, <1>5, StackPushed
<1>10. ResultInv(gs, rt, rs, ws)
  <2>1. /\ \A w \in Wrap \ {f} : fs[w].at \in {"won", "calling"} => rt = None
        /\ \A w \in Wrap : fs[w].at = "unborn" => ~rs
        /\ rs => \A w \in Wrap \ {f} : fs[w].at \notin {"created", "running", "calling"}
        /\ fs[AnyFrame].at = "anyof" <=> rs /\ rt = None
        /\ ws # {} => rt # None
    BY DEF AtEnd, f
  <2>2. ASSUME p \in Wrap, gs[p].at = "won", rt # None
        PROVE  FALSE
    <3>1. fs[p].holder = AnyFrame
      BY <2>2, <1>1, <1>3, <1>7 DEF FrameInv, WrapInv
    <3>2. fs[AnyFrame].at \in {"running", "unwinding"}
      <4>1. fs[AnyFrame].at \in {"running", "anyof", "unwinding"}
        BY <3>1, <2>2, <1>1, <1>3, Kinds DEF FrameInv, HolderInv
      <4>2. QED
        BY <4>1, <2>1, <2>2
    <3>3. AnyFrame \in ToSet(st)
      BY <3>2, <1>1, Kinds DEF StackInv, Execution
    <3>4. PICK i \in DOMAIN st : st[i] = AnyFrame
      BY <3>3 DEF ToSet
    <3>5. f # AnyFrame
      BY <2>2, <1>1, <1>3, Kinds DEF FrameInv, HolderInv
    <3>6. i > 1
      BY <3>4, <3>5, <1>1
    <3>7. ~rs
      BY <3>2, <3>4, <3>6, <1>1 DEF StackInv, InCall
    <3>8. Len(st) = 1 /\ i \in 1 .. Len(st)
      BY <3>4, <3>7, <1>1, <1>8
    <3>9. QED
      BY <3>6, <3>8
  <2>3. \A w \in Wrap : w # p => gs[w].at = fs[w].at /\ w # f /\ w \in Frame
    BY <1>3, <1>7, Kinds
  <2>4. gs[AnyFrame].at = "anyof" <=> fs[AnyFrame].at = "anyof"
    <3>1. AnyFrame # p /\ AnyFrame \in Frame
      BY <1>3, Kinds
    <3>2. QED
      BY <3>1, <1>1, <1>7
  <2>5. QED
    BY <2>1, <2>2, <2>3, <2>4, <1>7 DEF ResultInv
<1>11. OwnerInv(gs, ts, sf)
  <2>1. ASSUME NEW t \in ToSet(ts)
        PROVE  /\ gs[t].holder = None /\ gs[t].root = None /\ ~gs[t].canceled
               /\ gs[t].at \notin {"unborn", "created", "destroyed"}
    <3>1. /\ fs[t].holder = None /\ fs[t].root = None /\ ~fs[t].canceled
          /\ fs[t].at \notin {"unborn", "created", "destroyed"}
      BY <1>1 DEF OwnerInv
    <3>2. t \in Frame /\ t # f
      BY <3>1, <1>1, <1>3, Kinds DEF ToSet
    <3>3. QED
      BY <3>1, <3>2, <1>7
  <2>2. ASSUME NEW g \in Task \cup {AnyFrame},
               Live(gs, g), gs[g].holder = None, ~gs[g].canceled
        PROVE  g \in ToSet(ts)
    <3>1. g \in Frame /\ g # f
      BY <2>2, <1>7, Kinds DEF Live
    <3>2. Live(fs, g) /\ fs[g].holder = None /\ ~fs[g].canceled
      BY <2>2, <3>1, <1>3, <1>7 DEF Live
    <3>3. QED
      BY <3>2, <1>1 DEF OwnerInv
  <2>3. ASSUME NEW t \in sf
        PROVE  gs[t].at \in {"done", "destroyed"} /\ ~gs[t].failed
    <3>1. fs[t].at \in {"done", "destroyed"} /\ ~fs[t].failed
      BY <1>1 DEF OwnerInv
    <3>2. t \in Frame /\ t # f /\ t # p
      BY <3>1, <1>1, <1>3, Kinds
    <3>3. QED
      BY <3>1, <3>2, <1>7
  <2>4. QED
    BY <2>1, <2>2, <2>3 DEF OwnerInv
<1>12. AwaitedLive(gs)
  <2>1. SUFFICES ASSUME NEW c \in Frame, gs[c].holder # None, gs[c].at = "done"
                 PROVE  gs[gs[c].holder].at # "awaiting"
    BY DEF AwaitedLive
  <2>2. gs[c].holder = fs[c].holder /\ fs[c].holder \in Frame /\ c # p
    BY <2>1, <1>1, <1>7 DEF FrameInv, Promise
  <2>3. gs[p].at # "awaiting" /\ gs[f].at # "awaiting"
    BY <1>7
  <2>4. CASE c = f
    BY <2>2, <2>3, <2>4, <1>3
  <2>5. CASE c # f
    <3>1. fs[c].at = "done"
      BY <2>1, <2>2, <2>5, <1>7
    <3>2. fs[fs[c].holder].at # "awaiting"
      BY <3>1, <2>1, <2>2, <1>1 DEF AwaitedLive
    <3>3. QED
      BY <3>2, <2>2, <2>3, <1>7
  <2>6. QED
    BY <2>4, <2>5
<1>13. Whole(gs, <<p>> \o tl, rt, rs, ws, ts, sf)
  <2>1. <<p>> \o tl \in Seq(Frame)
    BY <1>1, <1>3, PushFacts
  <2>2. QED
    BY <2>1, <1>6, <1>9, <1>10, <1>11, <1>12 DEF Whole
<1>14. ASSUME NEW g \in Frame
       PROVE  Obeys(fs, gs, g)
  <2>1. Canceled(done, p) <=> Canceled(fs, p)
    BY <1>1, <1>3, <1>4 DEF Canceled, Promise
  <2>2. gs[p].at = "unwinding" \/ ~Canceled(fs, p)
    BY <2>1, <1>6 DEF Resolved
  <2>3. CASE g = p
    BY <2>2, <2>3, <1>3 DEF Obeys
  <2>4. CASE g = f
    BY <2>4, <1>1 DEF Obeys, Execution
  <2>5. CASE g \notin {p, f}
    BY <2>5, <1>7 DEF Obeys
  <2>6. QED
    BY <2>3, <2>4, <2>5
<1>15. QED
  BY <1>3, <1>6, <1>13, <1>14 DEF f, done, gs, tl

(* The three outcomes of final_suspend. *)
LEMMA FinalWhole ==
  ASSUME NEW fs, NEW rt, NEW rs, NEW ws, NEW ts, NEW sf,
         AtEnd(fs, stack, rt, rs, ws, ts, sf), NEW failed \in BOOLEAN,
         Final(fs, Head(stack), failed)
  PROVE  /\ Whole(frames', stack', rt, rs, ws, ts, sf)
         /\ \A g \in Frame : Obeys(fs, frames', g)
<1> DEFINE f    == Head(stack)
           p    == fs[f].parent
           done == [fs EXCEPT ![f].at = "done", ![f].failed = failed]
<1>0. f \in Frame /\ fs[f].at \in Execution
  BY TailFacts DEF AtEnd, Execution
<1>1. CASE fs[f].canceled
  <2>1. frames' = SelfDestroyed(fs, f) /\ stack' = Tail(stack)
    BY <1>1 DEF Final
  <2>2. /\ Whole(SelfDestroyed(fs, f), Tail(stack), rt, rs, ws, ts, sf)
        /\ Over(fs, SelfDestroyed(fs, f), f)
    BY <1>1, SelfDestroyedWhole
  <2> HIDE DEF f
  <2>3. QED
    BY <2>1, <2>2, <1>0, OverObeys
<1>2. CASE ~fs[f].canceled /\ p = None
  <2>1. frames' = done /\ stack' = Tail(stack)
    BY <1>2 DEF Final
  <2>2. Whole(done, Tail(stack), rt, rs, ws, ts, sf) /\ Over(fs, done, f)
    BY <1>2, DoneWhole
  <2> HIDE DEF done, f
  <2>3. QED
    BY <2>1, <2>2, <1>0, OverObeys
<1>3. CASE ~fs[f].canceled /\ p # None
  <2>1. frames' = Consumed(done, p, f) /\ stack' = <<p>> \o Tail(stack)
    BY <1>3 DEF Final
  <2>2. /\ Whole(Consumed(done, p, f), <<p>> \o Tail(stack), rt, rs, ws, ts, sf)
        /\ \A g \in Frame : Obeys(fs, Consumed(done, p, f), g)
    BY <1>3, ResumedWhole
  <2>3. QED
    BY <2>1, <2>2
<1>4. QED
  BY <1>1, <1>2, <1>3

-----------------------------------------------------------------------------
(* The steps                                                                 *)

Sound(fs, ts, sf) ==
  /\ FrameInv(fs) /\ AwaitedLive(fs) /\ OwnerInv(fs, ts, sf)
  /\ ts \in Seq(Task) /\ sf \in SUBSET Task

(* The parts of the invariant, for a state. *)
LEMMA Facts ==
  ASSUME IInv
  PROVE  /\ Sound(frames, tasks, surfaced)
         /\ frames \in [Frame -> Promise] /\ FrameInv(frames) /\ AwaitedLive(frames)
         /\ stack \in Seq(Frame) /\ StackInv(frames, stack, resumable)
         /\ ResultInv(frames, ret, resumable, winners) /\ OwnerInv(frames, tasks, surfaced)
         /\ tasks \in Seq(Task) /\ resumable \in BOOLEAN
         /\ surfaced \in SUBSET Task /\ winners \in SUBSET Wrap
BY DEF Sound, IInv, TypeOK, Whole

(* A step that leaves the owner alone keeps the invariant. *)
LEMMA WholeKept ==
  ASSUME IInv, UNCHANGED <<tasks, owner, surfaced>>, resumable' \in BOOLEAN,
         ret' \in Wrap \cup {None}, winners' \subseteq Wrap,
         Whole(frames', stack', ret', resumable', winners', tasks, surfaced)
  PROVE  IInv'
BY DEF IInv, TypeOK, Whole, FrameInv

(* No frame of the stack changes. *)
LEMMA StackSame ==
  ASSUME NEW st \in Seq(Frame), NEW fs, NEW gs, NEW rs \in BOOLEAN, StackInv(fs, st, rs),
         \A f \in Frame :
           /\ gs[f].at \in Execution <=> fs[f].at \in Execution
           /\ fs[f].at \in Execution => /\ gs[f].at = fs[f].at /\ gs[f].parent = fs[f].parent
                                        /\ gs[f].holder \in {fs[f].holder, None}
  PROVE  StackInv(gs, st, rs)
<1>1. CASE st = <<>>
  BY <1>1 DEF StackInv, BottomInv
<1>2. CASE st # <<>>
  <2>1. Head(st) \in Frame /\ Head(st) = st[1] /\ 1 \in DOMAIN st
    BY <1>2, TailFacts
  <2>2. fs[Head(st)].at \in Execution
    BY <2>1 DEF StackInv, ToSet
  <2>3. SameBelow(fs, gs, st)
    BY DEF SameBelow
  <2>4. QED
    BY <1>2, <2>1, <2>2, <2>3, StackKept
<1>3. QED
  BY <1>1, <1>2

(* AnyOf's result concerns the states of its own frames only. *)
LEMMA ResultKept ==
  ASSUME NEW fs, NEW gs, NEW rt, NEW rs, NEW ws, ResultInv(fs, rt, rs, ws),
         \A g \in Wrap \cup {AnyFrame} : gs[g].at = fs[g].at
  PROVE  ResultInv(gs, rt, rs, ws)
BY DEF ResultInv

(* One frame goes on, or stops. *)
OnlyMoved(fs, gs, f, at) ==
  /\ gs[f].at = at /\ \A g \in Frame : g # f => gs[g] = fs[g]
  /\ \A g \in Frame : /\ gs[g].canceled = fs[g].canceled /\ gs[g].root = fs[g].root
                      /\ gs[g].parent = fs[g].parent /\ gs[g].holder = fs[g].holder

(* A moved frame keeps what does not concern the stack. *)
LEMMA MovedFacts ==
  ASSUME NEW fs, NEW ts, NEW sf, Sound(fs, ts, sf), NEW f \in Frame, NEW at, MayMove(fs, f, at)
  PROVE  LET gs == [fs EXCEPT ![f].at = at]
         IN  Sound(gs, ts, sf) /\ OnlyMoved(fs, gs, f, at)
<1> USE DEF Sound
<1> DEFINE gs == [fs EXCEPT ![f].at = at]
<1>0. fs \in [Frame -> Promise]
  BY DEF FrameInv
<1>1. FrameInv(gs)
  BY MovedInv
<1>2. /\ gs[f].at = at /\ \A g \in Frame : g # f => gs[g] = fs[g]
      /\ \A g \in Frame : /\ gs[g].canceled = fs[g].canceled /\ gs[g].root = fs[g].root
                          /\ gs[g].parent = fs[g].parent /\ gs[g].holder = fs[g].holder
                          /\ gs[g].failed = fs[g].failed
  BY <1>0 DEF Promise
<1> HIDE DEF gs
<1>3. at \in {"leaf", "running", "starting", "anyof", "won", "notifying", "unwinding"}
  BY Kinds DEF MayMove
<1>4. \A g \in Frame : /\ Live(gs, g) <=> Live(fs, g)
                       /\ \A state \in {"done", "destroyed", "unborn", "created", "awaiting"} :
                            gs[g].at = state <=> fs[g].at = state
  BY <1>2, <1>3 DEF Live, MayMove
<1>5. AwaitedLive(gs)
  BY <1>0, <1>2, <1>4 DEF AwaitedLive, Promise
<1>6. OwnerInv(gs, ts, sf)
  <2>1. ToSet(ts) \subseteq Frame /\ sf \subseteq Frame /\ Task \cup {AnyFrame} \subseteq Frame
    BY Kinds DEF ToSet
  <2>2. \A t \in ToSet(ts) : /\ gs[t].holder = None /\ gs[t].root = None /\ ~gs[t].canceled
                             /\ gs[t].at \notin {"unborn", "created", "destroyed"}
    BY <2>1, <1>2, <1>4 DEF OwnerInv
  <2>3. \A g \in Task \cup {AnyFrame} :
          Live(gs, g) /\ gs[g].holder = None /\ ~gs[g].canceled => g \in ToSet(ts)
    BY <2>1, <1>2, <1>4 DEF OwnerInv
  <2>4. \A t \in sf : gs[t].at \in {"done", "destroyed"} /\ ~gs[t].failed
    <3>1. ASSUME NEW t \in sf
          PROVE  gs[t].at \in {"done", "destroyed"} /\ ~gs[t].failed
      <4>1. fs[t].at \in {"done", "destroyed"} /\ ~fs[t].failed /\ t \in Frame
        BY <2>1 DEF OwnerInv
      <4>2. QED
        BY <4>1, <1>2, <1>4
    <3>2. QED
      BY <3>1
  <2>5. QED
    BY <2>2, <2>3, <2>4 DEF OwnerInv
<1>7. QED
  BY <1>1, <1>2, <1>5, <1>6 DEF gs, OnlyMoved

(* Every frame obeys. *)
AllObey == \A g \in Frame : Obeys(frames, frames', g)

(* A task awaits something that is not a task. *)
LEMMA SuspendStep ==
  ASSUME IInv, NEW t \in Task, Suspend(t)
  PROVE  IInv' /\ AllObey
<1> DEFINE gs == [frames EXCEPT ![t].at = "leaf"]
<1>1. /\ stack # <<>> /\ Head(stack) = t /\ frames[t].at = "running" /\ t \in Frame
      /\ t \notin Wrap /\ t # AnyFrame /\ frames' = gs /\ stack' = Tail(stack)
      /\ UNCHANGED <<tasks, owner, ret, resumable, surfaced, winners>>
  BY Kinds DEF Suspend, Running, Top
<1>m. MayMove(frames, t, "leaf")
  BY <1>1 DEF MayMove
<1>s. Sound(gs, tasks, surfaced) /\ OnlyMoved(frames, gs, t, "leaf")
  BY <1>1, <1>m, Facts, MovedFacts
<1>2. /\ FrameInv(gs) /\ AwaitedLive(gs) /\ OwnerInv(gs, tasks, surfaced)
      /\ gs[t].at = "leaf" /\ \A g \in Frame : g # t => gs[g] = frames[g]
  BY <1>s DEF Sound, OnlyMoved
<1> HIDE DEF gs
<1>3. StackInv(gs, Tail(stack), resumable)
  <2>1. SameBelow(frames, gs, stack) /\ gs[t].at \notin Execution
    BY <1>1, <1>2 DEF SameBelow, Execution
  <2>2. QED
    BY <2>1, <1>1, Facts, StackPopped
<1>4. ResultInv(gs, ret, resumable, winners)
  BY <1>1, <1>2, Facts, ResultKept, Kinds
<1>5. Whole(gs, Tail(stack), ret, resumable, winners, tasks, surfaced)
  BY <1>1, <1>2, <1>3, <1>4, Facts, TailFacts DEF Whole
<1>6. AllObey
  BY <1>1, <1>2 DEF AllObey, Obeys, Execution
<1>7. QED
  BY <1>1, <1>5, <1>6, WholeKept DEF IInv, TypeOK

(* What a task awaited resumes it. *)
LEMMA ResumeLeafStep ==
  ASSUME IInv, NEW t \in Task, ResumeLeaf(t)
  PROVE  IInv' /\ AllObey
<1> DEFINE at == IF Canceled(frames, t) THEN "unwinding" ELSE "running"
           gs == [frames EXCEPT ![t].at = at]
<1>1. /\ stack = <<>> /\ frames[t].at = "leaf" /\ t \in Frame
      /\ t \notin Wrap /\ t # AnyFrame /\ frames' = gs /\ stack' = <<t>>
      /\ at \in {"running", "unwinding"} /\ (at = "running" => ~Canceled(frames, t))
      /\ UNCHANGED <<tasks, owner, ret, resumable, surfaced, winners>>
  BY Kinds DEF ResumeLeaf, Resumed
<1> HIDE DEF at
<1>m. MayMove(frames, t, at)
  BY <1>1 DEF MayMove
<1>s. Sound(gs, tasks, surfaced) /\ OnlyMoved(frames, gs, t, at)
  BY <1>1, <1>m, Facts, MovedFacts
<1>2. /\ FrameInv(gs) /\ AwaitedLive(gs) /\ OwnerInv(gs, tasks, surfaced)
      /\ gs[t].at = at /\ \A g \in Frame : g # t => gs[g] = frames[g]
  BY <1>s DEF Sound, OnlyMoved
<1> HIDE DEF gs
<1>3. StackInv(gs, <<t>> \o stack, resumable)
  <2>1. \A g \in Frame : frames[g].at \notin Execution
    BY <1>1, Facts DEF StackInv, ToSet
  <2>2. gs[t].at \in Execution
    BY <1>1, <1>2 DEF Execution
  <2>3. gs[t].holder # t
    <3>1. {t} \in SUBSET Frame /\ {t} # {}
      BY <1>1
    <3>2. QED
      BY <3>1, <1>2 DEF FrameInv, Forest
  <2>4. \A w \in Wrap : w \in Frame
    BY Kinds
  <2>5. stack \in Seq(Frame) /\ StackInv(frames, stack, resumable) /\ resumable \in BOOLEAN
    BY Facts
  <2>6. \A g \in Frame \ {t} : gs[g].at \in Execution <=> frames[g].at \in Execution
    BY <1>2
  <2>7. MayPush(frames, gs, stack, resumable, t)
    BY <2>1, <2>2, <2>3, <2>4, <2>6, <1>1 DEF MayPush
  <2>8. QED
    BY <2>5, <2>7, <1>1, StackPushed
<1>4. ResultInv(gs, ret, resumable, winners)
  BY <1>1, <1>2, Facts, ResultKept, Kinds
<1>5. <<t>> \o stack = <<t>> /\ <<t>> \in Seq(Frame)
  BY <1>1
<1>6. Whole(gs, <<t>>, ret, resumable, winners, tasks, surfaced)
  BY <1>2, <1>3, <1>4, <1>5 DEF Whole
<1>7. AllObey
  BY <1>1, <1>2 DEF AllObey, Obeys
<1>8. QED
  BY <1>1, <1>6, <1>7, WholeKept DEF IInv, TypeOK

(* A task goes on after it started a root task. *)
LEMMA NestedStartedStep ==
  ASSUME IInv, NEW t \in Task, NestedStarted(t)
  PROVE  IInv' /\ AllObey
<1> DEFINE at == IF Canceled(frames, t) THEN "unwinding" ELSE "running"
           gs == [frames EXCEPT ![t].at = at]
<1>1. /\ stack # <<>> /\ Head(stack) = t /\ frames[t].at = "starting" /\ t \in Frame
      /\ t \notin Wrap /\ t # AnyFrame /\ frames' = gs /\ stack' = stack
      /\ at \in {"running", "unwinding"}
      /\ UNCHANGED <<tasks, owner, ret, resumable, surfaced, winners>>
  BY Kinds DEF NestedStarted, Resumed, Top
<1> HIDE DEF at
<1>m. MayMove(frames, t, at)
  BY <1>1 DEF MayMove
<1>s. Sound(gs, tasks, surfaced) /\ OnlyMoved(frames, gs, t, at)
  BY <1>1, <1>m, Facts, MovedFacts
<1>2. /\ FrameInv(gs) /\ AwaitedLive(gs) /\ OwnerInv(gs, tasks, surfaced)
      /\ gs[t].at = at /\ \A g \in Frame : g # t => gs[g] = frames[g]
      /\ \A g \in Frame : gs[g].parent = frames[g].parent /\ gs[g].holder = frames[g].holder
  BY <1>s DEF Sound, OnlyMoved
<1> HIDE DEF gs
<1>3. StackInv(gs, stack, resumable)
  <2>1. SameBelow(frames, gs, stack) /\ gs[t].at \in Execution
    BY <1>1, <1>2 DEF SameBelow, Execution
  <2>2. QED
    BY <2>1, <1>1, <1>2, Facts, StackKept
<1>4. ResultInv(gs, ret, resumable, winners)
  BY <1>1, <1>2, Facts, ResultKept, Kinds
<1>5. Whole(gs, stack, ret, resumable, winners, tasks, surfaced)
  BY <1>2, <1>3, <1>4, Facts DEF Whole
<1>6. AllObey
  BY <1>1, <1>2 DEF AllObey, Obeys, Execution
<1>7. QED
  BY <1>1, <1>5, <1>6, WholeKept DEF IInv, TypeOK

(* What is left once handles have gone. *)
Gone(fs, gs, handles) ==
  \A g \in Frame :
    /\ gs[g].root = fs[g].root /\ gs[g].parent = fs[g].parent /\ gs[g].failed = fs[g].failed
    /\ \/ gs[g].at = fs[g].at
       \/ /\ fs[g].at = "done" /\ gs[g].at = "destroyed"
          /\ g \in handles \/ fs[g].holder # None
    /\ \/ gs[g].holder = fs[g].holder /\ gs[g].canceled = fs[g].canceled /\ g \notin handles
       \/ /\ g \in handles \/ fs[g].holder # None
          /\ gs[g].holder = None
          /\ gs[g].canceled \/ gs[g].at = "destroyed"
    /\ gs[g].holder \in {fs[g].holder, None}

(* Abandoned handles keep what does not concern the stack. *)
LEMMA DroppedSound ==
  ASSUME NEW fs, NEW ts, NEW sf, Sound(fs, ts, sf),
         NEW handles \in SUBSET Frame, \A h \in handles : Droppable(fs, h),
         NEW rest \in Seq(Task), ToSet(rest) = ToSet(ts) \ handles
  PROVE  Sound(Dropped(fs, handles), rest, sf) /\ Gone(fs, Dropped(fs, handles), handles)
<1> DEFINE all == handles \cup {c \in Frame : fs[c].holder \in handles \cap At(fs, "done")}
           gs  == Dropped(fs, handles)
<1>0. /\ FrameInv(fs) /\ AwaitedLive(fs) /\ OwnerInv(fs, ts, sf) /\ fs \in [Frame -> Promise]
      /\ ts \in Seq(Task) /\ sf \in SUBSET Task
  BY DEF Sound, FrameInv
<1>1. gs = Without(fs, all)
  BY <1>0, DroppedWithout
<1>2. ASSUME NEW g \in all, g \notin handles
      PROVE  /\ g \in Task /\ fs[g].at \in {"created", "done"} /\ fs[g].holder \in Wrap \cup {AnyFrame}
             /\ fs[fs[g].holder].at = "done"
  <2>1. g \in Frame /\ fs[g].holder \in Frame /\ fs[fs[g].holder].at = "done"
    BY <1>2 DEF At
  <2>2. fs[g].holder \notin Task
    BY <2>1 DEF FrameInv, HolderInv, Sound
  <2>3. QED
    <3>1. CASE fs[g].holder \in Wrap
      BY <2>1, <3>1, <1>0 DEF FrameInv, HolderInv
    <3>2. CASE fs[g].holder = AnyFrame
      BY <2>1, <3>2, <1>0, Kinds DEF FrameInv, HolderInv
    <3>3. QED
      BY <2>1, <2>2, <3>1, <3>2, Kinds
<1>3. \A h \in all : Droppable(fs, h)
  <2>1. SUFFICES ASSUME NEW g \in all, g \notin handles
                 PROVE  Droppable(fs, g)
    OBVIOUS
  <2>2. QED
    BY <1>2, <2>1, Kinds DEF Droppable
<1>4. \A c \in Frame : fs[c].holder \in all /\ fs[fs[c].holder].at = "done" => c \in all
  <2>1. SUFFICES ASSUME NEW c \in Frame, fs[c].holder \in all, fs[fs[c].holder].at = "done",
                        fs[c].holder \notin handles
                 PROVE  FALSE
    BY DEF At
  <2>2. fs[c].holder \in Task
    BY <1>2, <2>1
  <2>3. QED
    BY <2>1, <2>2, <1>0 DEF FrameInv, HolderInv
<1>5. all \in SUBSET Frame
  OBVIOUS
<1> HIDE DEF all
<1>6. FrameInv(gs)
  BY <1>0, <1>1, <1>3, <1>4, <1>5, DroppedInv
<1>7. /\ \A g \in Frame :
           /\ gs[g].at = IF g \in all /\ fs[g].at = "done" THEN "destroyed" ELSE fs[g].at
           /\ gs[g].canceled <=> (g \in all /\ fs[g].at # "done") \/ fs[g].canceled
           /\ gs[g].holder = IF g \in all THEN None ELSE fs[g].holder
           /\ gs[g].root = fs[g].root
           /\ gs[g].parent = fs[g].parent
           /\ gs[g].failed = fs[g].failed
      /\ gs \in [Frame -> Promise]
  BY <1>0, <1>1, WithoutFields
<1> HIDE DEF gs
<1>8. \A g \in all : g \in handles \/ fs[g].holder # None
  BY <1>2, Kinds
<1>9. Gone(fs, gs, handles)
  <2>1. SUFFICES ASSUME NEW g \in Frame
                 PROVE  /\ gs[g].root = fs[g].root /\ gs[g].parent = fs[g].parent
                        /\ gs[g].failed = fs[g].failed
                        /\ \/ gs[g].at = fs[g].at
                           \/ /\ fs[g].at = "done" /\ gs[g].at = "destroyed"
                              /\ g \in handles \/ fs[g].holder # None
                        /\ \/ /\ gs[g].holder = fs[g].holder /\ gs[g].canceled = fs[g].canceled
                              /\ g \notin handles
                           \/ /\ g \in handles \/ fs[g].holder # None
                              /\ gs[g].holder = None
                              /\ gs[g].canceled \/ gs[g].at = "destroyed"
                        /\ gs[g].holder \in {fs[g].holder, None}
    BY DEF Gone
  <2>2. CASE g \in all
    <3>1. gs[g].canceled \/ gs[g].at = "destroyed"
      BY <2>2, <1>7
    <3>2. QED
      BY <2>2, <3>1, <1>7, <1>8
  <2>3. CASE g \notin all
    <3>1. gs[g].canceled \in BOOLEAN /\ fs[g].canceled \in BOOLEAN
      BY <1>0, <1>7 DEF Promise
    <3>2. g \notin handles
      BY <2>3 DEF all
    <3>3. QED
      BY <2>3, <3>1, <3>2, <1>7
  <2>4. QED
    BY <2>2, <2>3
<1>10. OwnerInv(gs, rest, sf)
  <2>1. ToSet(rest) \subseteq Frame /\ sf \subseteq Frame /\ Task \cup {AnyFrame} \subseteq Frame
    BY <1>0, Kinds DEF ToSet
  <2>2. ASSUME NEW t \in ToSet(rest)
        PROVE  /\ gs[t].holder = None /\ gs[t].root = None /\ ~gs[t].canceled
               /\ gs[t].at \notin {"unborn", "created", "destroyed"}
    <3>1. /\ fs[t].holder = None /\ fs[t].root = None /\ ~fs[t].canceled
          /\ fs[t].at \notin {"unborn", "created", "destroyed"}
      BY <1>0 DEF OwnerInv
    <3>2. t \in Frame /\ t \notin all
      BY <2>1, <3>1, <1>8
    <3>3. QED
      BY <3>1, <3>2, <1>7
  <2>3. ASSUME NEW g \in Task \cup {AnyFrame}, Live(gs, g), gs[g].holder = None, ~gs[g].canceled
        PROVE  g \in ToSet(rest)
    <3>1. g \in Frame /\ g \notin all
      BY <2>1, <2>3, <1>7 DEF Live
    <3>2. Live(fs, g) /\ fs[g].holder = None /\ ~fs[g].canceled /\ g \notin handles
      BY <2>3, <3>1, <1>7 DEF Live, all
    <3>3. QED
      BY <3>2, <1>0 DEF OwnerInv
  <2>4. ASSUME NEW t \in sf
        PROVE  gs[t].at \in {"done", "destroyed"} /\ ~gs[t].failed
    <3>1. fs[t].at \in {"done", "destroyed"} /\ ~fs[t].failed /\ t \in Frame
      BY <2>1, <1>0 DEF OwnerInv
    <3>2. QED
      BY <3>1, <1>7
  <2>5. QED
    BY <2>2, <2>3, <2>4 DEF OwnerInv
<1>11. AwaitedLive(gs)
  <2>1. SUFFICES ASSUME NEW c \in Frame, gs[c].holder # None, gs[c].at = "done"
                 PROVE  gs[gs[c].holder].at # "awaiting"
    BY DEF AwaitedLive
  <2>2. gs[c].holder = fs[c].holder /\ fs[c].holder \in Frame /\ fs[c].at = "done"
    BY <2>1, <1>0, <1>7 DEF Promise
  <2>3. fs[fs[c].holder].at # "awaiting"
    BY <2>1, <2>2, <1>0 DEF AwaitedLive
  <2>4. QED
    BY <2>2, <2>3, <1>7
<1>12. QED
  BY <1>0, <1>6, <1>9, <1>10, <1>11 DEF gs, Sound

(* No abandoned handle is in a call. *)
LEMMA GoneStack ==
  ASSUME NEW st \in Seq(Frame), NEW fs, NEW gs, NEW rs \in BOOLEAN, StackInv(fs, st, rs),
         NEW handles, Gone(fs, gs, handles)
  PROVE  StackInv(gs, st, rs)
<1>1. ASSUME NEW f \in Frame
      PROVE  /\ gs[f].at \in Execution <=> fs[f].at \in Execution
             /\ fs[f].at \in Execution => /\ gs[f].at = fs[f].at /\ gs[f].parent = fs[f].parent
                                          /\ gs[f].holder \in {fs[f].holder, None}
  BY DEF Gone, Execution
<1>2. QED
  BY <1>1, StackSame

(* Abandoned handles are none of AnyOf's wrappers. *)
LEMMA GoneResult ==
  ASSUME NEW fs, NEW gs, NEW rt, NEW rs, NEW ws, ResultInv(fs, rt, rs, ws),
         NEW handles, Gone(fs, gs, handles)
  PROVE  ResultInv(gs, rt, rs, ws)
<1>1. \A g \in Frame : \A state \in {"won", "calling", "unborn", "created", "running", "anyof"} :
        gs[g].at = state <=> fs[g].at = state
  BY DEF Gone
<1>2. \A w \in Wrap \cup {AnyFrame} : w \in Frame
  BY Kinds
<1>3. QED
  BY <1>1, <1>2 DEF ResultInv

(* The frame whose flag is looked at obeys no flag but its own, and is live. *)
LEMMA RootLive ==
  ASSUME NEW fs, FrameInv(fs), NEW f \in Frame, Live(fs, f)
  PROVE  LET r == RootOf(fs, f)
         IN  r \in Frame /\ Live(fs, r) /\ fs[r].root = None
<1> DEFINE r     == RootOf(fs, f)
           below == {h \in Frame : Live(fs, h) /\ fs[h].root = r}
<1>0. fs \in [Frame -> Promise]
  BY DEF FrameInv
<1>1. CASE fs[f].root = None
  BY <1>1 DEF RootOf
<1>2. CASE fs[f].root # None
  <2>1. r = fs[f].root /\ r # None /\ f \in below
    BY <1>2 DEF RootOf
  <2>2. r \in Frame
    BY <2>1, <1>0 DEF Promise
  <2> HIDE DEF r
  <2>3. PICK h \in below : fs[h].holder \notin below
    <3>1. below \in SUBSET Frame /\ below # {}
      BY <2>1
    <3>2. QED
      BY <3>1 DEF FrameInv, Forest
  <2> DEFINE p == fs[h].holder
  <2>4. /\ p \in Task \cup Wrap /\ Awaits(fs, p, h)
        /\ fs[p].at \in {"calling", "awaiting"}
    BY <2>1, <2>3, HolderAwaits
  <2>5. Live(fs, p) /\ p \in Frame /\ RootOf(fs, p) = r
    BY <2>3, <2>4, Kinds DEF Live, Awaits
  <2>6. fs[p].root = None
    BY <2>1, <2>3, <2>5 DEF RootOf
  <2>7. p = r
    BY <2>5, <2>6 DEF RootOf
  <2>8. QED
    BY <2>2, <2>5, <2>6, <2>7 DEF r
<1>3. QED
  BY <1>1, <1>2

(* The frames that execute below the top are in a call; only the top has won. *)
LEMMA Executing ==
  ASSUME IInv, NEW f \in Frame, frames[f].at \in Execution, stack = <<>> \/ f # Head(stack)
  PROVE  /\ stack # <<>> /\ \E i \in DOMAIN stack : i > 1 /\ stack[i] = f
         /\ InCall(frames, f, resumable)
<1>1. f \in ToSet(stack)
  BY Facts DEF StackInv
<1>2. PICK i \in DOMAIN stack : stack[i] = f
  BY <1>1 DEF ToSet
<1>3. stack # <<>> /\ i > 1
  BY <1>2, Facts
<1>4. QED
  BY <1>2, <1>3, Facts DEF StackInv

(* A frame other than AnyOf ends with nothing left to hold. *)
LEMMA EndingPlain ==
  ASSUME IInv, NEW f \in Frame \ {AnyFrame}, Top(f),
         frames[f].at \in {"running", "unwinding", "won", "notifying"}
  PROVE  AtEnd(frames, stack, ret, resumable, winners, tasks, surfaced) /\ f = Head(stack)
BY Facts DEF AtEnd, Top, ResultInv

(* A frame other than AnyOf reaches its final_suspend. *)
LEMMA FinalStep ==
  ASSUME IInv, NEW f \in Frame \ {AnyFrame}, Top(f), NEW failed \in BOOLEAN,
         frames[f].at \in {"running", "unwinding", "won", "notifying"},
         Final(frames, f, failed),
         UNCHANGED <<tasks, owner, ret, resumable, surfaced, winners>>
  PROVE  IInv' /\ AllObey
<1>1. AtEnd(frames, stack, ret, resumable, winners, tasks, surfaced) /\ f = Head(stack)
  BY EndingPlain
<1>2. Whole(frames', stack', ret, resumable, winners, tasks, surfaced) /\ AllObey
  BY <1>1, FinalWhole DEF AllObey
<1>3. QED
  BY <1>2, WholeKept DEF IInv, TypeOK

(* A task returns. *)
LEMMA ReturnStep ==
  ASSUME IInv, NEW t \in Task, Return(t)
  PROVE  IInv' /\ AllObey
BY FinalStep, Kinds DEF Return, Running, Top

(* A task throws. *)
LEMMA ThrowStep ==
  ASSUME IInv, NEW t \in Task, Throw(t)
  PROVE  IInv' /\ AllObey
BY FinalStep, Kinds DEF Throw, Top

(* A wrapper that starts after the first result returns. *)
LEMMA ShortCircuitStep ==
  ASSUME IInv, NEW w \in Wrap, ShortCircuit(w)
  PROVE  IInv' /\ AllObey
BY FinalStep, Kinds DEF ShortCircuit, Running, Top

(* A wrapper returns. *)
LEMMA WrapperEndsStep ==
  ASSUME IInv, NEW w \in Wrap, WrapperEnds(w)
  PROVE  IInv' /\ AllObey
<1>1. w \in Frame \ {AnyFrame}
  BY Kinds
<1>2. CASE frames[w].at = "notifying" /\ Final(frames, w, FALSE)
  BY <1>1, <1>2, FinalStep DEF WrapperEnds
<1>3. CASE frames[w].at = "unwinding" /\ Final(frames, w, TRUE)
  BY <1>1, <1>3, FinalStep DEF WrapperEnds
<1>4. QED
  BY <1>2, <1>3 DEF WrapperEnds

(* The wrapper that stores its result is the only one that may. *)
LEMMA WonAlone ==
  ASSUME IInv, NEW w \in Wrap, Top(w), frames[w].at = "won"
  PROVE  /\ ret = None /\ winners = {}
         /\ \A v \in Wrap \ {w} : frames[v].at \notin {"won", "calling"}
         /\ ~frames[w].canceled /\ frames[w].holder = AnyFrame
<1>1. ret = None /\ winners = {}
  BY Facts DEF ResultInv
<1>2. ~frames[w].canceled /\ frames[w].holder = AnyFrame
  BY Facts DEF FrameInv, WrapInv
<1>3. ASSUME NEW v \in Wrap \ {w}, frames[v].at \in {"won", "calling"}
      PROVE  FALSE
  <2>1. stack # <<>> /\ Head(stack) = w /\ stack[1] = w /\ 1 \in DOMAIN stack /\ v \in Frame
    BY Facts, TailFacts, Kinds DEF Top
  <2>2. frames[v].at \in Execution
    BY <1>3 DEF Execution
  <2>3. InCall(frames, v, resumable) /\ \E i \in DOMAIN stack : i > 1 /\ stack[i] = v
    BY <2>1, <2>2, <1>3, Executing
  <2>4. frames[v].at = "calling"
    BY <2>3, <1>3, Kinds DEF InCall
  <2>5. ~resumable
    BY <2>4, Facts DEF ResultInv
  <2>6. BottomInv(frames, stack)
    BY <2>5, Facts DEF StackInv
  <2>7. PICK i \in DOMAIN stack : i > 1 /\ stack[i] = v
    BY <2>3
  <2>8. i = 1
    BY <2>1, <2>6, <2>7 DEF BottomInv
  <2>9. QED
    BY <2>7, <2>8
<1>4. QED
  BY <1>1, <1>2, <1>3

(* The first wrapper with a value writes the result and resumes AnyOf. *)
LEMMA EmplaceStep ==
  ASSUME IInv, NEW w \in Wrap, Emplace(w)
  PROVE  IInv' /\ AllObey
<1>1. /\ Top(w) /\ frames[w].at = "won" /\ ret' = w /\ winners' = winners \cup {w}
      /\ UNCHANGED <<tasks, owner, resumable, surfaced>> /\ w \in Frame /\ w # AnyFrame
      /\ w \notin Task /\ AnyFrame \in Frame /\ w # None /\ AnyFrame \notin Task
      /\ AnyFrame \notin Wrap
  BY Kinds DEF Emplace
<1>2. /\ ret = None /\ winners = {}
      /\ \A v \in Wrap \ {w} : frames[v].at \notin {"won", "calling"}
      /\ ~frames[w].canceled /\ frames[w].holder = AnyFrame
  BY <1>1, WonAlone
<1>3. CASE ~resumable /\ Final(frames, w, FALSE)
  <2>1. AtEnd(frames, stack, w, resumable, winners', tasks, surfaced) /\ w = Head(stack)
    BY <1>1, <1>2, <1>3, Facts DEF AtEnd, Top, ResultInv
  <2>2. Whole(frames', stack', ret', resumable', winners', tasks, surfaced) /\ AllObey
    BY <2>1, <1>1, <1>3, FinalWhole DEF AllObey
  <2>3. QED
    BY <2>2, <1>1, WholeKept DEF IInv, TypeOK
<1>4. CASE resumable /\ frames' = [Resumed(frames, AnyFrame) EXCEPT ![w].at = "notifying"]
                     /\ stack' = Push(AnyFrame)
  <2> DEFINE at == IF Canceled(frames, AnyFrame) THEN "unwinding" ELSE "running"
             hs == [frames EXCEPT ![AnyFrame].at = at]
             gs == [hs EXCEPT ![w].at = "notifying"]
  <2>1. frames' = gs /\ stack' = <<AnyFrame>> \o stack /\ at \in {"running", "unwinding"}
        /\ (at = "running" => ~Canceled(frames, AnyFrame))
    BY <1>4 DEF Resumed, Push
  <2>2. frames[AnyFrame].at = "anyof"
    BY <1>2, <1>4, Facts DEF ResultInv
  <2>3. \A v \in Wrap : frames[v].at \notin {"unborn", "created", "running", "calling"}
    BY <1>4, Facts DEF ResultInv
  <2> HIDE DEF at
  <2>4. Sound(hs, tasks, surfaced) /\ OnlyMoved(frames, hs, AnyFrame, at)
    <3>1. MayMove(frames, AnyFrame, at)
      BY <2>1, <2>2, <2>3, <1>1 DEF MayMove
    <3>2. QED
      BY <3>1, <1>1, Facts, MovedFacts
  <2> HIDE DEF hs
  <2>5. Sound(gs, tasks, surfaced) /\ OnlyMoved(hs, gs, w, "notifying")
    <3>1. MayMove(hs, w, "notifying")
      BY <2>4, <1>1 DEF MayMove, OnlyMoved
    <3>2. QED
      BY <3>1, <2>4, <1>1, MovedFacts
  <2> HIDE DEF gs
  <2>6. /\ gs[AnyFrame].at = at /\ gs[w].at = "notifying"
        /\ \A g \in Frame \ {AnyFrame, w} : gs[g] = frames[g]
        /\ \A g \in Frame : gs[g].parent = frames[g].parent /\ gs[g].holder = frames[g].holder
    BY <2>4, <2>5, <1>1 DEF OnlyMoved
  <2>7. FrameInv(gs) /\ AwaitedLive(gs) /\ OwnerInv(gs, tasks, surfaced)
    BY <2>5 DEF Sound
  <2>8. StackInv(gs, <<AnyFrame>> \o stack, resumable)
    <3>1. gs[AnyFrame].holder # AnyFrame
      <4>1. {AnyFrame} \in SUBSET Frame /\ {AnyFrame} # {}
        BY <1>1
      <4>2. QED
        BY <4>1, <2>7 DEF FrameInv, Forest
    <3>2. /\ frames[AnyFrame].at \notin Execution /\ gs[AnyFrame].at \in Execution
          /\ gs[w].at \in Execution /\ frames[w].at \in Execution
      BY <2>1, <2>2, <2>6, <1>1 DEF Execution
    <3>3. InCall(gs, w, resumable) /\ Head(stack) = w
      BY <2>6, <1>1 DEF InCall, Top
    <3>4. MayPush(frames, gs, stack, resumable, AnyFrame)
      BY <3>1, <3>2, <3>3, <2>6, <1>4 DEF MayPush
    <3>5. QED
      BY <3>4, <1>1, Facts, StackPushed
  <2>9. ResultInv(gs, ret', resumable, winners')
    <3>1. \A v \in Wrap : gs[v].at \notin {"unborn", "created", "running", "calling", "won"}
      BY <2>3, <2>6, <1>1, <1>2, Kinds
    <3>2. gs[AnyFrame].at # "anyof" /\ ret' # None
      BY <2>1, <2>6, <1>1
    <3>3. QED
      BY <3>1, <3>2 DEF ResultInv
  <2>10. <<AnyFrame>> \o stack \in Seq(Frame)
    BY <1>1, Facts, PushFacts
  <2>11. Whole(gs, <<AnyFrame>> \o stack, ret', resumable, winners', tasks, surfaced)
    BY <2>7, <2>8, <2>9, <2>10 DEF Whole
  <2>12. AllObey
    BY <2>1, <2>2, <2>6, <1>1 DEF AllObey, Obeys, Execution
  <2>13. QED
    BY <2>1, <2>11, <2>12, <1>1, WholeKept DEF IInv, TypeOK
<1>5. QED
  BY <1>3, <1>4 DEF Emplace

(***************************************************************************)
(* Handles go first.  Who had been canceled still is: the frame whose flag  *)
(* it looks at is not done.                                                 *)
(***************************************************************************)
LEMMA GoneObeys ==
  ASSUME NEW fs, NEW gs, NEW hs, NEW handles \in SUBSET Wrap, FrameInv(fs), FrameInv(gs),
         Gone(fs, gs, handles), \A h \in handles : fs[h].holder # None,
         NEW g \in Frame, Obeys(gs, hs, g)
  PROVE  Obeys(fs, hs, g)
<1>1. /\ gs[g].root = fs[g].root /\ gs[g].failed = fs[g].failed
      /\ \/ gs[g].at = fs[g].at
         \/ fs[g].at = "done" /\ gs[g].at = "destroyed" /\ fs[g].holder # None
      /\ gs[g].holder \in {fs[g].holder, None}
  BY DEF Gone
<1>2. ASSUME fs[g].at \in {"leaf", "awaiting", "anyof"}, Canceled(fs, g)
      PROVE  Canceled(gs, g)
  <2>1. Live(fs, g)
    BY <1>2 DEF Live
  <2>2. ASSUME NEW h \in Frame, Live(fs, h), fs[h].canceled
        PROVE  gs[h].canceled
    BY <2>2 DEF Gone, Live
  <2>3. fs[g].root # None => fs[g].root \in Frame /\ Live(fs, fs[g].root)
    BY <2>1, RootLive DEF RootOf
  <2>4. QED
    BY <1>1, <1>2, <2>1, <2>2, <2>3 DEF Canceled
<1>3. QED
  BY <1>1, <1>2 DEF Obeys, Execution

(* AnyOf returns, or unwinds, and drops its wrappers. *)
LEMMA EndAnyOfStep ==
  ASSUME IInv, EndAnyOf
  PROVE  IInv' /\ AllObey
<1> DEFINE h  == Held(frames, AnyFrame) \cap Wrap
           fs == Dropped(frames, h)
<1>1. /\ stack # <<>> /\ Head(stack) = AnyFrame /\ AnyFrame \in Frame
      /\ frames[AnyFrame].at \in {"running", "unwinding"}
      /\ frames[AnyFrame].at = "running" => AllStarted
      /\ \E failed \in BOOLEAN : Final(fs, AnyFrame, failed)
      /\ UNCHANGED <<tasks, owner, ret, resumable, surfaced, winners>>
  BY Kinds DEF EndAnyOf, Top
<1>2. ASSUME NEW w \in Wrap
      PROVE  /\ frames[w].at # "created"
             /\ frames[w].at \notin {"running", "won"}
             /\ frames[AnyFrame].at = "running" => frames[w].at # "unborn"
  <2>1. frames[w].at = "created" => frames[AnyFrame].at = "running"
    BY Facts DEF FrameInv, WrapInv
  <2>2. frames[AnyFrame].at = "running" => frames[w].at \notin {"unborn", "created"}
    BY <1>1, Kinds DEF AllStarted, At, Unborn
  <2>3. ASSUME frames[w].at \in {"running", "won"}
        PROVE  FALSE
    <3>1. frames[w].at \in Execution /\ w \in Frame /\ w # Head(stack)
      BY <2>3, <1>1, Kinds DEF Execution
    <3>2. InCall(frames, w, resumable)
      BY <3>1, Executing
    <3>3. QED
      BY <3>2, <2>3, Kinds DEF InCall
  <2>4. QED
    BY <2>1, <2>2, <2>3
<1>3. Sound(fs, tasks, surfaced) /\ Gone(frames, fs, h)
  <2>1. \A w \in h : Droppable(frames, w)
    <3>1. SUFFICES ASSUME NEW w \in Wrap, w \in Frame, frames[w].holder = AnyFrame
                   PROVE  Droppable(frames, w)
      BY DEF Held
    <3>2. frames[w].root = None /\ frames[w].at \notin {"unborn", "destroyed"}
      BY <3>1, Facts, Kinds DEF FrameInv, KindInv, FlagInv
    <3>3. QED
      BY <3>1, <3>2, <1>1, <1>2, Kinds DEF Droppable
  <2>2. ToSet(tasks) = ToSet(tasks) \ h /\ h \in SUBSET Frame
    <3>1. ToSet(tasks) \cap Wrap = {}
      BY Facts, Kinds DEF ToSet
    <3>2. QED
      BY <3>1 DEF Held
  <2>3. QED
    BY <2>1, <2>2, Facts, DroppedSound
<1> HIDE DEF fs
<1>4. AtEnd(fs, stack, ret, resumable, winners, tasks, surfaced)
  <2>1. FrameInv(fs) /\ AwaitedLive(fs) /\ OwnerInv(fs, tasks, surfaced)
    BY <1>3 DEF Sound
  <2>2. StackInv(fs, stack, resumable) /\ ResultInv(fs, ret, resumable, winners)
    BY <1>3, Facts, GoneStack, GoneResult
  <2>3. fs[AnyFrame].at = frames[AnyFrame].at
    BY <1>1, <1>3 DEF Gone
  <2>4. ASSUME NEW g \in Frame, fs[g].holder = AnyFrame
        PROVE  g \in Task /\ fs[AnyFrame].at # "running"
    <3>1. frames[g].holder = AnyFrame /\ g \notin h
      BY <2>4, <1>1, <1>3, Kinds DEF Gone
    <3>2. g \notin Wrap
      BY <3>1 DEF Held
    <3>3. g \in Task /\ \A w \in Wrap : frames[w].at = "unborn"
      BY <3>1, <3>2, Facts DEF FrameInv, HolderInv
    <3>4. QED
      BY <3>3, <2>3, <1>2, Kinds
  <2>5. QED
    BY <2>1, <2>2, <2>3, <2>4, <1>1, Facts DEF AtEnd, ResultInv
<1>5. /\ Whole(frames', stack', ret, resumable, winners, tasks, surfaced)
      /\ \A g \in Frame : Obeys(fs, frames', g)
  BY <1>1, <1>4, FinalWhole
<1>6. AllObey
  <2>1. /\ FrameInv(frames) /\ FrameInv(fs) /\ h \in SUBSET Wrap
        /\ \A w \in h : frames[w].holder # None
    BY <1>3, Facts, Kinds DEF Sound, Held
  <2> HIDE DEF h
  <2>2. ASSUME NEW g \in Frame
        PROVE  Obeys(frames, frames', g)
    BY <2>1, <1>3, <1>5, GoneObeys
  <2>3. QED
    BY <2>2 DEF AllObey
<1>7. QED
  BY <1>1, <1>5, <1>6, WholeKept DEF IInv, TypeOK

(* The call of Run returned: the caller looks whether the task is done. *)
LEMMA CallReturnedStep ==
  ASSUME IInv, NEW t \in Task \cup Wrap, CallReturned(t)
  PROVE  IInv' /\ AllObey
<1>0. /\ stack # <<>> /\ Head(stack) = t /\ frames[t].at = "calling" /\ t \in Frame /\ t # AnyFrame
      /\ UNCHANGED <<tasks, owner, ret, resumable, surfaced, winners>>
      /\ Head(stack) = stack[1] /\ 1 \in DOMAIN stack
  BY Facts, TailFacts, Kinds DEF CallReturned, Top
<1>1. PICK c \in Frame : Awaits(frames, t, c) /\ frames[c].parent = None
  BY <1>0, Facts DEF FrameInv, AwaitInv
<1>2. c = CHOOSE u \in Held(frames, t) : TRUE
  BY <1>1, Facts, OneHeld DEF Awaits
<1>3. frames[c].holder = t /\ c # t
  <2>1. {t} \in SUBSET Frame /\ {t} # {}
    BY <1>0
  <2>2. frames[t].holder # t
    BY <2>1, Facts DEF FrameInv, Forest
  <2>3. QED
    BY <2>2, <1>1 DEF Awaits
<1>4. CASE frames[c].at = "done" /\ frames' = Consumed(frames, t, c) /\ stack' = stack
  <2> DEFINE gs == Consumed(frames, t, c)
  <2>1. FrameInv(gs) /\ Resolved(frames, gs, t, c)
    BY <1>0, <1>3, <1>4, Facts, ConsumedInv
  <2> HIDE DEF gs
  <2>2. /\ gs[t].at \in {"running", "unwinding", "won"}
        /\ t \in Wrap => gs[t].at # "running"
        /\ t \in Task => gs[t].at # "won"
        /\ gs[c].at \in {"done", "destroyed"}
        /\ \A g \in Frame \ {t, c} : gs[g].at = frames[g].at
        /\ \A g \in Frame :
             /\ gs[g].root = frames[g].root /\ gs[g].parent = frames[g].parent
             /\ gs[g].failed = frames[g].failed
             /\ \/ gs[g].holder = frames[g].holder /\ gs[g].canceled = frames[g].canceled
                \/ frames[g].holder # None /\ gs[g].holder = None /\ gs[g].canceled
                \/ /\ g = c /\ gs[g].holder = None /\ gs[g].canceled = frames[g].canceled
                   /\ gs[g].at = "destroyed"
    BY <2>1 DEF Resolved
  <2>3. StackInv(gs, stack, resumable)
    <3>1. ASSUME NEW g \in Frame \ {t}
          PROVE  gs[g].at \in Execution <=> frames[g].at \in Execution
      BY <1>4, <2>2 DEF Execution
    <3>2. ASSUME NEW g \in Frame \ {t}, frames[g].at \in Execution
          PROVE  gs[g].at = frames[g].at
      BY <3>2, <1>4, <2>2 DEF Execution
    <3>3. \A g \in Frame : gs[g].parent = frames[g].parent /\ gs[g].holder \in {frames[g].holder, None}
      BY <2>2
    <3>4. SameBelow(frames, gs, stack) /\ gs[t].at \in Execution
      BY <3>1, <3>2, <3>3, <1>0, <2>2 DEF SameBelow, Execution
    <3>5. QED
      BY <3>3, <3>4, <1>0, Facts, StackKept
  <2>4. ResultInv(gs, ret, resumable, winners)
    <3>1. t \in Wrap => ret = None /\ ~resumable
      BY <1>0, Facts DEF ResultInv
    <3>2. \A w \in Wrap : w # t => w \in Frame /\ (gs[w].at = frames[w].at \/ gs[w].at = "destroyed"
                                                    \/ gs[w].at = "done")
      BY <2>2, Kinds
    <3>3. gs[AnyFrame].at = "anyof" <=> frames[AnyFrame].at = "anyof"
      BY <1>0, <1>4, <2>2, Kinds
    <3>4. QED
      BY <3>1, <3>2, <3>3, <2>2, Facts DEF ResultInv
  <2>5. OwnerInv(gs, tasks, surfaced)
    <3>1. ASSUME NEW u \in ToSet(tasks)
          PROVE  /\ gs[u].holder = None /\ gs[u].root = None /\ ~gs[u].canceled
                 /\ gs[u].at \notin {"unborn", "created", "destroyed"}
      <4>1. /\ frames[u].holder = None /\ frames[u].root = None /\ ~frames[u].canceled
            /\ frames[u].at \notin {"unborn", "created", "destroyed"}
        BY Facts DEF OwnerInv
      <4>2. u \in Frame /\ u # c
        BY <4>1, <1>0, <1>3, Facts, Kinds DEF ToSet
      <4>3. QED
        BY <4>1, <4>2, <2>2
    <3>2. ASSUME NEW g \in Task \cup {AnyFrame},
                 Live(gs, g), gs[g].holder = None, ~gs[g].canceled
          PROVE  g \in ToSet(tasks)
      <4>1. g \in Frame /\ g # c
        BY <3>2, <2>2, Kinds DEF Live
      <4>2. Live(frames, g) /\ frames[g].holder = None /\ ~frames[g].canceled
        BY <3>2, <4>1, <1>0, <2>2 DEF Live
      <4>3. QED
        BY <4>2, Facts DEF OwnerInv
    <3>3. ASSUME NEW u \in surfaced
          PROVE  gs[u].at \in {"done", "destroyed"} /\ ~gs[u].failed
      <4>1. frames[u].at \in {"done", "destroyed"} /\ ~frames[u].failed
        BY Facts DEF OwnerInv
      <4>2. u \in Frame /\ u # t
        BY <4>1, <1>0, Facts, Kinds
      <4>3. QED
        BY <4>1, <4>2, <2>2
    <3>4. QED
      BY <3>1, <3>2, <3>3 DEF OwnerInv
  <2>6. AwaitedLive(gs)
    <3>1. SUFFICES ASSUME NEW d \in Frame, gs[d].holder # None, gs[d].at = "done"
                   PROVE  gs[gs[d].holder].at # "awaiting"
      BY DEF AwaitedLive
    <3>2. gs[d].holder = frames[d].holder /\ frames[d].holder \in Frame /\ d # t
      BY <3>1, <2>2, Facts DEF Promise
    <3>3. frames[d].at = "done"
      BY <3>1, <3>2, <1>4, <2>2
    <3>4. frames[frames[d].holder].at # "awaiting"
      BY <3>1, <3>2, <3>3, Facts DEF AwaitedLive
    <3>5. QED
      BY <3>2, <3>4, <2>2
  <2>7. Whole(gs, stack, ret, resumable, winners, tasks, surfaced)
    BY <2>1, <2>3, <2>4, <2>5, <2>6, Facts DEF Whole
  <2>8. AllObey
    <3>1. Obeys(frames, gs, t)
      BY <1>0 DEF Obeys, Execution
    <3>2. Obeys(frames, gs, c)
      BY <1>0, <1>3, <1>4, <2>2, Kinds DEF Obeys
    <3>3. \A g \in Frame \ {t, c} : Obeys(frames, gs, g)
      BY <2>2 DEF Obeys
    <3>4. QED
      BY <3>1, <3>2, <3>3, <1>4 DEF AllObey, gs
  <2>9. QED
    BY <2>7, <2>8, <1>0, <1>4, WholeKept DEF IInv, TypeOK, gs
<1>5. CASE /\ frames[c].at # "done"
           /\ frames' = [frames EXCEPT ![t].at = "awaiting", ![c].parent = t]
           /\ stack' = Tail(stack)
  <2> DEFINE gs == [frames EXCEPT ![t].at = "awaiting", ![c].parent = t]
  <2>1. FrameInv(gs)
    BY <1>0, <1>1, <1>5, Facts, RegisterInv
  <2>2. /\ \A g \in Frame : gs[g].at = IF g = t THEN "awaiting" ELSE frames[g].at
        /\ \A g \in Frame : g # c => gs[g].parent = frames[g].parent
        /\ \A g \in Frame : /\ gs[g].canceled = frames[g].canceled /\ gs[g].root = frames[g].root
                            /\ gs[g].holder = frames[g].holder /\ gs[g].failed = frames[g].failed
    BY <1>0, Facts DEF Promise
  <2> HIDE DEF gs
  <2>3. frames[c].at \notin Execution
    <3>1. SUFFICES ASSUME frames[c].at \in Execution
                   PROVE  FALSE
      OBVIOUS
    <3>2. PICK i \in DOMAIN stack : stack[i] = c
      BY <3>1, <1>0, <1>3, Executing
    <3>3. i < 1
      BY <3>2, <1>0, <1>3, Facts DEF StackInv
    <3>4. QED
      BY <3>2, <3>3, Facts
  <2>4. StackInv(gs, Tail(stack), resumable)
    <3>1. gs[t].at \notin Execution
      BY <1>0, <2>2 DEF Execution
    <3>2. SameBelow(frames, gs, stack)
      BY <1>0, <2>2, <2>3 DEF SameBelow
    <3>3. QED
      BY <3>1, <3>2, <1>0, Facts, StackPopped
  <2>5. ResultInv(gs, ret, resumable, winners)
    <3>1. \A g \in Frame : \A state \in {"won", "unborn", "created", "running", "anyof"} :
            gs[g].at = state <=> frames[g].at = state
      BY <1>0, <2>2
    <3>2. \A g \in Frame : gs[g].at = "calling" => frames[g].at = "calling"
      BY <1>0, <2>2
    <3>3. \A w \in Wrap \cup {AnyFrame} : w \in Frame
      BY Kinds
    <3>4. QED
      BY <3>1, <3>2, <3>3, Facts DEF ResultInv
  <2>6. OwnerInv(gs, tasks, surfaced)
    <3>1. ToSet(tasks) \subseteq Frame /\ surfaced \subseteq Frame /\ Task \cup {AnyFrame} \subseteq Frame
      BY Facts, Kinds DEF ToSet
    <3>2. \A g \in Frame : Live(gs, g) <=> Live(frames, g)
      BY <1>0, <2>2 DEF Live
    <3>3. \A g \in Frame : \A state \in {"done", "destroyed", "unborn", "created"} :
            gs[g].at = state <=> frames[g].at = state
      BY <1>0, <2>2
    <3>4. \A u \in ToSet(tasks) : /\ gs[u].holder = None /\ gs[u].root = None /\ ~gs[u].canceled
                                  /\ gs[u].at \notin {"unborn", "created", "destroyed"}
      BY <3>1, <3>3, <2>2, Facts DEF OwnerInv
    <3>5. \A g \in Task \cup {AnyFrame} :
            Live(gs, g) /\ gs[g].holder = None /\ ~gs[g].canceled => g \in ToSet(tasks)
      BY <3>1, <3>2, <2>2, Facts DEF OwnerInv
    <3>6. ASSUME NEW u \in surfaced
          PROVE  gs[u].at \in {"done", "destroyed"} /\ ~gs[u].failed
      <4>1. frames[u].at \in {"done", "destroyed"} /\ ~frames[u].failed /\ u \in Frame
        BY <3>1, Facts DEF OwnerInv
      <4>2. QED
        BY <4>1, <3>3, <2>2
    <3>7. QED
      BY <3>4, <3>5, <3>6 DEF OwnerInv
  <2>7. AwaitedLive(gs)
    <3>1. SUFFICES ASSUME NEW d \in Frame, gs[d].holder # None, gs[d].at = "done"
                   PROVE  gs[gs[d].holder].at # "awaiting"
      BY DEF AwaitedLive
    <3>2. frames[d].at = "done" /\ gs[d].holder = frames[d].holder /\ frames[d].holder \in Frame
      BY <3>1, <1>0, <2>2, Facts DEF Promise
    <3>3. frames[d].holder # t
      BY <3>2, <1>0, <1>3, <1>5, Facts DEF FrameInv, HolderInv
    <3>4. QED
      BY <3>1, <3>2, <3>3, <2>2, Facts DEF AwaitedLive
  <2>8. Whole(gs, Tail(stack), ret, resumable, winners, tasks, surfaced)
    BY <2>1, <2>4, <2>5, <2>6, <2>7, <1>0, Facts, TailFacts DEF Whole
  <2>9. AllObey
    <3>1. \A g \in Frame : Obeys(frames, gs, g)
      BY <1>0, <2>2 DEF Obeys, Execution
    <3>2. QED
      BY <3>1, <1>5 DEF AllObey, gs
  <2>10. QED
    BY <2>8, <2>9, <1>0, <1>5, WholeKept DEF IInv, TypeOK, gs
<1>6. QED
  BY <1>2, <1>4, <1>5 DEF CallReturned

(* The promises of new frames, and of a frame that begins. *)
LEMMA CreatedFields ==
  ASSUME NEW fs \in [Frame -> Promise], NEW new, NEW holder \in Frame \cup {None}
  PROVE  /\ Created(fs, new, holder) \in [Frame -> Promise]
         /\ \A g \in Frame \ new : Created(fs, new, holder)[g] = fs[g]
         /\ \A g \in Frame \cap new :
              LET p == Created(fs, new, holder)[g]
              IN  /\ p.at = "created" /\ p.holder = holder /\ p.canceled = fs[g].canceled
                  /\ p.root = fs[g].root /\ p.parent = fs[g].parent /\ p.failed = fs[g].failed
<1> DEFINE gs == Created(fs, new, holder)
<1>1. ASSUME NEW g \in Frame
      PROVE  gs[g] \in Promise
  BY DEF Created, Promise, Suspension
<1>2. gs \in [Frame -> Promise] /\ \A g \in Frame \ new : gs[g] = fs[g]
  BY <1>1 DEF Created
<1>3. ASSUME NEW g \in Frame \cap new
      PROVE  /\ gs[g].at = "created" /\ gs[g].holder = holder /\ gs[g].canceled = fs[g].canceled
             /\ gs[g].root = fs[g].root /\ gs[g].parent = fs[g].parent
             /\ gs[g].failed = fs[g].failed
  <2>1. gs[g] = [fs[g] EXCEPT !.at = "created", !.holder = holder] /\ fs[g] \in Promise
    BY DEF Created
  <2> HIDE DEF gs
  <2>2. QED
    BY <2>1 DEF Promise
<1>4. QED
  BY <1>2, <1>3

(* What running a frame changes, field by field. *)
LEMMA RunFields ==
  ASSUME NEW fs \in [Frame -> Promise], NEW c \in Frame, NEW root \in Frame \cup {None}
  PROVE  /\ Run(fs, c, root) \in [Frame -> Promise]
         /\ \A g \in Frame \ {c} : Run(fs, c, root)[g] = fs[g]
         /\ Run(fs, c, root)[c].at \in {"running", "unwinding"}
         /\ Run(fs, c, root)[c].root = root
         /\ Run(fs, c, root)[c].holder = fs[c].holder
         /\ Run(fs, c, root)[c].parent = fs[c].parent
         /\ Run(fs, c, root)[c].canceled = fs[c].canceled
         /\ Run(fs, c, root)[c].failed = fs[c].failed
         /\ root = None /\ ~fs[c].canceled => Run(fs, c, root)[c].at = "running"
         /\ root \in Frame /\ root # c /\ fs[root].canceled => Run(fs, c, root)[c].at = "unwinding"
<1> DEFINE hs == [fs EXCEPT ![c].root = root]
           at == IF Canceled(hs, c) THEN "unwinding" ELSE "running"
           gs == [hs EXCEPT ![c].at = at]
<1>1. Run(fs, c, root) = gs
  BY DEF Run, Resumed
<1>2. /\ hs \in [Frame -> Promise] /\ hs[c].root = root /\ \A g \in Frame \ {c} : hs[g] = fs[g]
      /\ hs[c].holder = fs[c].holder /\ hs[c].parent = fs[c].parent
      /\ hs[c].canceled = fs[c].canceled /\ hs[c].failed = fs[c].failed
  BY DEF Promise
<1> HIDE DEF hs
<1>3. /\ at \in {"running", "unwinding"}
      /\ root = None /\ ~fs[c].canceled => at = "running"
      /\ root \in Frame /\ root # c /\ fs[root].canceled => at = "unwinding"
  BY <1>2, Kinds DEF Canceled
<1> HIDE DEF at
<1>4. /\ gs \in [Frame -> Promise] /\ gs[c].at = at /\ \A g \in Frame \ {c} : gs[g] = hs[g]
      /\ gs[c].holder = hs[c].holder /\ gs[c].parent = hs[c].parent /\ gs[c].root = hs[c].root
      /\ gs[c].canceled = hs[c].canceled /\ gs[c].failed = hs[c].failed
  BY <1>2, <1>3 DEF Promise, Execution
<1> HIDE DEF gs
<1>5. QED
  BY <1>1, <1>2, <1>3, <1>4

(* A task calls a frame it has just made. *)
LEMMA CalledStep ==
  ASSUME IInv, NEW t \in Task, NEW c \in Task \cup {AnyFrame}, NEW given \in SUBSET Task,
         Top(t), NEW gs, Called(frames, gs, t, c, given), frames' = gs, stack' = Push(c),
         UNCHANGED <<tasks, owner, ret, resumable, surfaced, winners>>
  PROVE  IInv' /\ AllObey
<1>1. /\ stack # <<>> /\ Head(stack) = t /\ t \in Frame /\ c \in Frame /\ t # AnyFrame
      /\ stack' = <<c>> \o stack /\ t \notin Wrap /\ c \notin Wrap /\ AnyFrame \notin Task
      /\ given \cap Wrap = {} /\ AnyFrame \notin given /\ given \subseteq Frame
  BY Kinds DEF Top, Push
<1>2. FrameInv(gs)
  BY Facts, CalledInv
<1>3. /\ frames[t].at = "running" /\ frames[c].at = "unborn" /\ c # t /\ c \notin given
      /\ \A g \in given : frames[g].at = "unborn" /\ gs[g].at = "created" /\ gs[g].holder = c
      /\ c \in Task => given = {}
      /\ gs[t].at = "calling" /\ gs[t].parent = frames[t].parent /\ gs[t].holder = frames[t].holder
      /\ gs[t].root = frames[t].root /\ gs[t].canceled = frames[t].canceled
      /\ gs[c].at \in {"running", "unwinding"} /\ gs[c].holder = t /\ gs[c].parent = None
  <2>1. frames[t] \in Promise /\ gs[t] = [frames[t] EXCEPT !.at = "calling"]
    BY <1>1, Facts DEF Called
  <2>2. ASSUME NEW g \in given
        PROVE  frames[g].at = "unborn" /\ gs[g].at = "created" /\ gs[g].holder = c
    BY DEF Called
  <2>3. frames[t].at = "running" /\ frames[c].at = "unborn" /\ c # t
    BY DEF Called
  <2>4. c \notin given
    BY <1>1 DEF Called
  <2>5. gs[t].at = "calling" /\ gs[t].parent = frames[t].parent /\ gs[t].holder = frames[t].holder
        /\ gs[t].root = frames[t].root /\ gs[t].canceled = frames[t].canceled
    BY <2>1 DEF Promise
  <2>6. QED
    BY <2>2, <2>3, <2>4, <2>5 DEF Called
<1>4. \A g \in Frame : g \notin given \cup {c, t} => gs[g] = frames[g]
  BY DEF Called
<1>5. \A g \in Frame : frames[g].at \notin {"unborn", "running"} => gs[g] = frames[g]
  BY <1>3, <1>4
<1>6. StackInv(gs, <<c>> \o stack, resumable)
  <2>1. frames[c].at \notin Execution /\ gs[c].at \in Execution
    BY <1>3 DEF Execution
  <2>2. ASSUME NEW g \in Frame \ {c}
        PROVE  gs[g].at \in Execution <=> frames[g].at \in Execution
    BY <1>3, <1>4 DEF Execution
  <2>3. ASSUME NEW g \in Frame, frames[g].at \in Execution
        PROVE  /\ gs[g].parent = frames[g].parent /\ gs[g].holder = frames[g].holder
               /\ stack # <<>> /\ g # Head(stack) => gs[g].at = frames[g].at
               /\ c = AnyFrame \/ gs[g].holder # c
    <3>1. g \notin given \cup {c}
      BY <2>3, <1>3 DEF Execution
    <3>2. gs[g].parent = frames[g].parent /\ gs[g].holder = frames[g].holder
      BY <3>1, <1>3, <1>4
    <3>3. c \in Task => frames[g].holder # c
      BY <1>3, Facts DEF FrameInv, HolderInv
    <3>4. QED
      BY <3>1, <3>2, <3>3, <1>1, <1>4
  <2>4. InCall(gs, Head(stack), resumable)
    BY <1>1, <1>3 DEF InCall
  <2>5. c = AnyFrame => \A w \in Wrap : frames[w].at \notin Execution
    <3>1. c = AnyFrame => \A w \in Wrap : frames[w].at = "unborn"
      BY <1>3, Facts DEF FrameInv, WrapInv
    <3>2. QED
      BY <3>1 DEF Execution
  <2>6. MayPush(frames, gs, stack, resumable, c)
    BY <2>1, <2>2, <2>3, <2>4, <2>5, <1>1, <1>3 DEF MayPush
  <2>7. QED
    BY <2>6, <1>1, Facts, StackPushed
<1>7. ResultInv(gs, ret, resumable, winners)
  <2>1. \A w \in Wrap : gs[w] = frames[w]
    BY <1>1, <1>3, <1>4, Kinds
  <2>2. gs[AnyFrame].at = "anyof" <=> frames[AnyFrame].at = "anyof"
    BY <1>1, <1>3, <1>4, Kinds
  <2>3. QED
    BY <2>1, <2>2, Facts DEF ResultInv
<1>8. OwnerInv(gs, tasks, surfaced)
  <2>1. ToSet(tasks) \subseteq Frame /\ surfaced \subseteq Frame /\ Task \cup {AnyFrame} \subseteq Frame
    BY Facts, Kinds DEF ToSet
  <2>2. ASSUME NEW u \in ToSet(tasks)
        PROVE  /\ gs[u].holder = None /\ gs[u].root = None /\ ~gs[u].canceled
               /\ gs[u].at \notin {"unborn", "created", "destroyed"}
    <3>1. /\ frames[u].holder = None /\ frames[u].root = None /\ ~frames[u].canceled
          /\ frames[u].at \notin {"unborn", "created", "destroyed"}
      BY Facts DEF OwnerInv
    <3>2. u \notin given \cup {c} /\ u \in Frame
      BY <3>1, <2>1, <1>3
    <3>3. QED
      BY <3>1, <3>2, <1>3, <1>4
  <2>3. ASSUME NEW g \in Task \cup {AnyFrame}, Live(gs, g), gs[g].holder = None, ~gs[g].canceled
        PROVE  g \in ToSet(tasks)
    <3>1. g \in Frame /\ g \notin given \cup {c}
      BY <2>3, <2>1, <1>1, <1>3, Kinds DEF Live
    <3>2. Live(frames, g) /\ frames[g].holder = None /\ ~frames[g].canceled
      BY <2>3, <3>1, <1>3, <1>4 DEF Live
    <3>3. QED
      BY <3>2, Facts DEF OwnerInv
  <2>4. ASSUME NEW u \in surfaced
        PROVE  gs[u].at \in {"done", "destroyed"} /\ ~gs[u].failed
    <3>1. frames[u].at \in {"done", "destroyed"} /\ ~frames[u].failed /\ u \in Frame
      BY <2>1, Facts DEF OwnerInv
    <3>2. QED
      BY <3>1, <1>5
  <2>5. QED
    BY <2>2, <2>3, <2>4 DEF OwnerInv
<1>9. AwaitedLive(gs)
  <2>1. SUFFICES ASSUME NEW d \in Frame, gs[d].holder # None, gs[d].at = "done"
                 PROVE  gs[gs[d].holder].at # "awaiting"
    BY DEF AwaitedLive
  <2>2. d \notin given \cup {c, t}
    BY <2>1, <1>3
  <2>3. gs[d] = frames[d] /\ frames[d].holder \in Frame
    BY <2>1, <2>2, <1>4, Facts DEF Promise
  <2>4. frames[frames[d].holder].at # "awaiting"
    BY <2>1, <2>3, Facts DEF AwaitedLive
  <2>5. QED
    BY <2>3, <2>4, <1>3, <1>4
<1>10. Whole(gs, <<c>> \o stack, ret, resumable, winners, tasks, surfaced)
  BY <1>1, <1>2, <1>6, <1>7, <1>8, <1>9, Facts, PushFacts DEF Whole
<1>11. AllObey
  <2>1. Obeys(frames, gs, c)
    BY <1>3 DEF Called, Obeys
  <2>2. Obeys(frames, gs, t)
    BY <1>3 DEF Obeys, Execution
  <2>3. \A g \in given : Obeys(frames, gs, g)
    BY <1>3 DEF Obeys
  <2>4. \A g \in Frame \ (given \cup {c, t}) : Obeys(frames, gs, g)
    BY <1>4 DEF Obeys
  <2>5. QED
    BY <2>1, <2>2, <2>3, <2>4 DEF AllObey
<1>12. QED
  BY <1>1, <1>10, <1>11, WholeKept DEF IInv, TypeOK

(* A task awaits another one. *)
LEMMA AwaitStep ==
  ASSUME IInv, NEW t \in Task, Await(t)
  PROVE  IInv' /\ AllObey
<1> DEFINE c  == CHOOSE u \in Task : u \in Unborn
           es == Created(frames, {c}, t)
           hs == Run(es, c, RootOf(es, t))
           gs == [hs EXCEPT ![t].at = "calling"]
<1>1. /\ Top(t) /\ frames[t].at = "running" /\ t \in Frame
      /\ frames' = gs /\ stack' = Push(c) /\ Unborn \cap Task # {}
      /\ UNCHANGED <<tasks, owner, ret, resumable, surfaced, winners>>
  BY Kinds DEF Await, Running
<1>2. c \in Task /\ frames[c].at = "unborn" /\ c \in Frame /\ c # t
  <2>1. c \in Task /\ c \in Unborn
    BY <1>1
  <2>2. QED
    BY <2>1, <1>1 DEF Unborn, At
<1> HIDE DEF c
<1>3. /\ es \in [Frame -> Promise] /\ \A g \in Frame \ {c} : es[g] = frames[g]
      /\ es[c].at = "created" /\ es[c].holder = t /\ es[c].canceled = frames[c].canceled
      /\ es[c].root = frames[c].root /\ es[c].parent = frames[c].parent
  <2>1. frames \in [Frame -> Promise] /\ t \in Frame \cup {None} /\ c \in Frame \cap {c}
    BY <1>1, <1>2, Facts
  <2>2. QED
    BY <2>1, CreatedFields
<1>4. RootOf(es, t) = RootOf(frames, t) /\ RootOf(es, t) \in Frame \cup {None}
  BY <1>1, <1>2, <1>3 DEF RootOf, Promise
<1>5. frames[c].root = None /\ frames[c].parent = None /\ frames[c].canceled = FALSE
  BY <1>2, Facts DEF FrameInv, FlagInv, Promise
<1>6. es[c].holder = t /\ es[c].parent = None /\ es[c].canceled = FALSE
  BY <1>3, <1>5
<1> HIDE DEF es
<1>7. /\ hs \in [Frame -> Promise] /\ \A g \in Frame \ {c} : hs[g] = es[g]
      /\ hs[c].at \in {"running", "unwinding"} /\ hs[c].root = RootOf(es, t)
      /\ hs[c].holder = es[c].holder /\ hs[c].parent = es[c].parent
      /\ hs[c].canceled = es[c].canceled
      /\ hs[c].at = "running" => ~es[RootOf(es, t)].canceled
      /\ RootOf(es, t) \in Frame \ {c}
  <2>1. es \in [Frame -> Promise] /\ c \in Frame /\ RootOf(es, t) \in Frame \cup {None}
    BY <1>2, <1>3, <1>4
  <2>2. RootOf(es, t) \in Frame /\ RootOf(es, t) # c
    <3>1. RootOf(frames, t) \in Frame /\ Live(frames, RootOf(frames, t))
      <4>1. Live(frames, t)
        BY <1>1 DEF Live
      <4>2. QED
        BY <4>1, <1>1, Facts, RootLive
    <3>2. QED
      BY <3>1, <1>2, <1>4 DEF Live
  <2>3. QED
    BY <2>1, <2>2, RunFields
<1> HIDE DEF hs
<1>8. /\ gs \in [Frame -> Promise] /\ \A g \in Frame \ {t} : gs[g] = hs[g]
      /\ gs[t] = [frames[t] EXCEPT !.at = "calling"]
  BY <1>1, <1>2, <1>3, <1>7 DEF Promise, Execution
<1> HIDE DEF gs
<1>9. gs[c].at = "running" => ~Canceled(gs, c)
  <2>1. gs[t].canceled = es[t].canceled
    <3>1. frames[t] \in Promise /\ gs[t] = [frames[t] EXCEPT !.at = "calling"]
      BY <1>1, <1>8, Facts
    <3>2. QED
      BY <3>1, <1>1, <1>2, <1>3 DEF Promise
  <2>2. \A g \in Frame \ {c} : gs[g].canceled = es[g].canceled
    BY <2>1, <1>7, <1>8
  <2>3. gs[c] = hs[c] /\ gs[c].root \in Frame \ {c}
    BY <1>2, <1>7, <1>8
  <2>4. QED
    BY <2>2, <2>3, <1>6, <1>7 DEF Canceled
<1>10. Called(frames, gs, t, c, {})
  BY <1>1, <1>2, <1>3, <1>4, <1>6, <1>7, <1>8, <1>9, Kinds DEF Called
<1>11. QED
  BY <1>1, <1>2, <1>10, CalledStep
(* As many frames as there are wrappers can be taken from a pool of no fewer. *)
LEMMA Taken ==
  ASSUME NEW pool, IsFiniteSet(pool), Cardinality(pool) >= Wrappers
  PROVE  LET given == CHOOSE us \in SUBSET pool : Cardinality(us) = Wrappers
         IN  given \in SUBSET pool /\ Cardinality(given) = Wrappers
<1> DEFINE n == Cardinality(pool)
<1>1. n \in Nat /\ ExistsBijection(1 .. n, pool) /\ Wrappers \in Nat /\ Wrappers <= n
  BY FS_CardinalityType, FramesAssumption
<1>2. PICK f \in Bijection(1 .. n, pool) : TRUE
  BY <1>1 DEF ExistsBijection
<1> HIDE DEF n
<1> DEFINE us == {f[i] : i \in 1 .. Wrappers}
           g  == [i \in 1 .. Wrappers |-> f[i]]
<1>3. /\ \A i \in 1 .. Wrappers : f[i] \in pool
      /\ \A i, j \in 1 .. Wrappers : f[i] = f[j] => i = j
  BY <1>1, <1>2 DEF Bijection, Injection, IsInjective
<1>4. us \in SUBSET pool
  BY <1>3
<1>5. g \in Bijection(1 .. Wrappers, us)
  BY <1>3 DEF Bijection, Injection, Surjection, IsInjective
<1>6. Cardinality(us) = Wrappers
  BY <1>1, <1>5, FS_CountingElements DEF ExistsBijection
<1>7. QED
  BY <1>4, <1>6

(* A task awaits AnyOf of new tasks. *)
LEMMA AwaitAnyOfStep ==
  ASSUME IInv, NEW t \in Task, AwaitAnyOf(t)
  PROVE  IInv' /\ AllObey
<1> DEFINE given == CHOOSE us \in SUBSET (Unborn \cap Task) : Cardinality(us) = Wrappers
           bs == Created(frames, given, AnyFrame)
           es == Created(bs, {AnyFrame}, t)
           hs == Run(es, AnyFrame, RootOf(es, t))
           gs == [hs EXCEPT ![t].at = "calling"]
<1>1. /\ Top(t) /\ frames[t].at = "running" /\ t \in Frame /\ t # AnyFrame
      /\ frames' = gs /\ stack' = Push(AnyFrame)
      /\ AnyFrame \in Unborn /\ AnyFrame \in Frame /\ AnyFrame \notin Task
      /\ Cardinality(Unborn \cap Task) >= Wrappers
      /\ UNCHANGED <<tasks, owner, ret, resumable, surfaced, winners>>
  BY Kinds DEF AwaitAnyOf, Running
<1>2. /\ given \in SUBSET (Unborn \cap Task) /\ Cardinality(given) = Wrappers
      /\ given \subseteq Frame /\ given \in SUBSET Task
  <2>1. IsFiniteSet(Unborn \cap Task)
    BY FramesAssumption, FS_Subset
  <2>2. given \in SUBSET (Unborn \cap Task) /\ Cardinality(given) = Wrappers
    BY <1>1, <2>1, Taken
  <2> HIDE DEF given
  <2>3. QED
    BY <2>2, Kinds
<1> HIDE DEF given
<1>3. /\ \A g \in given : frames[g].at = "unborn" /\ g # AnyFrame /\ g # t /\ g \in Frame
      /\ frames[AnyFrame].at = "unborn"
  BY <1>1, <1>2 DEF Unborn, At
<1>4. /\ bs \in [Frame -> Promise] /\ \A g \in Frame \ given : bs[g] = frames[g]
      /\ \A g \in Frame \cap given :
           /\ bs[g].at = "created" /\ bs[g].holder = AnyFrame
           /\ bs[g].canceled = frames[g].canceled
           /\ bs[g].root = frames[g].root /\ bs[g].parent = frames[g].parent
  <2>1. frames \in [Frame -> Promise] /\ AnyFrame \in Frame \cup {None}
    BY <1>1, Facts
  <2>2. QED
    BY <2>1, CreatedFields
<1> HIDE DEF bs
<1>5. /\ es \in [Frame -> Promise] /\ \A g \in Frame \ {AnyFrame} : es[g] = bs[g]
      /\ es[AnyFrame].at = "created" /\ es[AnyFrame].holder = t
      /\ es[AnyFrame].canceled = bs[AnyFrame].canceled
      /\ es[AnyFrame].root = bs[AnyFrame].root /\ es[AnyFrame].parent = bs[AnyFrame].parent
  <2>1. t \in Frame \cup {None} /\ AnyFrame \in Frame \cap {AnyFrame}
    BY <1>1
  <2>2. QED
    BY <2>1, <1>4, CreatedFields
<1> HIDE DEF es
<1>6. es[t] = frames[t]
  BY <1>1, <1>3, <1>4, <1>5
<1>7. RootOf(es, t) = RootOf(frames, t) /\ RootOf(es, t) \in Frame \cup {None}
  BY <1>1, <1>5, <1>6 DEF RootOf, Promise
<1>8. es[AnyFrame].parent = None /\ es[AnyFrame].canceled = FALSE
  <2>1. frames[AnyFrame].parent = None /\ frames[AnyFrame].canceled = FALSE
    BY <1>1, <1>3, Facts DEF FrameInv, FlagInv, Promise
  <2>2. bs[AnyFrame] = frames[AnyFrame]
    BY <1>1, <1>3, <1>4
  <2>3. QED
    BY <2>1, <2>2, <1>5
<1>9. /\ hs \in [Frame -> Promise] /\ \A g \in Frame \ {AnyFrame} : hs[g] = es[g]
      /\ hs[AnyFrame].at \in {"running", "unwinding"} /\ hs[AnyFrame].root = RootOf(es, t)
      /\ hs[AnyFrame].holder = es[AnyFrame].holder
      /\ hs[AnyFrame].parent = es[AnyFrame].parent
      /\ hs[AnyFrame].canceled = es[AnyFrame].canceled
      /\ hs[AnyFrame].at = "running" => ~es[RootOf(es, t)].canceled
      /\ RootOf(es, t) \in Frame \ {AnyFrame}
  <2>1. es \in [Frame -> Promise] /\ AnyFrame \in Frame /\ RootOf(es, t) \in Frame \cup {None}
    BY <1>1, <1>5, <1>7
  <2>2. RootOf(es, t) \in Frame /\ RootOf(es, t) # AnyFrame
    <3>1. RootOf(frames, t) \in Frame /\ Live(frames, RootOf(frames, t))
      <4>1. Live(frames, t)
        BY <1>1 DEF Live
      <4>2. QED
        BY <4>1, <1>1, Facts, RootLive
    <3>2. QED
      BY <3>1, <1>3, <1>7 DEF Live
  <2>3. QED
    BY <2>1, <2>2, RunFields
<1> HIDE DEF hs
<1>10. /\ gs \in [Frame -> Promise] /\ \A g \in Frame \ {t} : gs[g] = hs[g]
       /\ gs[t] = [frames[t] EXCEPT !.at = "calling"]
  <2>1. hs[t] = frames[t]
    BY <1>1, <1>6, <1>9
  <2>2. QED
    BY <2>1, <1>1, <1>9 DEF Promise, Execution
<1> HIDE DEF gs
<1>11. Called(frames, gs, t, AnyFrame, given)
  <2>1. \A g \in Frame \ (given \cup {AnyFrame, t}) : gs[g] = frames[g]
    BY <1>4, <1>5, <1>9, <1>10
  <2>2. \A g \in given : /\ gs[g].at = "created" /\ gs[g].holder = AnyFrame
                         /\ gs[g].canceled = frames[g].canceled
                         /\ gs[g].root = frames[g].root /\ gs[g].parent = frames[g].parent
    BY <1>3, <1>4, <1>5, <1>9, <1>10
  <2>3. /\ gs[AnyFrame].at \in {"running", "unwinding"} /\ gs[AnyFrame].holder = t
        /\ gs[AnyFrame].root = RootOf(frames, t) /\ gs[AnyFrame].parent = None
        /\ gs[AnyFrame].canceled = FALSE
    BY <1>1, <1>5, <1>7, <1>8, <1>9, <1>10
  <2>4. gs[AnyFrame].at = "running" => ~Canceled(gs, AnyFrame)
    <3>1. gs[t].canceled = es[t].canceled
      <4>1. frames[t] \in Promise /\ gs[t] = [frames[t] EXCEPT !.at = "calling"]
        BY <1>1, <1>10, Facts
      <4>2. QED
        BY <4>1, <1>6 DEF Promise
    <3>2. \A g \in Frame \ {AnyFrame} : gs[g].canceled = es[g].canceled
      BY <3>1, <1>9, <1>10
    <3>3. gs[AnyFrame] = hs[AnyFrame] /\ gs[AnyFrame].root \in Frame \ {AnyFrame}
      BY <1>1, <1>9, <1>10
    <3>4. QED
      BY <2>3, <3>2, <3>3, <1>9 DEF Canceled
  <2>5. QED
    BY <2>1, <2>2, <2>3, <2>4, <1>1, <1>2, <1>3, <1>10 DEF Called
<1>12. QED
  BY <1>1, <1>2, <1>11, CalledStep
(* AnyOf makes its wrappers. *)
LEMMA CreateArrayStep ==
  ASSUME IInv, CreateArray
  PROVE  IInv' /\ AllObey
<1> DEFINE given == Held(frames, AnyFrame)
           taken == CHOOSE m \in [Wrap -> given] : \A v, w \in Wrap : m[v] = m[w] => v = w
           es    == Created(frames, Wrap, AnyFrame)
           gs    == [f \in Frame |-> IF f \in given
                      THEN [es[f] EXCEPT !.holder = CHOOSE w \in Wrap : taken[w] = f]
                      ELSE es[f]]
<1>1. /\ stack # <<>> /\ Head(stack) = AnyFrame /\ frames[AnyFrame].at = "running"
      /\ AnyFrame \in Frame /\ AnyFrame \notin Wrap /\ AnyFrame \notin Task
      /\ \A w \in Wrap : frames[w].at = "unborn" /\ w \in Frame
      /\ frames' = gs /\ UNCHANGED <<stack, tasks, owner, ret, resumable, surfaced, winners>>
  BY Kinds DEF CreateArray, Running, Top, Unborn, At
<1>2. given = {f \in Frame : frames[f].holder = AnyFrame}
  BY DEF Held
<1>3. /\ taken \in [Wrap -> given]
      /\ \A v, w \in Wrap : taken[v] = taken[w] => v = w
      /\ \A f \in given : \E w \in Wrap : taken[w] = f
  <2>1. Cardinality(given) = Wrappers
    BY <1>1, <1>2, Facts DEF FrameInv, GivenInv
  <2>2. given \in SUBSET Frame
    BY <1>2
  <2>3. IsFiniteSet(given)
    BY <2>2, FramesFinite, FS_Subset
  <2>4. QED
    BY <2>1, <2>3, Dealt
<1> HIDE DEF taken
<1>4. \A g \in given : g \in Frame /\ g \in Task /\ g \notin Wrap /\ frames[g].at = "created"
  BY <1>1, <1>2, Facts, Kinds DEF FrameInv, HolderInv, FlagInv
<1> HIDE DEF given
<1>5. /\ es \in [Frame -> Promise] /\ \A g \in Frame \ Wrap : es[g] = frames[g]
      /\ \A g \in Frame \cap Wrap :
           /\ es[g].at = "created" /\ es[g].holder = AnyFrame
           /\ es[g].canceled = frames[g].canceled
           /\ es[g].root = frames[g].root /\ es[g].parent = frames[g].parent
           /\ es[g].failed = frames[g].failed
  <2>1. frames \in [Frame -> Promise] /\ AnyFrame \in Frame \cup {None}
    BY <1>1, Facts
  <2>2. QED
    BY <2>1, CreatedFields
<1> HIDE DEF es
<1>6. ASSUME NEW g \in given
      PROVE  /\ gs[g] \in Promise /\ gs[g].at = frames[g].at
             /\ gs[g].holder \in Wrap /\ taken[gs[g].holder] = g
             /\ gs[g].canceled = frames[g].canceled /\ gs[g].root = frames[g].root
             /\ gs[g].parent = frames[g].parent /\ gs[g].failed = frames[g].failed
  <2> DEFINE mine == CHOOSE w \in Wrap : taken[w] = g
  <2>1. mine \in Wrap /\ taken[mine] = g
    BY <1>3
  <2>2. gs[g] = [es[g] EXCEPT !.holder = mine] /\ es[g] = frames[g] /\ frames[g] \in Promise
    BY <1>4, <1>5, Facts
  <2> HIDE DEF mine, gs
  <2>3. mine \in Frame
    BY <2>1, <1>1
  <2>4. QED
    BY <2>1, <2>2, <2>3 DEF Promise
<1>7. \A g \in Frame \ given : gs[g] = es[g]
  OBVIOUS
<1>8. gs \in [Frame -> Promise]
  BY <1>5, <1>6
<1> HIDE DEF gs
<1>9. /\ \A g \in Frame \ (given \cup Wrap) : gs[g] = frames[g]
      /\ \A w \in Wrap : gs[w].at = "created" /\ gs[w].holder = AnyFrame
      /\ \A g \in Frame : /\ gs[g].canceled = frames[g].canceled /\ gs[g].root = frames[g].root
                          /\ gs[g].parent = frames[g].parent /\ gs[g].failed = frames[g].failed
      /\ \A g \in Frame : g \notin Wrap => gs[g].at = frames[g].at
  BY <1>1, <1>4, <1>5, <1>6, <1>7
<1>10. Arrayed(frames, gs, given)
  <2>1. \A f, g \in given : gs[f].holder = gs[g].holder => f = g
    BY <1>6
  <2>2. ASSUME NEW w \in Wrap
        PROVE  \E g \in given : gs[g].holder = w
    <3>1. taken[w] \in given
      BY <1>3
    <3>2. gs[taken[w]].holder = w
      BY <3>1, <1>3, <1>6
    <3>3. QED
      BY <3>1, <3>2
  <2>3. QED
    BY <2>1, <2>2, <1>6, <1>8, <1>9 DEF Arrayed
<1>11. FrameInv(gs)
  BY <1>1, <1>2, <1>10, Facts, ArrayedInv
<1>12. StackInv(gs, stack, resumable)
  <2>1. ASSUME NEW f \in Frame
        PROVE  /\ gs[f].at \in Execution <=> frames[f].at \in Execution
               /\ frames[f].at \in Execution =>
                    /\ gs[f].at = frames[f].at /\ gs[f].parent = frames[f].parent
                    /\ gs[f].holder \in {frames[f].holder, None}
    <3>1. CASE f \in Wrap
      BY <3>1, <1>1, <1>9 DEF Execution
    <3>2. CASE f \in given
      BY <3>2, <1>4, <1>6 DEF Execution
    <3>3. CASE f \notin given \cup Wrap
      BY <3>3, <1>9
    <3>4. QED
      BY <3>1, <3>2, <3>3
  <2>2. QED
    BY <2>1, Facts, StackSame
<1>13. ResultInv(gs, ret, resumable, winners)
  <2>1. ~resumable
    BY <1>1, Facts, Kinds DEF ResultInv
  <2>2. gs[AnyFrame].at = "running"
    BY <1>1, <1>9
  <2>3. QED
    BY <2>1, <2>2, <1>1, <1>9, Facts DEF ResultInv
<1>14. OwnerInv(gs, tasks, surfaced)
  <2>1. ToSet(tasks) \subseteq Frame /\ surfaced \subseteq Frame /\ Task \cup {AnyFrame} \subseteq Frame
        /\ surfaced \cap Wrap = {}
    BY Facts, Kinds DEF ToSet
  <2>2. ASSUME NEW u \in ToSet(tasks)
        PROVE  /\ gs[u].holder = None /\ gs[u].root = None /\ ~gs[u].canceled
               /\ gs[u].at \notin {"unborn", "created", "destroyed"}
    <3>1. /\ frames[u].holder = None /\ frames[u].root = None /\ ~frames[u].canceled
          /\ frames[u].at \notin {"unborn", "created", "destroyed"}
      BY Facts DEF OwnerInv
    <3>2. u \in Frame \ (given \cup Wrap)
      BY <3>1, <2>1, <1>1, <1>4
    <3>3. QED
      BY <3>1, <3>2, <1>9
  <2>3. ASSUME NEW g \in Task \cup {AnyFrame}, Live(gs, g), gs[g].holder = None, ~gs[g].canceled
        PROVE  g \in ToSet(tasks)
    <3>1. g \in Frame /\ g \notin given \cup Wrap
      BY <2>3, <2>1, <1>1, <1>4, <1>6, Kinds DEF Live
    <3>2. Live(frames, g) /\ frames[g].holder = None /\ ~frames[g].canceled
      BY <2>3, <3>1, <1>9 DEF Live
    <3>3. QED
      BY <3>2, Facts DEF OwnerInv
  <2>4. ASSUME NEW u \in surfaced
        PROVE  gs[u].at \in {"done", "destroyed"} /\ ~gs[u].failed
    <3>1. frames[u].at \in {"done", "destroyed"} /\ ~frames[u].failed /\ u \in Frame
      BY <2>1, Facts DEF OwnerInv
    <3>2. QED
      BY <3>1, <2>1, <1>9
  <2>5. QED
    BY <2>2, <2>3, <2>4 DEF OwnerInv
<1>15. AwaitedLive(gs)
  <2>1. SUFFICES ASSUME NEW d \in Frame, gs[d].holder # None, gs[d].at = "done"
                 PROVE  gs[gs[d].holder].at # "awaiting"
    BY DEF AwaitedLive
  <2>2. d \notin given \cup Wrap
    BY <2>1, <1>4, <1>6, <1>9
  <2>3. gs[d] = frames[d] /\ frames[d].holder \in Frame
    BY <2>1, <2>2, <1>9, Facts DEF Promise
  <2>4. frames[frames[d].holder].at # "awaiting"
    BY <2>1, <2>3, Facts DEF AwaitedLive
  <2>5. QED
    BY <2>3, <2>4, <1>9
<1>16. Whole(gs, stack, ret, resumable, winners, tasks, surfaced)
  BY <1>11, <1>12, <1>13, <1>14, <1>15, Facts DEF Whole
<1>17. AllObey
  <2>1. \A g \in Frame : gs[g].at = IF g \in Wrap THEN "created" ELSE frames[g].at
    BY <1>9
  <2>2. \A g \in Frame : Obeys(frames, gs, g)
    BY <2>1, <1>1 DEF Obeys
  <2>3. QED
    BY <2>2, <1>1 DEF AllObey
<1>18. QED
  BY <1>1, <1>16, <1>17, WholeKept DEF IInv, TypeOK

(* AnyOf runs its next wrapper. *)
LEMMA RunWrapperStep ==
  ASSUME IInv, NEW w \in Wrap, RunWrapper(w)
  PROVE  IInv' /\ AllObey
<1> DEFINE gs == [frames EXCEPT ![w].at = "running"]
<1>1. /\ stack # <<>> /\ Head(stack) = AnyFrame /\ frames[AnyFrame].at = "running"
      /\ Head(stack) = stack[1] /\ 1 \in DOMAIN stack
      /\ AnyFrame \in Frame /\ AnyFrame \notin Wrap /\ AnyFrame \notin Task
      /\ w \in Frame /\ w # AnyFrame /\ w \notin Task /\ frames[w].at = "created"
      /\ frames' = Run(frames, w, None) /\ stack' = <<w>> \o stack
      /\ UNCHANGED <<tasks, owner, ret, resumable, surfaced, winners>>
  BY Kinds, Facts, TailFacts DEF RunWrapper, Running, Top, Push
<1>2. frames[w].root = None /\ ~frames[w].canceled /\ ~resumable /\ frames[w].parent = None
      /\ frames[w].holder = AnyFrame
  BY <1>1, Facts DEF FrameInv, FlagInv, WrapInv, ResultInv
<1>3. frames' = gs
  <2>1. frames[w] \in Promise /\ frames \in [Frame -> Promise]
    BY <1>1, Facts
  <2>2. [frames EXCEPT ![w].root = None] = frames
    BY <2>1, <1>2 DEF Promise
  <2>3. QED
    BY <2>2, <1>1, <1>2 DEF Run, Resumed, Canceled
<1>4. /\ \A g \in Frame : gs[g].at = IF g = w THEN "running" ELSE frames[g].at
      /\ \A g \in Frame : /\ gs[g].canceled = frames[g].canceled /\ gs[g].root = frames[g].root
                          /\ gs[g].parent = frames[g].parent /\ gs[g].holder = frames[g].holder
                          /\ gs[g].failed = frames[g].failed
  BY <1>1, Facts DEF Promise
<1>5. FrameInv(gs)
  BY <1>1, Facts, WrapperBegunInv
<1> HIDE DEF gs
<1>6. \A v \in Wrap : frames[v].at \notin Execution
  <2>1. SUFFICES ASSUME NEW v \in Wrap, frames[v].at \in Execution
                 PROVE  FALSE
    OBVIOUS
  <2>2. PICK i \in DOMAIN stack : i > 1 /\ stack[i] = v
    BY <2>1, <1>1, Executing, Kinds
  <2>3. BottomInv(frames, stack)
    BY <1>2, Facts DEF StackInv
  <2>4. i < 1
    BY <2>2, <2>3, <1>1 DEF BottomInv
  <2>5. QED
    BY <2>2, <2>4, Facts
<1>7. StackInv(gs, <<w>> \o stack, resumable)
  <2>1. frames[w].at \notin Execution /\ gs[w].at \in Execution
    BY <1>1, <1>4 DEF Execution
  <2>2. \A g \in Frame \ {w} : gs[g].at \in Execution <=> frames[g].at \in Execution
    BY <1>4
  <2>3. ASSUME NEW g \in Frame, frames[g].at \in Execution
        PROVE  gs[g].holder # w
    <3>1. frames[g].holder = w => frames[g].at = "created"
      BY <1>1, Facts DEF FrameInv, HolderInv
    <3>2. QED
      BY <2>3, <3>1, <1>4 DEF Execution
  <2>4. InCall(gs, Head(stack), resumable)
    BY <1>1, <1>2, <1>4 DEF InCall
  <2>5. MayPush(frames, gs, stack, resumable, w)
    BY <2>1, <2>2, <2>3, <2>4, <1>1, <1>2, <1>4, <1>6 DEF MayPush
  <2>6. QED
    BY <2>5, <1>1, Facts, StackPushed
<1>8. ResultInv(gs, ret, resumable, winners)
  <2>1. \A g \in Frame : \A state \in {"won", "calling", "unborn", "anyof"} :
          gs[g].at = state <=> frames[g].at = state
    BY <1>1, <1>4
  <2>2. \A v \in Wrap \cup {AnyFrame} : v \in Frame
    BY Kinds
  <2>3. QED
    BY <2>1, <2>2, <1>2, Facts DEF ResultInv
<1>9. OwnerInv(gs, tasks, surfaced)
  <2>1. ToSet(tasks) \subseteq Task /\ surfaced \subseteq Task
    BY Facts DEF ToSet
  <2>2. \A g \in Task \cup {AnyFrame} : g \in Frame /\ gs[g].at = frames[g].at
    BY <1>1, <1>4, Kinds
  <2>3. \A g \in Task \cup {AnyFrame} : Live(gs, g) <=> Live(frames, g)
    BY <2>2 DEF Live
  <2>4. QED
    BY <2>1, <2>2, <2>3, <1>4, Facts DEF OwnerInv
<1>10. AwaitedLive(gs)
  <2>1. \A g \in Frame : \A state \in {"done", "awaiting"} :
          gs[g].at = state <=> frames[g].at = state
    BY <1>1, <1>4
  <2>2. \A g \in Frame : frames[g].holder \in Frame \cup {None}
    BY Facts DEF Promise
  <2>3. QED
    BY <2>1, <2>2, <1>4, Facts DEF AwaitedLive
<1>11. Whole(gs, <<w>> \o stack, ret, resumable, winners, tasks, surfaced)
  BY <1>1, <1>5, <1>7, <1>8, <1>9, <1>10, Facts, PushFacts DEF Whole
<1>12. AllObey
  <2>1. \A g \in Frame : Obeys(frames, gs, g)
    BY <1>1, <1>4 DEF Obeys
  <2>2. QED
    BY <2>1, <1>3 DEF AllObey
<1>13. QED
  BY <1>1, <1>3, <1>11, <1>12, WholeKept DEF IInv, TypeOK
(* A wrapper awaits the task it was given. *)
LEMMA AwaitGivenStep ==
  ASSUME IInv, NEW w \in Wrap, AwaitGiven(w)
  PROVE  IInv' /\ AllObey
<1> DEFINE c  == CHOOSE u \in Held(frames, w) : TRUE
           hs == Run(frames, c, w)
           gs == [hs EXCEPT ![w].at = "calling"]
<1>1. /\ stack # <<>> /\ Head(stack) = w /\ frames[w].at = "running" /\ ret = None
      /\ w \in Frame /\ w # AnyFrame /\ w \notin Task /\ AnyFrame \notin Task
      /\ frames' = [Run(frames, c, RootOf(frames, w)) EXCEPT ![w].at = "calling"]
      /\ stack' = <<c>> \o stack
      /\ UNCHANGED <<tasks, owner, ret, resumable, surfaced, winners>>
  BY Kinds DEF AwaitGiven, Running, Top, Push
<1>2. RootOf(frames, w) = w /\ ~resumable
  BY <1>1, Facts DEF RootOf, FrameInv, KindInv, ResultInv
<1>3. c \in Task /\ frames[c].holder = w
  <2>1. PICK d \in Task : frames[d].holder = w
    BY <1>1, Facts DEF FrameInv, WrapInv
  <2>2. c = d
    BY <2>1, Facts, Kinds, OneHeld
  <2>3. QED
    BY <2>1, <2>2
<1> HIDE DEF c
<1>4. /\ c \in Frame /\ c \notin Wrap /\ c # AnyFrame /\ c # w
      /\ frames[c].at = "created" /\ frames[c].parent = None /\ frames[c].canceled = FALSE
  <2>1. c \in Frame /\ c \notin Wrap /\ c # AnyFrame
    BY <1>1, <1>3, Kinds
  <2>2. frames[c].at = "created"
    BY <1>1, <1>3, <2>1, Facts DEF FrameInv, HolderInv
  <2>3. frames[c].parent = None /\ frames[c].canceled = FALSE
    BY <1>1, <1>3, <2>1, <2>2, Facts, Kinds DEF FrameInv, FlagInv, Promise
  <2>4. QED
    BY <2>1, <2>2, <2>3
<1>5. /\ hs \in [Frame -> Promise] /\ \A g \in Frame \ {c} : hs[g] = frames[g]
      /\ hs[c].at \in {"running", "unwinding"} /\ hs[c].root = w
      /\ hs[c].holder = frames[c].holder /\ hs[c].parent = frames[c].parent
      /\ hs[c].canceled = frames[c].canceled
  <2>1. frames \in [Frame -> Promise] /\ c \in Frame /\ w \in Frame \cup {None}
    BY <1>1, <1>4, Facts
  <2>2. QED
    BY <2>1, RunFields
<1> HIDE DEF hs
<1>6. /\ gs \in [Frame -> Promise] /\ \A g \in Frame \ {w} : gs[g] = hs[g]
      /\ gs[w] = [frames[w] EXCEPT !.at = "calling"]
  <2>1. hs[w] = frames[w] /\ w \in Frame /\ hs \in [Frame -> Promise]
    BY <1>1, <1>4, <1>5
  <2>2. QED
    BY <2>1 DEF Promise, Execution
<1>7. /\ gs[w].at = "calling" /\ gs[w].canceled = frames[w].canceled
      /\ gs[w].parent = frames[w].parent /\ gs[w].holder = frames[w].holder
  <2>1. frames[w] \in Promise /\ gs[w] = [frames[w] EXCEPT !.at = "calling"]
    BY <1>1, <1>6, Facts
  <2> HIDE DEF gs
  <2>2. QED
    BY <2>1 DEF Promise
<1>8. frames' = gs
  BY <1>1, <1>2 DEF hs
<1> HIDE DEF gs
<1>9. /\ \A g \in Frame \ {c, w} : gs[g] = frames[g]
      /\ gs[c].at \in {"running", "unwinding"} /\ gs[c].root = w /\ gs[c].holder = w
      /\ gs[c].parent = None /\ gs[c].canceled = FALSE
  BY <1>3, <1>4, <1>5, <1>6
<1>10. FrameInv(gs)
  <2>1. Begun(frames, gs, w, c)
    BY <1>1, <1>3, <1>4, <1>6, <1>9 DEF Begun
  <2>2. QED
    BY <2>1, <1>3, Facts, BegunInv
<1>11. StackInv(gs, <<c>> \o stack, resumable)
  <2>1. frames[c].at \notin Execution /\ gs[c].at \in Execution /\ gs[w].at \in Execution
        /\ frames[w].at \in Execution
    BY <1>1, <1>4, <1>7, <1>9 DEF Execution
  <2>2. \A g \in Frame \ {c} : gs[g].at \in Execution <=> frames[g].at \in Execution
    BY <2>1, <1>9
  <2>3. \A g \in Frame : frames[g].at \in Execution =>
          /\ gs[g].parent = frames[g].parent /\ gs[g].holder = frames[g].holder
          /\ g # w => gs[g].at = frames[g].at
    BY <2>1, <1>7, <1>9
  <2>4. \A g \in Frame : frames[g].holder # c
    BY <1>3, <1>4, Facts DEF FrameInv, HolderInv
  <2>5. InCall(gs, Head(stack), resumable)
    BY <1>1, <1>7 DEF InCall
  <2>6. MayPush(frames, gs, stack, resumable, c)
    BY <2>1, <2>2, <2>3, <2>4, <2>5, <1>1, <1>4, <1>9 DEF MayPush
  <2>7. QED
    BY <2>6, <1>4, Facts, StackPushed
<1>12. ResultInv(gs, ret, resumable, winners)
  <2>1. \A v \in Wrap : v # w => gs[v] = frames[v]
    BY <1>4, <1>9, Kinds
  <2>2. gs[AnyFrame] = frames[AnyFrame]
    BY <1>1, <1>4, <1>9, Kinds
  <2>3. QED
    BY <2>1, <2>2, <1>1, <1>2, <1>7, Facts DEF ResultInv
<1>13. OwnerInv(gs, tasks, surfaced)
  <2>1. /\ ToSet(tasks) \subseteq Frame /\ surfaced \subseteq Frame
        /\ Task \cup {AnyFrame} \subseteq Frame /\ w \notin ToSet(tasks) /\ w \notin surfaced
    BY <1>1, Facts, Kinds DEF ToSet
  <2>2. c \notin ToSet(tasks)
    BY <1>4, Facts DEF OwnerInv
  <2>3. ASSUME NEW u \in ToSet(tasks)
        PROVE  gs[u] = frames[u]
    BY <2>1, <2>2, <1>9
  <2>4. ASSUME NEW g \in Task \cup {AnyFrame}, Live(gs, g), gs[g].holder = None, ~gs[g].canceled
        PROVE  g \in ToSet(tasks)
    <3>1. g \in Frame \ {c, w}
      BY <2>1, <2>4, <1>1, <1>9, Kinds
    <3>2. Live(frames, g) /\ frames[g].holder = None /\ ~frames[g].canceled
      BY <2>4, <3>1, <1>9 DEF Live
    <3>3. QED
      BY <3>2, Facts DEF OwnerInv
  <2>5. ASSUME NEW u \in surfaced
        PROVE  gs[u].at \in {"done", "destroyed"} /\ ~gs[u].failed
    <3>1. frames[u].at \in {"done", "destroyed"} /\ ~frames[u].failed
      BY Facts DEF OwnerInv
    <3>2. u \in Frame \ {c, w}
      BY <3>1, <2>1, <1>4
    <3>3. QED
      BY <3>1, <3>2, <1>9
  <2>6. QED
    BY <2>3, <2>4, <2>5, Facts DEF OwnerInv
<1>14. AwaitedLive(gs)
  <2>1. SUFFICES ASSUME NEW d \in Frame, gs[d].holder # None, gs[d].at = "done"
                 PROVE  gs[gs[d].holder].at # "awaiting"
    BY DEF AwaitedLive
  <2>2. d \in Frame \ {c, w}
    BY <2>1, <1>7, <1>9
  <2>3. gs[d] = frames[d] /\ frames[d].holder \in Frame
    BY <2>1, <2>2, <1>9, Facts DEF Promise
  <2>4. frames[frames[d].holder].at # "awaiting"
    BY <2>1, <2>3, Facts DEF AwaitedLive
  <2>5. QED
    BY <2>3, <2>4, <1>7, <1>9
<1>15. Whole(gs, <<c>> \o stack, ret, resumable, winners, tasks, surfaced)
  BY <1>4, <1>10, <1>11, <1>12, <1>13, <1>14, Facts, PushFacts DEF Whole
<1>16. AllObey
  <2>1. \A g \in Frame : Obeys(frames, gs, g)
    BY <1>1, <1>4, <1>9 DEF Obeys, Execution
  <2>2. QED
    BY <2>1, <1>8 DEF AllObey
<1>17. QED
  BY <1>1, <1>8, <1>15, <1>16, WholeKept DEF IInv, TypeOK

(* AnyOf suspends, or goes on when there is a result already. *)
LEMMA WaitForAnyStep ==
  ASSUME IInv, WaitForAny
  PROVE  IInv' /\ AllObey
<1>1. /\ stack # <<>> /\ Head(stack) = AnyFrame /\ frames[AnyFrame].at = "running"
      /\ Head(stack) = stack[1] /\ 1 \in DOMAIN stack
      /\ AnyFrame \in Frame /\ AnyFrame \notin Wrap /\ AnyFrame \notin Task
      /\ ret = None /\ UNCHANGED <<tasks, owner, ret, surfaced, winners>>
      /\ \A w \in Wrap : frames[w].at \notin {"unborn", "created"}
  BY Kinds, Facts, TailFacts DEF WaitForAny, Running, Top, AllStarted, Unborn, At
<1>2. ~resumable
  BY <1>1, Facts DEF ResultInv
<1>3. CASE frames' = [frames EXCEPT ![AnyFrame].at = "unwinding"] /\ UNCHANGED <<stack, resumable>>
  <2> DEFINE gs == [frames EXCEPT ![AnyFrame].at = "unwinding"]
  <2>1. MayMove(frames, AnyFrame, "unwinding")
    BY <1>1 DEF MayMove
  <2>2. Sound(gs, tasks, surfaced) /\ OnlyMoved(frames, gs, AnyFrame, "unwinding")
    BY <2>1, <1>1, Facts, MovedFacts
  <2> HIDE DEF gs
  <2>3. /\ FrameInv(gs) /\ AwaitedLive(gs) /\ OwnerInv(gs, tasks, surfaced)
        /\ gs[AnyFrame].at = "unwinding" /\ \A g \in Frame : g # AnyFrame => gs[g] = frames[g]
        /\ \A g \in Frame : gs[g].parent = frames[g].parent /\ gs[g].holder = frames[g].holder
    BY <2>2 DEF Sound, OnlyMoved
  <2>4. StackInv(gs, stack, resumable)
    <3>1. SameBelow(frames, gs, stack) /\ gs[AnyFrame].at \in Execution
      BY <1>1, <2>3 DEF SameBelow, Execution
    <3>2. QED
      BY <3>1, <1>1, <2>3, Facts, StackKept
  <2>5. ResultInv(gs, ret, resumable, winners)
    <3>1. \A w \in Wrap : gs[w] = frames[w]
      BY <2>3, Kinds
    <3>2. QED
      BY <3>1, <2>3, <1>2, Facts DEF ResultInv
  <2>6. Whole(gs, stack, ret, resumable, winners, tasks, surfaced)
    BY <2>3, <2>4, <2>5, Facts DEF Whole
  <2>7. \A g \in Frame : Obeys(frames, gs, g)
    BY <1>1, <2>3 DEF Obeys, Execution
  <2>8. QED
    BY <1>1, <1>3, <2>6, <2>7, WholeKept DEF IInv, TypeOK, gs, AllObey
<1>4. CASE /\ frames' = [frames EXCEPT ![AnyFrame].at = "anyof"]
           /\ resumable' = TRUE /\ stack' = Tail(stack)
  <2> DEFINE gs == [frames EXCEPT ![AnyFrame].at = "anyof"]
  <2>1. MayMove(frames, AnyFrame, "anyof")
    BY <1>1 DEF MayMove
  <2>2. Sound(gs, tasks, surfaced) /\ OnlyMoved(frames, gs, AnyFrame, "anyof")
    BY <2>1, <1>1, Facts, MovedFacts
  <2> HIDE DEF gs
  <2>3. /\ FrameInv(gs) /\ AwaitedLive(gs) /\ OwnerInv(gs, tasks, surfaced)
        /\ gs[AnyFrame].at = "anyof" /\ \A g \in Frame : g # AnyFrame => gs[g] = frames[g]
    BY <2>2 DEF Sound, OnlyMoved
  <2>4. \A w \in Wrap : frames[w].at \notin {"running", "calling"}
    <3>1. SUFFICES ASSUME NEW w \in Wrap, frames[w].at \in Execution
                   PROVE  FALSE
      BY DEF Execution
    <3>2. PICK i \in DOMAIN stack : i > 1 /\ stack[i] = w
      BY <3>1, <1>1, Executing, Kinds
    <3>3. BottomInv(frames, stack)
      BY <1>2, Facts DEF StackInv
    <3>4. i < 1
      BY <3>2, <3>3, <1>1 DEF BottomInv
    <3>5. QED
      BY <3>2, <3>4, Facts
  <2>5. StackInv(gs, Tail(stack), TRUE)
    <3>1. SameBelow(frames, gs, stack) /\ gs[AnyFrame].at \notin Execution
      BY <1>1, <2>3 DEF SameBelow, Execution
    <3>2. StackInv(gs, Tail(stack), FALSE)
          /\ \A i \in DOMAIN Tail(stack) : InCall(gs, Tail(stack)[i], FALSE)
      <4>1. StackInv(frames, stack, FALSE)
        BY <1>2, Facts
      <4>2. QED
        BY <3>1, <4>1, <1>1, Facts, StackPopped
    <3>3. \A i \in DOMAIN Tail(stack) : InCall(gs, Tail(stack)[i], TRUE)
      BY <3>2, <2>3 DEF InCall
    <3>4. QED
      BY <3>2, <3>3 DEF StackInv
  <2>6. ResultInv(gs, ret, TRUE, winners)
    <3>1. \A w \in Wrap : gs[w] = frames[w]
      BY <2>3, Kinds
    <3>2. QED
      BY <3>1, <2>3, <2>4, <1>1, Facts DEF ResultInv
  <2>7. Whole(gs, Tail(stack), ret, TRUE, winners, tasks, surfaced)
    BY <2>3, <2>5, <2>6, <1>1, Facts, TailFacts DEF Whole
  <2>8. \A g \in Frame : Obeys(frames, gs, g)
    BY <1>1, <2>3 DEF Obeys, Execution
  <2>9. QED
    BY <1>1, <1>4, <2>7, <2>8, WholeKept DEF IInv, TypeOK, gs, AllObey
<1>5. QED
  BY <1>3, <1>4 DEF WaitForAny
-----------------------------------------------------------------------------
(* The owner                                                                 *)

(* Induction, for a set. *)
LEMMA NatInd ==
  ASSUME NEW set, 0 \in set, \A n \in Nat : n \in set => n + 1 \in set
  PROVE  Nat \subseteq set
<1> SUFFICES ASSUME NEW m \in Nat, m \notin set
             PROVE  FALSE
  OBVIOUS
<1> DEFINE low  == {n \in 0 .. m : n \in set}
           next == [n \in low |-> n + 1]
<1>1. IsFiniteSet(low)
  <2>1. low \in SUBSET (0 .. m) /\ IsFiniteSet(0 .. m)
    BY FS_Interval
  <2>2. QED
    BY <2>1, FS_Subset
<1>2. \A n \in low : n + 1 \in low
  OBVIOUS
<1>3. next \in Injection(low, low)
  BY <1>2 DEF Injection, IsInjective
<1>4. next \in Surjection(low, low)
  BY <1>1, <1>3, FS_Injection
<1>5. 0 \in low
  OBVIOUS
<1>6. \E n \in low : next[n] = 0
  BY <1>4, <1>5 DEF Surjection
<1>7. QED
  BY <1>6

(* A task is put at the end of the owner's list. *)
LEMMA AppendSet ==
  ASSUME NEW seq \in Seq(Task), NEW c \in Task
  PROVE  Append(seq, c) \in Seq(Task) /\ ToSet(Append(seq, c)) = ToSet(seq) \cup {c}
<1> DEFINE n == Len(seq)  longer == Append(seq, c)
<1>1. /\ n \in Nat /\ DOMAIN seq = 1 .. n /\ DOMAIN longer = 1 .. n + 1
      /\ longer[n + 1] = c /\ \A i \in 1 .. n : longer[i] = seq[i]
      /\ longer \in Seq(Task)
  OBVIOUS
<1> HIDE DEF n, longer
<1>2. 1 .. n + 1 = 1 .. n \cup {n + 1}
  BY <1>1
<1>3. ToSet(longer) = ToSet(seq) \cup {c}
  BY <1>1, <1>2 DEF ToSet
<1>4. QED
  BY <1>1, <1>3 DEF longer

(* What std::erase_if leaves. *)
LEMMA ErasedIs ==
  ASSUME NEW seq \in Seq(Task), NEW ended
  PROVE  /\ Erased(seq, ended) \in Seq(Task)
         /\ ToSet(Erased(seq, ended)) = ToSet(seq) \ ended
<1> DEFINE n       == Len(seq)
           step(s, i) == IF seq[i] \in ended THEN s ELSE Append(s, seq[i])
           body(k) == [i \in 0 .. n |-> IF i = 0 THEN <<>> ELSE step(k[i - 1], i)]
           kept    == CHOOSE k : k = body(k)
<1>1. Erased(seq, ended) = kept[n]
  BY DEF Erased
<1>2. n \in Nat /\ \A i \in 1 .. n : seq[i] \in Task
  OBVIOUS
<1>3. \E k : k = body(k)
  <2> DEFINE upto(m) == \E k \in [0 .. m -> Seq(Task)] :
                          k[0] = <<>> /\ \A i \in 1 .. m : k[i] = step(k[i - 1], i)
             good == {m \in Nat : m <= n => upto(m)}
  <2>1. 0 \in good
    <3>1. LET k == [i \in 0 .. 0 |-> <<>>]
          IN  k \in [0 .. 0 -> Seq(Task)] /\ k[0] = <<>> /\ \A i \in 1 .. 0 : k[i] = step(k[i - 1], i)
      OBVIOUS
    <3>2. QED
      BY <3>1
  <2>2. ASSUME NEW m \in Nat, m \in good
        PROVE  m + 1 \in good
    <3> HIDE DEF upto
    <3>1. SUFFICES ASSUME m + 1 <= n
                   PROVE  upto(m + 1)
      OBVIOUS
    <3>a. upto(m)
      BY <2>2, <3>1, <1>2
    <3>2. PICK k \in [0 .. m -> Seq(Task)] :
            k[0] = <<>> /\ \A i \in 1 .. m : k[i] = step(k[i - 1], i)
      BY <3>a DEF upto
    <3> DEFINE kk == [i \in 0 .. m + 1 |-> IF i = m + 1 THEN step(k[m], m + 1) ELSE k[i]]
    <3>3. step(k[m], m + 1) \in Seq(Task)
      <4>1. k[m] \in Seq(Task) /\ seq[m + 1] \in Task
        BY <3>1, <3>2, <1>2
      <4>2. QED
        BY <4>1
    <3> HIDE DEF step
    <3>4. kk \in [0 .. m + 1 -> Seq(Task)] /\ kk[0] = <<>>
      BY <3>2, <3>3
    <3>5. \A i \in 1 .. m + 1 : kk[i] = step(kk[i - 1], i)
      <4>1. ASSUME NEW i \in 1 .. m
            PROVE  kk[i] = step(kk[i - 1], i)
        <5>1. i # m + 1 /\ i - 1 # m + 1 /\ i \in 0 .. m + 1 /\ i - 1 \in 0 .. m + 1
          OBVIOUS
        <5>2. kk[i] = k[i] /\ kk[i - 1] = k[i - 1]
          BY <5>1
        <5>3. QED
          BY <5>2, <3>2
      <4>2. kk[m + 1] = step(kk[(m + 1) - 1], m + 1)
        OBVIOUS
      <4> HIDE DEF kk
      <4>3. 1 .. m + 1 = 1 .. m \cup {m + 1}
        OBVIOUS
      <4>4. QED
        BY <4>1, <4>2, <4>3
    <3>6. QED
      BY <3>4, <3>5 DEF upto
  <2> HIDE DEF good
  <2>3. n \in good
    BY <2>1, <2>2, <1>2, NatInd
  <2>4. PICK k \in [0 .. n -> Seq(Task)] :
          k[0] = <<>> /\ \A i \in 1 .. n : k[i] = step(k[i - 1], i)
    BY <2>3, <1>2 DEF good
  <2> HIDE DEF step
  <2>5. k = body(k)
    BY <2>4, <1>2
  <2>6. QED
    BY <2>5
<1>4. kept = body(kept)
  BY <1>3
<1> HIDE DEF kept
<1>5. kept[0] = <<>> /\ \A i \in 1 .. n : kept[i] = step(kept[i - 1], i)
  <2> HIDE DEF step
  <2>1. \A i \in 0 .. n : kept[i] = IF i = 0 THEN <<>> ELSE step(kept[i - 1], i)
    <3>1. \A i \in 0 .. n : body(kept)[i] = IF i = 0 THEN <<>> ELSE step(kept[i - 1], i)
      OBVIOUS
    <3> HIDE DEF body
    <3>2. QED
      BY <3>1, <1>4
  <2>2. QED
    BY <2>1, <1>2
<1> DEFINE left(i) == {seq[j] : j \in 1 .. i} \ ended
           good    == {i \in Nat : i <= n => kept[i] \in Seq(Task) /\ ToSet(kept[i]) = left(i)}
<1>6. 0 \in good
  <2>1. ToSet(<<>>) = {} /\ left(0) = {} /\ <<>> \in Seq(Task)
    BY DEF ToSet
  <2> HIDE DEF left
  <2>2. QED
    BY <2>1, <1>5
<1>7. ASSUME NEW m \in Nat, m \in good
      PROVE  m + 1 \in good
  <2>1. SUFFICES ASSUME m + 1 <= n
                 PROVE  kept[m + 1] \in Seq(Task) /\ ToSet(kept[m + 1]) = left(m + 1)
    OBVIOUS
  <2>2. kept[m] \in Seq(Task) /\ ToSet(kept[m]) = left(m) /\ seq[m + 1] \in Task
    BY <2>1, <1>2, <1>7
  <2>3. kept[m + 1] = step(kept[m], m + 1)
    BY <2>1, <1>2, <1>5
  <2>4. {seq[j] : j \in 1 .. m + 1} = {seq[j] : j \in 1 .. m} \cup {seq[m + 1]}
    <3>1. 1 .. m + 1 = 1 .. m \cup {m + 1}
      OBVIOUS
    <3>2. QED
      BY <3>1
  <2>5. CASE seq[m + 1] \in ended
    BY <2>2, <2>3, <2>4, <2>5
  <2>6. CASE seq[m + 1] \notin ended
    <3>1. kept[m + 1] = Append(kept[m], seq[m + 1])
      BY <2>3, <2>6
    <3>2. ToSet(Append(kept[m], seq[m + 1])) = ToSet(kept[m]) \cup {seq[m + 1]}
      BY <2>2, AppendSet
    <3>3. QED
      BY <3>1, <3>2, <2>2, <2>4, <2>6
  <2>7. QED
    BY <2>5, <2>6
<1> HIDE DEF good
<1>8. n \in good
  BY <1>2, <1>6, <1>7, NatInd
<1>9. kept[n] \in Seq(Task) /\ ToSet(kept[n]) = left(n)
  BY <1>2, <1>8 DEF good
<1>10. left(n) = ToSet(seq) \ ended
  BY DEF ToSet
<1>11. QED
  BY <1>1, <1>9, <1>10
(* A step of the owner keeps the invariant. *)
LEMMA WholeIs ==
  ASSUME IInv, owner' \in BOOLEAN, ~owner' => tasks' = <<>>, tasks' \in Seq(Task),
         surfaced' \in SUBSET Task, UNCHANGED <<ret, resumable, winners>>,
         Whole(frames', stack', ret, resumable, winners, tasks', surfaced')
  PROVE  IInv'
BY DEF IInv, TypeOK, Whole, FrameInv

(* The owner is destroyed with all its tasks. *)
LEMMA DropOwnerStep ==
  ASSUME IInv, DropOwner
  PROVE  IInv'
<1> DEFINE owned == ToSet(tasks)
           gs == Dropped(frames, owned)
<1>1. /\ frames' = gs /\ tasks' = <<>> /\ owner' = FALSE
      /\ UNCHANGED <<stack, ret, resumable, surfaced, winners>>
  BY DEF DropOwner
<1>2. \A h \in owned : Droppable(frames, h)
  <2>1. SUFFICES ASSUME NEW h \in owned
                 PROVE  Droppable(frames, h)
    OBVIOUS
  <2>2. h \in Task
    BY Facts DEF ToSet
  <2>3. /\ frames[h].holder = None /\ frames[h].root = None
        /\ frames[h].at \notin {"unborn", "destroyed"}
    BY Facts DEF OwnerInv
  <2>4. QED
    BY <2>2, <2>3, Kinds DEF Droppable
<1>3. Sound(gs, <<>>, surfaced) /\ Gone(frames, gs, owned)
  <2>1. owned \in SUBSET Frame /\ <<>> \in Seq(Task)
    BY Facts, Kinds DEF ToSet
  <2>2. ToSet(<<>>) = {}
    BY DEF ToSet
  <2>3. ToSet(<<>>) = ToSet(tasks) \ owned
    BY <2>2
  <2> HIDE DEF owned
  <2>4. QED
    BY <2>1, <2>3, <1>2, Facts, DroppedSound
<1> HIDE DEF gs, owned
<1>4. StackInv(gs, stack, resumable) /\ ResultInv(gs, ret, resumable, winners)
  BY <1>3, Facts, GoneStack, GoneResult
<1>5. Whole(gs, stack, ret, resumable, winners, <<>>, surfaced)
  BY <1>3, <1>4, Facts DEF Whole, Sound
<1>6. QED
  <2>1. /\ owner' \in BOOLEAN /\ tasks' = <<>> /\ tasks' \in Seq(Task)
        /\ surfaced' \in SUBSET Task /\ UNCHANGED <<ret, resumable, winners>>
    <3>1. <<>> \in Seq(Task) /\ surfaced \in SUBSET Task
      BY Facts
    <3>2. QED
      BY <3>1, <1>1
  <2>2. Whole(frames', stack', ret, resumable, winners, tasks', surfaced')
    BY <1>1, <1>5
  <2>3. QED
    BY <2>1, <2>2, WholeIs

(* The frames are as they should be when the owner is called. *)
Calling(fs, c) ==
  /\ Sound(fs, tasks, surfaced) /\ StackInv(fs, stack, resumable)
  /\ ResultInv(fs, ret, resumable, winners)
  /\ \A t \in ToSet(tasks) : /\ Done(t) <=> fs[t].at = "done"
                             /\ Done(t) => (fs[t].failed <=> frames[t].failed)
  /\ c \in Task /\ fs[c].at = "unborn"

(* The owner erases the ended tasks and runs the new one. *)
LEMMA StartRootTaskStep ==
  ASSUME IInv, NEW fs, NEW c, Calling(fs, c), stack # <<>> => InCall(fs, Head(stack), resumable),
         StartRootTask(fs, c, stack), owner, UNCHANGED <<owner, ret, resumable, winners>>
  PROVE  IInv' /\ \A g \in Frame : Obeys(fs, frames', g)
<1> DEFINE ended == {t \in ToSet(tasks) : Done(t)}
           rest  == Erased(tasks, ended)
           es    == Dropped(fs, ended)
           bs    == Created(es, {c}, None)
           gs    == Run(bs, c, None)
<1>1. /\ tasks' = Append(rest, c) /\ frames' = gs /\ stack' = <<c>> \o stack
      /\ UNCHANGED surfaced /\ \A t \in ended : ~frames[t].failed
  BY DEF StartRootTask
<1>2. /\ Sound(fs, tasks, surfaced) /\ StackInv(fs, stack, resumable)
      /\ ResultInv(fs, ret, resumable, winners)
      /\ \A t \in ended : fs[t].at = "done" /\ ~fs[t].failed
      /\ c \in Task /\ fs[c].at = "unborn" /\ c \in Frame /\ c \notin Wrap /\ c # AnyFrame
      /\ ended \in SUBSET Frame /\ ended \in SUBSET Task
  <2>1. \A t \in ended : fs[t].at = "done" /\ ~fs[t].failed
    BY <1>1 DEF Calling
  <2>2. ended \in SUBSET Task
    BY Facts DEF ToSet
  <2> HIDE DEF ended
  <2>3. QED
    BY <2>1, <2>2, Facts, Kinds DEF Calling
<1>3. rest \in Seq(Task) /\ ToSet(rest) = ToSet(tasks) \ ended
  BY Facts, ErasedIs
<1>4. \A h \in ended : Droppable(fs, h)
  <2>1. SUFFICES ASSUME NEW h \in ended
                 PROVE  Droppable(fs, h)
    OBVIOUS
  <2>2. h \in Task /\ fs[h].at = "done" /\ fs[h].holder = None
    BY <1>2 DEF Sound, OwnerInv
  <2> HIDE DEF ended
  <2>3. QED
    BY <2>2, Kinds DEF Droppable
<1> HIDE DEF ended, rest
<1>5. Sound(es, rest, surfaced) /\ Gone(fs, es, ended)
  BY <1>2, <1>3, <1>4, DroppedSound
<1> HIDE DEF es
<1>6. StackInv(es, stack, resumable) /\ ResultInv(es, ret, resumable, winners)
  BY <1>2, <1>5, Facts, GoneStack, GoneResult
<1>7. /\ FrameInv(es) /\ es \in [Frame -> Promise] /\ OwnerInv(es, rest, surfaced)
      /\ AwaitedLive(es)
  BY <1>5 DEF Sound, FrameInv
<1>8. /\ es[c].at = "unborn" /\ es[c].holder = None /\ es[c].root = None
      /\ es[c].parent = None /\ es[c].canceled = FALSE
      /\ \A g \in Frame : es[g].holder # c
  <2>1. es[c].at = "unborn"
    BY <1>2, <1>5 DEF Gone
  <2>2. es[c].canceled \in BOOLEAN
    BY <1>2, <1>7 DEF Promise
  <2>3. QED
    BY <2>1, <2>2, <1>2, <1>7 DEF FrameInv, FlagInv, HolderInv
<1>9. /\ bs \in [Frame -> Promise] /\ \A g \in Frame \ {c} : bs[g] = es[g]
      /\ bs[c].holder = None /\ bs[c].parent = None /\ bs[c].canceled = FALSE
  <2>1. c \in Frame \cap {c} /\ None \in Frame \cup {None}
    BY <1>2
  <2>2. QED
    BY <2>1, <1>7, <1>8, CreatedFields
<1> HIDE DEF bs
<1>10. /\ gs \in [Frame -> Promise] /\ \A g \in Frame \ {c} : gs[g] = es[g]
       /\ gs[c].at = "running" /\ gs[c].root = None
       /\ gs[c].holder = None /\ gs[c].parent = None /\ gs[c].canceled = FALSE
  <2>1. c \in Frame /\ None \in Frame \cup {None} /\ bs \in [Frame -> Promise]
    BY <1>2, <1>9
  <2>2. QED
    BY <2>1, <1>9, RunFields
<1> HIDE DEF gs
<1>11. FrameInv(gs)
  BY <1>2, <1>7, <1>8, <1>10, BornInv
<1>12. StackInv(gs, <<c>> \o stack, resumable)
  <2>1. es[c].at \notin Execution /\ gs[c].at \in Execution
    BY <1>8, <1>10 DEF Execution
  <2>2. \A g \in Frame : gs[g].holder # c
    BY <1>2, <1>8, <1>10, Kinds
  <2>3. stack # <<>> => InCall(gs, Head(stack), resumable)
    <3>1. SUFFICES ASSUME stack # <<>>
                   PROVE  InCall(gs, Head(stack), resumable)
      OBVIOUS
    <3>2. Head(stack) \in Frame /\ InCall(fs, Head(stack), resumable)
      BY <3>1, Facts, TailFacts
    <3>3. es[Head(stack)].at = fs[Head(stack)].at /\ Head(stack) # c
      BY <3>2, <1>2, <1>5 DEF InCall, Gone
    <3>4. QED
      BY <3>2, <3>3, <1>10 DEF InCall
  <2>4. \A g \in Frame : es[g].at \in Execution => g # c
    BY <2>1
  <2>5. MayPush(es, gs, stack, resumable, c)
    BY <2>1, <2>2, <2>3, <2>4, <1>2, <1>10 DEF MayPush
  <2>6. QED
    BY <2>5, <1>2, <1>6, Facts, StackPushed
<1>13. ResultInv(gs, ret, resumable, winners)
  <2>1. \A g \in Wrap \cup {AnyFrame} : gs[g].at = es[g].at
    BY <1>2, <1>10, Kinds
  <2>2. QED
    BY <2>1, <1>6, ResultKept
<1>14. OwnerInv(gs, Append(rest, c), surfaced)
  <2>1. /\ ToSet(Append(rest, c)) = ToSet(rest) \cup {c}
        /\ ToSet(rest) \subseteq Frame /\ surfaced \subseteq Frame
        /\ Task \cup {AnyFrame} \subseteq Frame
    <3>1. ToSet(Append(rest, c)) = ToSet(rest) \cup {c}
      BY <1>2, <1>3, AppendSet
    <3>2. ToSet(rest) \subseteq Frame
      BY <1>3, Kinds DEF ToSet
    <3>3. QED
      BY <3>1, <3>2, Facts, Kinds
  <2>2. c \notin ToSet(rest) /\ c \notin surfaced
    BY <1>7, <1>8 DEF OwnerInv
  <2>3. \A u \in ToSet(Append(rest, c)) :
          /\ gs[u].holder = None /\ gs[u].root = None /\ ~gs[u].canceled
          /\ gs[u].at \notin {"unborn", "created", "destroyed"}
    BY <2>1, <2>2, <1>7, <1>10 DEF OwnerInv
  <2>4. ASSUME NEW g \in Task \cup {AnyFrame}, Live(gs, g), gs[g].holder = None, ~gs[g].canceled
        PROVE  g \in ToSet(Append(rest, c))
    <3>1. CASE g = c
      BY <3>1, <2>1
    <3>2. CASE g # c
      <4>1. Live(es, g) /\ es[g].holder = None /\ ~es[g].canceled
        BY <2>1, <2>4, <3>2, <1>10 DEF Live
      <4>2. QED
        BY <4>1, <2>1, <1>7 DEF OwnerInv
    <3>3. QED
      BY <3>1, <3>2
  <2>5. \A u \in surfaced : gs[u].at \in {"done", "destroyed"} /\ ~gs[u].failed
    BY <2>1, <2>2, <1>7, <1>10 DEF OwnerInv
  <2>6. QED
    BY <2>3, <2>4, <2>5 DEF OwnerInv
<1>15. AwaitedLive(gs)
  <2>1. SUFFICES ASSUME NEW d \in Frame, gs[d].holder # None, gs[d].at = "done"
                 PROVE  gs[gs[d].holder].at # "awaiting"
    BY DEF AwaitedLive
  <2>2. gs[d] = es[d] /\ es[d].holder \in Frame
    BY <2>1, <1>7, <1>10 DEF Promise
  <2>3. es[es[d].holder].at # "awaiting"
    BY <2>1, <2>2, <1>7 DEF AwaitedLive
  <2>4. QED
    BY <2>2, <2>3, <1>8, <1>10
<1>16. Whole(gs, <<c>> \o stack, ret, resumable, winners, Append(rest, c), surfaced)
  BY <1>2, <1>11, <1>12, <1>13, <1>14, <1>15, Facts, PushFacts DEF Whole
<1>17. Append(rest, c) \in Seq(Task)
  BY <1>2, <1>3, AppendSet
<1>18. ASSUME NEW g \in Frame
       PROVE  Obeys(fs, gs, g)
  <2>1. CASE g = c
    <3>1. ~Canceled(gs, c)
      BY <1>10 DEF Canceled
    <3>2. QED
      BY <2>1, <3>1, <1>2 DEF Obeys
  <2>2. CASE g # c
    <3>1. \/ gs[g].at = fs[g].at
          \/ /\ fs[g].at = "done" /\ gs[g].at = "destroyed"
             /\ ~fs[g].failed \/ fs[g].holder # None
      BY <2>2, <1>2, <1>5, <1>10 DEF Gone
    <3>2. QED
      BY <3>1 DEF Obeys
  <2>3. QED
    BY <2>1, <2>2
<1>19. QED
  BY <1>1, <1>16, <1>17, <1>18, Facts, WholeIs
(* That an exception is taken out of a frame is of no concern to the frames. *)
LEMMA ClearedInv ==
  ASSUME NEW fs, FrameInv(fs), NEW t \in Frame
  PROVE  LET gs == [fs EXCEPT ![t].failed = FALSE]
         IN  /\ FrameInv(gs) /\ ~gs[t].failed
             /\ \A g \in Frame : g # t => gs[g] = fs[g]
             /\ \A g \in Frame : /\ gs[g].at = fs[g].at /\ gs[g].canceled = fs[g].canceled
                                 /\ gs[g].root = fs[g].root /\ gs[g].parent = fs[g].parent
                                 /\ gs[g].holder = fs[g].holder
<1> DEFINE gs == [fs EXCEPT ![t].failed = FALSE]
<1>0. fs \in [Frame -> Promise] /\ \A g \in Frame : fs[g].holder \in Frame \cup {None}
  BY DEF FrameInv, Promise
<1>1. /\ gs \in [Frame -> Promise] /\ ~gs[t].failed
      /\ \A g \in Frame : g # t => gs[g] = fs[g]
      /\ \A g \in Frame : /\ gs[g].at = fs[g].at /\ gs[g].canceled = fs[g].canceled
                          /\ gs[g].root = fs[g].root /\ gs[g].parent = fs[g].parent
                          /\ gs[g].holder = fs[g].holder
  BY <1>0 DEF Promise
<1> HIDE DEF gs
<1>2. /\ \A g \in Frame : Live(gs, g) <=> Live(fs, g)
      /\ \A g \in Frame : RootOf(gs, g) = RootOf(fs, g)
  BY <1>1 DEF Live, RootOf
<1>3. KindInv(gs) /\ FlagInv(gs)
  BY <1>1, Kinds DEF FrameInv, KindInv, FlagInv
<1>4. HolderInv(gs)
  BY <1>1, Kinds DEF FrameInv, HolderInv
<1>5. AwaitInv(gs)
  <2>1. \A p, c \in Frame : Awaits(fs, p, c) => Awaits(gs, p, c)
    BY <1>1, <1>2 DEF Awaits
  <2>2. QED
    BY <2>1, <1>1 DEF FrameInv, AwaitInv
<1>6. AwaitedInv(gs)
  BY <1>0, <1>1, <1>2, Kinds DEF FrameInv, AwaitedInv
<1>7. Forest(gs)
  BY <1>1 DEF FrameInv, Forest
<1>8. WrapInv(gs)
  BY <1>1, Kinds DEF FrameInv, WrapInv
<1>9. GivenInv(gs)
  <2>1. {g \in Frame : gs[g].holder = AnyFrame} = {g \in Frame : fs[g].holder = AnyFrame}
    BY <1>1
  <2>2. QED
    BY <2>1, <1>1, Kinds DEF FrameInv, GivenInv
<1>10. FrameInv(gs)
  BY <1>1, <1>3, <1>4, <1>5, <1>6, <1>7, <1>8, <1>9 DEF FrameInv
<1>11. QED
  BY <1>1, <1>10 DEF gs

(* The owner rethrows the exception of an ended task. *)
LEMMA RethrowStep ==
  ASSUME IInv, NEW fs, NEW c, Calling(fs, c), RethrowExceptions(fs, c),
         UNCHANGED <<tasks, stack, owner, ret, resumable, winners>>
  PROVE  IInv' /\ \A g \in Frame : Obeys(fs, frames', g)
<1>1. PICK t \in ToSet(tasks) :
        /\ Done(t) /\ surfaced' = surfaced \cup {t}
        /\ frames' = [Dropped(Created(fs, {c}, None), {c}) EXCEPT ![t].failed = FALSE]
  BY DEF RethrowExceptions, Rethrow
<1> DEFINE bs == Created(fs, {c}, None)
           es == Dropped(bs, {c})
           gs == [es EXCEPT ![t].failed = FALSE]
<1>2. /\ Sound(fs, tasks, surfaced) /\ StackInv(fs, stack, resumable)
      /\ ResultInv(fs, ret, resumable, winners)
      /\ fs[t].at = "done" /\ t \in Frame /\ t \in Task
      /\ c \in Task /\ fs[c].at = "unborn" /\ c \in Frame /\ c \notin Wrap /\ c # AnyFrame
      /\ frames' = gs /\ c # t
  BY <1>1, Facts, Kinds DEF Calling, ToSet
<1>3. /\ FrameInv(fs) /\ fs \in [Frame -> Promise] /\ OwnerInv(fs, tasks, surfaced)
      /\ AwaitedLive(fs) /\ tasks \in Seq(Task) /\ surfaced \in SUBSET Task
      /\ \A g \in Frame : fs[g].holder \in Frame \cup {None}
  BY <1>2 DEF Sound, FrameInv, Promise
<1>4. /\ fs[c].root = None /\ fs[c].parent = None /\ ~fs[c].canceled
      /\ c \notin ToSet(tasks) /\ c \notin surfaced /\ \A g \in Frame : fs[g].holder # c
  BY <1>2, <1>3 DEF FrameInv, FlagInv, HolderInv, OwnerInv
<1>5. /\ bs \in [Frame -> Promise] /\ \A g \in Frame \ {c} : bs[g] = fs[g]
      /\ bs[c].at = "created" /\ bs[c].holder = None /\ bs[c].root = None
      /\ bs[c].parent = None /\ bs[c].failed = fs[c].failed
  <2>1. c \in Frame \cap {c} /\ None \in Frame \cup {None}
    BY <1>2
  <2>2. QED
    BY <2>1, <1>3, <1>4, CreatedFields
<1> HIDE DEF bs
<1>6. Sound(bs, tasks, surfaced)
  <2>1. FrameInv(bs)
    BY <1>2, <1>3, <1>5, BornInv
  <2>2. AwaitedLive(bs)
    <3>1. SUFFICES ASSUME NEW d \in Frame, bs[d].holder # None, bs[d].at = "done"
                   PROVE  bs[bs[d].holder].at # "awaiting"
      BY DEF AwaitedLive
    <3>2. bs[d] = fs[d] /\ fs[d].holder \in Frame /\ fs[d].holder # c
      BY <3>1, <1>3, <1>4, <1>5
    <3>3. fs[fs[d].holder].at # "awaiting"
      BY <3>1, <3>2, <1>3 DEF AwaitedLive
    <3>4. QED
      BY <3>2, <3>3, <1>5
  <2>3. OwnerInv(bs, tasks, surfaced)
    <3>1. ToSet(tasks) \subseteq Frame /\ surfaced \subseteq Frame /\ Task \cup {AnyFrame} \subseteq Frame
      BY <1>3, Kinds DEF ToSet
    <3>2. ASSUME NEW g \in Task \cup {AnyFrame}, Live(bs, g), bs[g].holder = None, ~bs[g].canceled
          PROVE  g \in ToSet(tasks)
      <4>1. g # c /\ g \in Frame
        BY <3>1, <3>2, <1>5 DEF Live
      <4>2. Live(fs, g) /\ fs[g].holder = None /\ ~fs[g].canceled
        BY <3>2, <4>1, <1>5 DEF Live
      <4>3. QED
        BY <4>2, <1>3 DEF OwnerInv
    <3>3. QED
      BY <3>1, <3>2, <1>3, <1>4, <1>5 DEF OwnerInv
  <2>4. QED
    BY <2>1, <2>2, <2>3, <1>3 DEF Sound
<1>7. Sound(es, tasks, surfaced) /\ Gone(bs, es, {c})
  <2>1. Droppable(bs, c)
    BY <1>2, <1>5, Kinds DEF Droppable
  <2>2. ToSet(tasks) = ToSet(tasks) \ {c} /\ {c} \in SUBSET Frame
    BY <1>2, <1>4
  <2>3. QED
    BY <2>1, <2>2, <1>3, <1>6, DroppedSound
<1> HIDE DEF es
<1>8. /\ FrameInv(es) /\ es \in [Frame -> Promise] /\ OwnerInv(es, tasks, surfaced)
      /\ AwaitedLive(es)
  BY <1>7 DEF Sound, FrameInv
<1>9. /\ FrameInv(gs) /\ ~gs[t].failed
      /\ \A g \in Frame : g # t => gs[g] = es[g]
      /\ \A g \in Frame : /\ gs[g].at = es[g].at /\ gs[g].canceled = es[g].canceled
                          /\ gs[g].root = es[g].root /\ gs[g].parent = es[g].parent
                          /\ gs[g].holder = es[g].holder
  BY <1>2, <1>8, ClearedInv
<1> HIDE DEF gs
<1>10. /\ \A g \in Frame : gs[g].parent = fs[g].parent /\ gs[g].holder \in {fs[g].holder, None}
       /\ \A g \in Frame : \/ gs[g].at = fs[g].at
                           \/ /\ fs[g].at = "done" /\ gs[g].at = "destroyed"
                              /\ fs[g].holder # None
                           \/ fs[g].at = "unborn" /\ gs[g].at = "created" /\ g = c
  <2>1. ASSUME NEW g \in Frame \ {c}
        PROVE  /\ gs[g].parent = fs[g].parent /\ gs[g].holder \in {fs[g].holder, None}
               /\ \/ gs[g].at = fs[g].at
                  \/ /\ fs[g].at = "done" /\ gs[g].at = "destroyed"
                     /\ fs[g].holder # None
    <3>1. bs[g] = fs[g]
      BY <1>5
    <3>2. /\ es[g].parent = bs[g].parent /\ es[g].holder \in {bs[g].holder, None}
          /\ \/ es[g].at = bs[g].at
             \/ bs[g].at = "done" /\ es[g].at = "destroyed" /\ bs[g].holder # None
      BY <1>7 DEF Gone
    <3>3. gs[g].parent = es[g].parent /\ gs[g].holder = es[g].holder /\ gs[g].at = es[g].at
      BY <1>9
    <3>4. QED
      BY <3>1, <3>2, <3>3
  <2>2. gs[c].parent = fs[c].parent /\ gs[c].holder = None /\ gs[c].at = "created"
    BY <1>2, <1>4, <1>5, <1>7, <1>9 DEF Gone
  <2>3. QED
    BY <2>1, <2>2, <1>2
<1>11. StackInv(gs, stack, resumable)
  <2>1. ASSUME NEW g \in Frame
        PROVE  /\ gs[g].at \in Execution <=> fs[g].at \in Execution
               /\ fs[g].at \in Execution => gs[g].at = fs[g].at
    BY <1>10 DEF Execution
  <2>2. QED
    BY <2>1, <1>2, <1>10, Facts, StackSame
<1>12. ResultInv(gs, ret, resumable, winners)
  <2>1. \A g \in Wrap \cup {AnyFrame} :
          g \in Frame /\ (gs[g].at = fs[g].at \/ (fs[g].at = "done" /\ gs[g].at = "destroyed"))
    <3>1. \A g \in Wrap \cup {AnyFrame} : g \in Frame /\ g # c
      BY <1>2, Kinds
    <3>2. QED
      BY <3>1, <1>10
  <2>2. QED
    BY <2>1, <1>2 DEF ResultInv
<1>13. OwnerInv(gs, tasks, surfaced \cup {t})
  <2>1. ToSet(tasks) \subseteq Frame /\ surfaced \subseteq Frame /\ Task \cup {AnyFrame} \subseteq Frame
    BY <1>3, Kinds DEF ToSet
  <2>2. \A u \in ToSet(tasks) : /\ gs[u].holder = None /\ gs[u].root = None /\ ~gs[u].canceled
                                /\ gs[u].at \notin {"unborn", "created", "destroyed"}
    BY <2>1, <1>8, <1>9 DEF OwnerInv
  <2>3. ASSUME NEW g \in Task \cup {AnyFrame}, Live(gs, g), gs[g].holder = None, ~gs[g].canceled
        PROVE  g \in ToSet(tasks)
    <3>1. Live(es, g) /\ es[g].holder = None /\ ~es[g].canceled
      BY <2>1, <2>3, <1>9 DEF Live
    <3>2. QED
      BY <3>1, <1>8 DEF OwnerInv
  <2>4. gs[t].at \in {"done", "destroyed"}
    BY <1>2, <1>10
  <2>5. \A u \in surfaced : gs[u].at \in {"done", "destroyed"} /\ ~gs[u].failed
    BY <2>1, <1>8, <1>9 DEF OwnerInv
  <2>6. QED
    BY <2>2, <2>3, <2>4, <2>5, <1>9 DEF OwnerInv
<1>14. AwaitedLive(gs)
  <2>1. \A g \in Frame : es[g].holder \in Frame \cup {None}
    BY <1>8 DEF Promise
  <2>2. QED
    BY <2>1, <1>8, <1>9 DEF AwaitedLive
<1>15. Whole(gs, stack, ret, resumable, winners, tasks, surfaced \cup {t})
  BY <1>9, <1>11, <1>12, <1>13, <1>14, Facts DEF Whole
<1>16. owner' \in BOOLEAN /\ (~owner' => tasks' = <<>>) /\ surfaced \cup {t} \in SUBSET Task
  BY <1>2, <1>3 DEF IInv, TypeOK
<1>17. \A g \in Frame : Obeys(fs, gs, g)
  BY <1>10 DEF Obeys
<1>18. QED
  BY <1>1, <1>2, <1>3, <1>15, <1>16, <1>17, WholeIs

(* A task that starts is one that was not born. *)
LEMMA NewTaskIs ==
  ASSUME Unborn \cap Task # {}
  PROVE  NewTask \in Task /\ frames[NewTask].at = "unborn"
<1>1. NewTask \in Task /\ NewTask \in Unborn
  BY DEF NewTask
<1>2. QED
  BY <1>1 DEF Unborn, At

(* A task is started from outside of every coroutine. *)
LEMMA StartStep ==
  ASSUME IInv, Start
  PROVE  IInv' /\ AllObey
<1>1. /\ stack = <<>> /\ owner /\ UNCHANGED <<owner, ret, resumable, winners>>
      /\ NewTask \in Task /\ frames[NewTask].at = "unborn"
  BY NewTaskIs DEF Start
<1>2. Calling(frames, NewTask)
  BY <1>1, Facts DEF Calling, Done
<1>3. CASE StartRootTask(frames, NewTask, <<>>)
  BY <1>1, <1>2, <1>3, StartRootTaskStep DEF AllObey
<1>4. CASE RethrowExceptions(frames, NewTask) /\ UNCHANGED <<tasks, stack>>
  BY <1>1, <1>2, <1>4, RethrowStep DEF AllObey
<1>5. QED
  BY <1>3, <1>4 DEF Start

(* A task calls the owner. *)
LEMMA CallingNested ==
  ASSUME IInv, NEW t \in Task, Running(t), NEW at \in {"starting", "unwinding"},
         NEW c \in Task, frames[c].at = "unborn"
  PROVE  LET fs == [frames EXCEPT ![t].at = at]
         IN  /\ Calling(fs, c) /\ stack # <<>> /\ fs[Head(stack)].at = at
             /\ \A gs : \A g \in Frame : Obeys(fs, gs, g) => Obeys(frames, gs, g)
<1> DEFINE fs == [frames EXCEPT ![t].at = at]
<1>1. /\ stack # <<>> /\ Head(stack) = t /\ frames[t].at = "running" /\ t \in Frame
      /\ t \notin Wrap /\ t # AnyFrame /\ c \in Frame /\ c # t
  BY Kinds DEF Running, Top
<1>2. MayMove(frames, t, at)
  BY <1>1 DEF MayMove
<1>3. Sound(fs, tasks, surfaced) /\ OnlyMoved(frames, fs, t, at)
  BY <1>1, <1>2, Facts, MovedFacts
<1> HIDE DEF fs
<1>4. /\ fs[t].at = at /\ \A g \in Frame : g # t => fs[g] = frames[g]
      /\ \A g \in Frame : fs[g].parent = frames[g].parent /\ fs[g].holder = frames[g].holder
  BY <1>3 DEF OnlyMoved
<1>5. StackInv(fs, stack, resumable)
  <2>1. SameBelow(frames, fs, stack) /\ fs[t].at \in Execution
    BY <1>1, <1>4 DEF SameBelow, Execution
  <2>2. QED
    BY <2>1, <1>1, <1>4, Facts, StackKept
<1>6. ResultInv(fs, ret, resumable, winners)
  BY <1>1, <1>4, Facts, ResultKept, Kinds
<1>7. \A u \in ToSet(tasks) : /\ Done(u) <=> fs[u].at = "done"
                              /\ Done(u) => (fs[u].failed <=> frames[u].failed)
  <2>1. ToSet(tasks) \subseteq Frame
    BY Facts, Kinds DEF ToSet
  <2>2. QED
    BY <2>1, <1>1, <1>4 DEF Done
<1>8. Calling(fs, c)
  BY <1>1, <1>3, <1>4, <1>5, <1>6, <1>7 DEF Calling
<1>9. ASSUME NEW gs, NEW g \in Frame, Obeys(fs, gs, g)
      PROVE  Obeys(frames, gs, g)
  <2>1. CASE g = t
    BY <2>1, <1>1 DEF Obeys, Execution
  <2>2. CASE g # t
    <3>1. fs[g] = frames[g]
      BY <2>2, <1>4
    <3>2. Canceled(fs, g) <=> Canceled(frames, g)
      <4>1. \A h \in Frame : fs[h].canceled = frames[h].canceled
        BY <1>3 DEF OnlyMoved
      <4>2. frames[g].root \in Frame \cup {None}
        BY Facts DEF Promise
      <4>3. QED
        BY <3>1, <4>1, <4>2 DEF Canceled
    <3>3. QED
      BY <3>1, <3>2, <1>9 DEF Obeys
  <2>3. QED
    BY <2>1, <2>2
<1>10. QED
  BY <1>1, <1>4, <1>8, <1>9 DEF fs

(* A task starts a root task. *)
LEMMA StartNestedStep ==
  ASSUME IInv, NEW t \in Task, StartNested(t)
  PROVE  IInv' /\ AllObey
<1>1. /\ Running(t) /\ owner /\ UNCHANGED <<owner, ret, resumable, winners>>
      /\ NewTask \in Task /\ frames[NewTask].at = "unborn"
  BY NewTaskIs DEF StartNested
<1>2. CASE StartRootTask([frames EXCEPT ![t].at = "starting"], NewTask, stack)
  <2> DEFINE fs == [frames EXCEPT ![t].at = "starting"]
  <2>1. /\ Calling(fs, NewTask) /\ fs[Head(stack)].at = "starting"
        /\ \A gs : \A g \in Frame : Obeys(fs, gs, g) => Obeys(frames, gs, g)
    BY <1>1, CallingNested
  <2> HIDE DEF fs
  <2>2. InCall(fs, Head(stack), resumable)
    BY <2>1 DEF InCall
  <2>3. StartRootTask(fs, NewTask, stack)
    BY <1>2 DEF fs
  <2>4. IInv' /\ \A g \in Frame : Obeys(fs, frames', g)
    BY <2>1, <2>2, <2>3, <1>1, StartRootTaskStep
  <2>5. QED
    BY <2>1, <2>4 DEF AllObey
<1>3. CASE /\ RethrowExceptions([frames EXCEPT ![t].at = "unwinding"], NewTask)
           /\ UNCHANGED <<tasks, stack>>
  <2> DEFINE fs == [frames EXCEPT ![t].at = "unwinding"]
  <2>1. /\ Calling(fs, NewTask)
        /\ \A gs : \A g \in Frame : Obeys(fs, gs, g) => Obeys(frames, gs, g)
    BY <1>1, CallingNested
  <2> HIDE DEF fs
  <2>2. RethrowExceptions(fs, NewTask)
    BY <1>3 DEF fs
  <2>3. IInv' /\ \A g \in Frame : Obeys(fs, frames', g)
    BY <2>1, <2>2, <1>1, <1>3, RethrowStep
  <2>4. QED
    BY <2>1, <2>3 DEF AllObey
<1>4. QED
  BY <1>2, <1>3 DEF StartNested
(* The invariant holds at the start. *)
LEMMA InitInv ==
  ASSUME Init
  PROVE  IInv
<1>1. /\ \A f \in Frame : /\ frames[f].at = "unborn" /\ frames[f].canceled = FALSE
                          /\ frames[f].root = None /\ frames[f].parent = None
                          /\ frames[f].holder = None
      /\ frames \in [Frame -> Promise]
      /\ stack = <<>> /\ tasks = <<>> /\ owner = TRUE /\ ret = None /\ resumable = FALSE
      /\ surfaced = {} /\ winners = {}
  BY DEF Init, Promise
<1>2. TypeOK
  <2>1. stack \in Seq(Frame) /\ tasks \in Seq(Task)
    BY <1>1
  <2>2. QED
    BY <2>1, <1>1 DEF TypeOK
<1>3. \A f \in Frame : ~Live(frames, f)
  BY <1>1 DEF Live
<1>4. KindInv(frames) /\ FlagInv(frames) /\ HolderInv(frames)
  BY <1>1, Kinds DEF KindInv, FlagInv, HolderInv
<1>5. AwaitInv(frames) /\ AwaitedInv(frames) /\ WrapInv(frames) /\ GivenInv(frames)
  BY <1>1, <1>3, Kinds DEF AwaitInv, AwaitedInv, WrapInv, GivenInv
<1>6. Forest(frames) /\ AwaitedLive(frames)
  BY <1>1, Kinds DEF Forest, AwaitedLive
<1>7. StackInv(frames, stack, resumable)
  <2>1. ToSet(<<>>) = {} /\ DOMAIN stack = {}
    BY <1>1 DEF ToSet
  <2>2. {f \in Frame : frames[f].at \in Execution} = {}
    BY <1>1 DEF Execution
  <2>3. QED
    BY <2>1, <2>2, <1>1 DEF StackInv, BottomInv
<1>8. ResultInv(frames, ret, resumable, winners)
  BY <1>1, Kinds DEF ResultInv
<1>9. OwnerInv(frames, tasks, surfaced)
  <2>1. ToSet(tasks) = {}
    BY <1>1 DEF ToSet
  <2>2. QED
    BY <2>1, <1>1, <1>3, Kinds DEF OwnerInv
<1>10. FrameInv(frames)
  BY <1>1, <1>4, <1>5, <1>6 DEF FrameInv
<1>11. QED
  BY <1>2, <1>6, <1>7, <1>8, <1>9, <1>10 DEF IInv, Whole, TypeOK

(* Every step keeps the invariant. *)
LEMMA NextInv ==
  ASSUME IInv, [Next]_vars
  PROVE  IInv' /\ (AllObey \/ DropOwner)
<1>1. CASE Start
  BY <1>1, StartStep
<1>2. CASE DropOwner
  BY <1>2, DropOwnerStep
<1>3. ASSUME NEW t \in Task, ResumeLeaf(t)
      PROVE  IInv' /\ (AllObey \/ DropOwner)
  BY <1>3, ResumeLeafStep
<1>4. CASE Step
  <2>1. ASSUME NEW t \in Task,
               \/ Suspend(t) \/ Return(t) \/ Throw(t) \/ Await(t)
               \/ StartNested(t) \/ NestedStarted(t) \/ AwaitAnyOf(t)
        PROVE  IInv' /\ (AllObey \/ DropOwner)
    BY <2>1, SuspendStep, ReturnStep, ThrowStep, AwaitStep, StartNestedStep, NestedStartedStep,
       AwaitAnyOfStep
  <2>2. ASSUME NEW t \in Task \cup Wrap, CallReturned(t)
        PROVE  IInv' /\ (AllObey \/ DropOwner)
    BY <2>2, CallReturnedStep
  <2>3. CASE CreateArray \/ WaitForAny \/ EndAnyOf
    BY <2>3, CreateArrayStep, WaitForAnyStep, EndAnyOfStep
  <2>4. ASSUME NEW w \in Wrap,
               RunWrapper(w) \/ ShortCircuit(w) \/ AwaitGiven(w) \/ Emplace(w) \/ WrapperEnds(w)
        PROVE  IInv' /\ (AllObey \/ DropOwner)
    BY <2>4, RunWrapperStep, ShortCircuitStep, AwaitGivenStep, EmplaceStep, WrapperEndsStep
  <2>5. QED
    BY <1>4, <2>1, <2>2, <2>3, <2>4 DEF Step
<1>5. CASE UNCHANGED vars
  BY <1>5 DEF vars, IInv, TypeOK, AllObey, Obeys
<1>6. QED
  BY <1>1, <1>2, <1>3, <1>4, <1>5 DEF Next

(***************************************************************************)
(* Every step of the coroutines keeps the promises of the frames, the stack *)
(* and what the owner and AnyOf remember in agreement.                      *)
(***************************************************************************)
THEOREM InductiveInvariant == Spec => []IInv
<1>1. Init => IInv
  BY InitInv
<1>2. IInv /\ [Next]_vars => IInv'
  BY NextInv
<1>3. QED
  BY <1>1, <1>2, PTL DEF Spec

(* Promises, stack and owner have their types in every state. *)
THEOREM TypeCorrect == Spec => []TypeOK
<1>1. IInv => TypeOK
  BY DEF IInv
<1>2. QED
  BY <1>1, InductiveInvariant, PTL


-----------------------------------------------------------------------------
(* What the invariant says of the handles                                    *)

(* Started, as the proofs split it. *)
LEMMA StartedIs ==
  ASSUME NEW f \in Frame
  PROVE  Started(f) <=> Live(frames, f)
BY DEF Started, Live, Suspension, Execution

(* A stack without repetition has as many frames as places. *)
LEMMA StackCounts ==
  ASSUME NEW st \in Seq(Frame), \A i, j \in DOMAIN st : st[i] = st[j] => i = j
  PROVE  Cardinality(ToSet(st)) = Len(st)
<1>1. /\ Len(st) \in Nat /\ DOMAIN st = 1 .. Len(st)
      /\ st \in [1 .. Len(st) -> ToSet(st)]
  BY DEF ToSet
<1>2. st \in Bijection(1 .. Len(st), ToSet(st))
  BY <1>1 DEF Bijection, Injection, Surjection, IsInjective, ToSet
<1>3. QED
  BY <1>1, <1>2, FS_CountingElements DEF ExistsBijection

(* HandlesLive is what the invariant says of links and calls. *)
LEMMA HandlesFollow ==
  ASSUME IInv
  PROVE  HandlesLive
<1>1. TypeOK
  BY DEF IInv
<1>2. ToSet(stack) = {f \in Frame : frames[f].at \in Execution}
  BY Facts DEF StackInv
<1>3. Cardinality(ToSet(stack)) = Len(stack)
  BY Facts, StackCounts DEF StackInv
<1>4. ASSUME NEW f \in Frame, Started(f), frames[f].root # None
      PROVE  Started(frames[f].root)
  <2>1. RootOf(frames, f) = frames[f].root
    BY <1>4 DEF RootOf
  <2>2. QED
    BY <2>1, <1>4, Facts, RootLive, StartedIs
<1>5. ASSUME NEW f \in Frame, Started(f), frames[f].parent # None
      PROVE  frames[f].holder = frames[f].parent /\ frames[frames[f].parent].at = "awaiting"
  BY <1>5, Facts, ParentAwaits, StartedIs
<1>6. ASSUME NEW p \in Frame, frames[p].at = "awaiting"
      PROVE  \E c \in Held(frames, p) :
               Started(c) /\ frames[c].parent = p /\ ~frames[c].canceled
  <2>1. PICK c \in Frame : Awaits(frames, p, c) /\ frames[c].parent = p
    BY <1>6, Facts DEF FrameInv, AwaitInv
  <2>2. frames[c].holder = p /\ p # None
    BY <2>1, Kinds DEF Awaits
  <2>3. Live(frames, c)
    BY <2>1, <2>2, <1>6, Facts DEF Awaits, AwaitedLive
  <2>4. ~frames[c].canceled
    BY <2>2, Facts DEF FrameInv, FlagInv
  <2>5. QED
    BY <2>1, <2>2, <2>3, <2>4, StartedIs DEF Held
<1>7. ASSUME NEW w \in Wrap, Started(w), ~frames[w].canceled
      PROVE  Started(AnyFrame)
  <2>1. Live(frames, w) /\ w \in Frame /\ AnyFrame \in Frame /\ w \notin Task
    BY <1>7, StartedIs, Kinds
  <2>2. frames[w].holder = AnyFrame
    BY <2>1, <1>7, Facts DEF FrameInv, WrapInv, Live
  <2>3. frames[AnyFrame].at \in {"running", "anyof", "unwinding"}
    BY <2>1, <2>2, Facts DEF FrameInv, HolderInv
  <2>4. QED
    BY <2>1, <2>3, StartedIs DEF Live
<1>8. QED
  BY <1>1, <1>2, <1>3, <1>4, <1>5, <1>6, <1>7 DEF HandlesLive

(***************************************************************************)
(* Every coroutine_handle and pointer to a flag or to AnyOf's locals that   *)
(* will still be used leads to a live frame in the right position.          *)
(***************************************************************************)
THEOREM HandlesAreLive == Spec => []HandlesLive
<1>1. IInv => HandlesLive
  BY HandlesFollow
<1>2. QED
  BY <1>1, InductiveInvariant, PTL
-----------------------------------------------------------------------------
(* What a step may do                                                        *)

(* Only a wrapper that has its task's result stores one. *)
LEMMA WinnersChange ==
  ASSUME [Next]_vars, winners' # winners
  PROVE  \E w \in Wrap : Emplace(w)
<1>1. ASSUME NEW t \in Task,
             \/ Suspend(t) \/ Return(t) \/ Throw(t) \/ Await(t)
             \/ StartNested(t) \/ NestedStarted(t) \/ AwaitAnyOf(t) \/ ResumeLeaf(t)
      PROVE  FALSE
  BY <1>1 DEF Suspend, Return, Throw, Await, StartNested, NestedStarted, AwaitAnyOf, ResumeLeaf
<1>2. ASSUME NEW t \in Task \cup Wrap, CallReturned(t)
      PROVE  FALSE
  BY <1>2 DEF CallReturned
<1>3. ~ (CreateArray \/ WaitForAny \/ EndAnyOf \/ Start \/ DropOwner)
  BY DEF CreateArray, WaitForAny, EndAnyOf, Start, DropOwner
<1>4. ASSUME NEW w \in Wrap, RunWrapper(w) \/ ShortCircuit(w) \/ AwaitGiven(w) \/ WrapperEnds(w)
      PROVE  FALSE
  BY <1>4 DEF RunWrapper, ShortCircuit, AwaitGiven, WrapperEnds
<1>5. winners' = winners => FALSE
  OBVIOUS
<1>6. QED
  BY <1>1, <1>2, <1>3, <1>4, <1>5 DEF Next, Step, vars

(***************************************************************************)
(* AnyOf keeps one result, and the wrapper that stores it finds the frame    *)
(* of AnyOf alive; with a result AnyOf does not stay suspended.             *)
(***************************************************************************)
THEOREM OneResult == Spec => OneWinner
<1>1. ASSUME IInv, [Next]_vars
      PROVE  /\ winners' # winners => winners = {} /\ Started(AnyFrame)
             /\ winners # {} /\ stack = <<>> => frames[AnyFrame].at # "anyof"
  <2>1. winners # {} => frames[AnyFrame].at # "anyof"
    BY <1>1, Facts DEF ResultInv
  <2>2. ASSUME winners' # winners
        PROVE  winners = {} /\ Started(AnyFrame)
    <3>1. PICK w \in Wrap : Emplace(w)
      BY <1>1, <2>2, WinnersChange
    <3>2. Top(w) /\ frames[w].at = "won" /\ w \in Frame /\ w \notin Task /\ AnyFrame \in Frame
      BY <3>1, Kinds DEF Emplace
    <3>3. winners = {} /\ frames[w].holder = AnyFrame
      BY <1>1, <3>2, WonAlone
    <3>4. frames[AnyFrame].at \in {"running", "anyof", "unwinding"}
      BY <1>1, <3>2, <3>3, Facts DEF FrameInv, HolderInv
    <3>5. QED
      BY <3>2, <3>3, <3>4, StartedIs DEF Live
  <2>3. QED
    BY <2>1, <2>2
<1>2. QED
  BY <1>1, InductiveInvariant, PTL DEF Spec, OneWinner

(***************************************************************************)
(* Who awaits and obeys the same flag as f is among what holds f, up to the  *)
(* frame of the flag; if nobody holds that, and the owner does not own it,  *)
(* its flag is set.                                                         *)
(***************************************************************************)
AbandonedCanceled ==
  \A f \in Frame : Live(frames, f) /\ Abandoned(f) => Canceled(frames, f)

(* A chain of holders that ends in no owner is flagged. *)
LEMMA AbandonedFollows ==
  ASSUME IInv
  PROVE  AbandonedCanceled
<1> SUFFICES ASSUME NEW f \in Frame, Live(frames, f), Abandoned(f)
             PROVE  Canceled(frames, f)
  BY DEF AbandonedCanceled
<1>1. PICK g \in Holders(f) : frames[g].holder = None /\ g \notin ToSet(tasks)
  BY DEF Abandoned
<1>2. g \in Frame
  BY DEF Holders
<1>3. ASSUME NEW up \in SUBSET Frame, f \in up,
             \A h \in up \ Wrap : frames[h].holder \in up \cup {None}
      PROVE  g \in up
  BY <1>3 DEF Holders
<1>4. ASSUME NEW w \in Wrap, Live(frames, w), frames[w].holder = None
      PROVE  frames[w].canceled
  <2>1. frames[w].at \notin {"unborn", "destroyed"}
    BY <1>4 DEF Live
  <2>2. QED
    BY <2>1, <1>4, Facts, Kinds DEF FrameInv, WrapInv
<1>5. CASE f \in Wrap
  <2>1. g \in {f}
    BY <1>3, <1>5
  <2>2. frames[f].canceled
    BY <2>1, <1>1, <1>4, <1>5
  <2>3. QED
    BY <2>2 DEF Canceled
<1>6. CASE f \notin Wrap
  <2> DEFINE r  == RootOf(frames, f)
             up == {h \in Frame : Live(frames, h) /\ RootOf(frames, h) = r}
  <2>1. ASSUME NEW h \in up \ Wrap, frames[h].holder # None
        PROVE  frames[h].holder \in up
    <3>1. h \in Frame \ Wrap /\ Live(frames, h) /\ RootOf(frames, h) = r
      OBVIOUS
    <3> HIDE DEF up, r
    <3>2. frames[h].root # None
      BY <3>1, <2>1, Facts DEF FrameInv, AwaitedInv
    <3> DEFINE p == frames[h].holder
    <3>3. p \in Task \cup Wrap /\ Awaits(frames, p, h) /\ frames[p].at \in {"calling", "awaiting"}
      BY <3>1, <3>2, Facts, HolderAwaits
    <3>4. p \in Frame /\ Live(frames, p) /\ RootOf(frames, p) = r
      BY <3>1, <3>2, <3>3, Kinds DEF Awaits, Live, RootOf
    <3>5. QED
      BY <3>4 DEF up
  <2>2. g \in up
    <3>1. up \in SUBSET Frame /\ f \in up
      OBVIOUS
    <3>2. \A h \in up \ Wrap : frames[h].holder \in up \cup {None}
      BY <2>1
    <3> HIDE DEF up
    <3>3. QED
      BY <3>1, <3>2, <1>3
  <2>3. Live(frames, g) /\ RootOf(frames, g) = r
    BY <2>2
  <2> HIDE DEF up
  <2>4. frames[g].root = None
    BY <2>3, <1>1, <1>2, Facts DEF FrameInv, AwaitedInv
  <2>5. g = r
    BY <2>3, <2>4 DEF RootOf
  <2>6. frames[g].canceled
    <3>1. CASE g \in Wrap
      BY <3>1, <2>3, <1>1, <1>4
    <3>2. CASE g \notin Wrap
      BY <3>2, <2>3, <1>1, <1>2, Facts, Kinds DEF OwnerInv
    <3>3. QED
      BY <3>1, <3>2
  <2>7. QED
    BY <2>5, <2>6 DEF Canceled, RootOf
<1>7. QED
  BY <1>5, <1>6

(* When the owner goes, what is done goes with it, and nothing goes on. *)
LEMMA DropOnly ==
  ASSUME IInv, DropOwner, NEW g \in Frame
  PROVE  frames'[g].at \in {frames[g].at, "destroyed"}
<1> DEFINE all == ToSet(tasks) \cup
                    {c \in Frame : frames[c].holder \in ToSet(tasks) \cap At(frames, "done")}
<1>1. frames' = Without(frames, all)
  <2>1. DOMAIN frames = Frame
    BY Facts
  <2>2. QED
    BY <2>1, DroppedWithout DEF DropOwner
<1> HIDE DEF all
<1>2. QED
  BY <1>1, Facts, WithoutFields

(* An exception that was thrown stays thrown. *)
LEMMA SurfacedGrows ==
  ASSUME [Next]_vars
  PROVE  surfaced \subseteq surfaced'
<1>1. ASSUME NEW t \in Task,
             \/ Suspend(t) \/ Return(t) \/ Throw(t) \/ Await(t)
             \/ NestedStarted(t) \/ AwaitAnyOf(t) \/ ResumeLeaf(t)
      PROVE  surfaced' = surfaced
  BY <1>1 DEF Suspend, Return, Throw, Await, NestedStarted, AwaitAnyOf, ResumeLeaf
<1>2. ASSUME NEW t \in Task \cup Wrap, CallReturned(t)
      PROVE  surfaced' = surfaced
  BY <1>2 DEF CallReturned
<1>3. ASSUME CreateArray \/ WaitForAny \/ EndAnyOf \/ DropOwner
      PROVE  surfaced' = surfaced
  BY <1>3 DEF CreateArray, WaitForAny, EndAnyOf, DropOwner
<1>4. ASSUME NEW w \in Wrap,
             RunWrapper(w) \/ ShortCircuit(w) \/ AwaitGiven(w) \/ Emplace(w) \/ WrapperEnds(w)
      PROVE  surfaced' = surfaced
  BY <1>4 DEF RunWrapper, ShortCircuit, AwaitGiven, Emplace, WrapperEnds
<1>5. ASSUME NEW fs, NEW c, NEW below, StartRootTask(fs, c, below) \/ RethrowExceptions(fs, c)
      PROVE  surfaced \subseteq surfaced'
  BY <1>5 DEF StartRootTask, RethrowExceptions, Rethrow
<1>6. ASSUME Start \/ \E t \in Task : StartNested(t)
      PROVE  surfaced \subseteq surfaced'
  BY <1>5, <1>6 DEF Start, StartNested
<1>7. QED
  BY <1>1, <1>2, <1>3, <1>4, <1>6 DEF Next, Step, vars

(***************************************************************************)
(* A task whose handle has gone, or that is awaited by such a task however   *)
(* indirectly, gets past no await, and is not begun.                        *)
(***************************************************************************)
THEOREM AbandonedTasksUnwind == Spec => AbandonedUnwind
<1>1. IInv => AbandonedCanceled
  BY AbandonedFollows
<1>2. ASSUME IInv, AbandonedCanceled, AbandonedCanceled', [Next]_vars
      PROVE  \A f \in Frame :
               /\ frames[f].at \in {"leaf", "awaiting", "anyof"} /\ Abandoned(f)
                    => frames'[f].at \notin {"running", "won"}
               /\ frames[f].at = "unborn" /\ frames'[f].at = "running" => ~Abandoned(f)'
  <2>0. SUFFICES ASSUME NEW f \in Frame
                 PROVE  /\ frames[f].at \in {"leaf", "awaiting", "anyof"} /\ Abandoned(f)
                             => frames'[f].at \notin {"running", "won"}
                        /\ frames[f].at = "unborn" /\ frames'[f].at = "running" => ~Abandoned(f)'
    OBVIOUS
  <2>1. Obeys(frames, frames', f) \/ frames'[f].at \in {frames[f].at, "destroyed"}
    BY <1>2, NextInv, DropOnly DEF AllObey
  <2>2. ASSUME frames[f].at \in {"leaf", "awaiting", "anyof"}, Abandoned(f)
        PROVE  frames'[f].at \notin {"running", "won"}
    <3>1. Canceled(frames, f)
      BY <1>2, <2>2 DEF AbandonedCanceled, Live
    <3>2. QED
      BY <2>1, <2>2, <3>1 DEF Obeys, Execution
  <2>3. ASSUME frames[f].at = "unborn", frames'[f].at = "running"
        PROVE  ~Abandoned(f)'
    <3>1. ~Canceled(frames', f)
      BY <2>1, <2>3 DEF Obeys, Execution
    <3>2. Live(frames', f)
      BY <2>3 DEF Live
    <3>3. Abandoned(f)' => Canceled(frames', f)
      BY <1>2, <3>2 DEF AbandonedCanceled
    <3>4. QED
      BY <3>1, <3>3
  <2>4. QED
    BY <2>2, <2>3
<1>3. QED
  BY <1>1, <1>2, InductiveInvariant, PTL DEF Spec, AbandonedUnwind

(***************************************************************************)
(* An exception of a task of the owner does not go with the task's frame as  *)
(* long as there is an owner, and is not thrown a second time.              *)
(***************************************************************************)
THEOREM ExceptionsAreKept == Spec => ExceptionsSurface
<1>1. ASSUME IInv, IInv', [Next]_vars
      PROVE  \A t \in ToSet(tasks) :
               /\ owner' /\ frames'[t].at = "destroyed" /\ frames[t].at = "done"
                    => ~frames[t].failed
               /\ t \in surfaced => ~frames'[t].failed
  <2>0. SUFFICES ASSUME NEW t \in ToSet(tasks)
                 PROVE  /\ owner' /\ frames'[t].at = "destroyed" /\ frames[t].at = "done"
                             => ~frames[t].failed
                        /\ t \in surfaced => ~frames'[t].failed
    OBVIOUS
  <2>1. t \in Frame /\ frames[t].holder = None
    BY <1>1, Facts, Kinds DEF ToSet, OwnerInv
  <2>2. Obeys(frames, frames', t) \/ ~owner'
    BY <1>1, <2>1, NextInv DEF AllObey, DropOwner
  <2>3. ASSUME owner', frames'[t].at = "destroyed", frames[t].at = "done"
        PROVE  ~frames[t].failed
    BY <2>1, <2>2, <2>3 DEF Obeys, Execution
  <2>4. ASSUME t \in surfaced
        PROVE  ~frames'[t].failed
    <3>1. t \in surfaced'
      BY <1>1, <2>4, SurfacedGrows
    <3>2. QED
      BY <1>1, <3>1 DEF IInv, Whole, OwnerInv
  <2>5. QED
    BY <2>3, <2>4
<1>2. QED
  BY <1>1, InductiveInvariant, PTL DEF Spec, ExceptionsSurface
=============================================================================

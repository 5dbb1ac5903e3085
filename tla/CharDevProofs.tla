---------------------------- MODULE CharDevProofs ----------------------------
(***************************************************************************)
(* Theorems about the character devices, for any values of the constants   *)
(* of their modules: GlobalMem, SecondTimer, TouchScreen, Watchdog, Rtc,   *)
(* UsbSkel.                                                                *)
(***************************************************************************)
EXTENDS GlobalMem, SecondTimer, TouchScreen, Watchdog, Rtc, UsbSkel, FiniteSetTheorems,
        SequenceTheorems, WellFoundedInduction, NaturalsInduction, TLAPS

(***************************************************************************)
(* GlobalMem: no call leaves the memory, with the semaphore or without it; *)
(* and with the semaphore each call is one with the memory.                *)
(***************************************************************************)
GmByte == GmThreads \cup {0}
GmInCall == {"down", "copy", "up"}

(* What a thread is doing: a read or a write, a clear, a seek.             *)
GmMove == [op : {"read", "write"}, file : GmFiles, p : Nat, count : Int,
           got : Seq(GmByte), done : Nat, end : Int]
GmWipe == [op : {"clear"}, p : Nat, count : Int, got : Seq(GmByte), done : Nat]
GmSeek == [op : {"seek"}, file : GmFiles, offset : Int]

GmType ==
  /\ gm_mem \in [0 .. GmSize - 1 -> GmByte]
  /\ gm_sem \subseteq GmThreads
  /\ gm_pos \in [GmFiles -> Int]
  /\ gm_call \in [GmThreads -> {GmNone} \cup GmMove \cup GmWipe \cup GmSeek]
  /\ gm_pc \in [GmThreads -> GmInCall \cup {"user", "back", "look", "move"}]
  /\ gm_raced \subseteq GmFiles

(* What a call works on lies in the memory.                                *)
GmCallFits(t) ==
  /\ gm_pc[t] \in GmInCall =>
       /\ gm_call[t] \in GmMove \cup GmWipe
       /\ gm_call[t].count >= 0 /\ gm_call[t].p + gm_call[t].count <= GmSize
  /\ gm_pc[t] = "back" => gm_call[t] \in GmMove
  /\ gm_pc[t] \in {"look", "move"} => gm_call[t] \in GmSeek

(* Where a call will leave the position of a file nobody has raced for: a  *)
(* read or a write has taken it as it is, a seek has compared it.          *)
GmEndFits(t) ==
  /\ gm_pc[t] \in {"down", "copy"} /\ gm_call[t] \in GmMove /\ gm_call[t].file \notin gm_raced =>
       gm_call[t].end = gm_call[t].p
  /\ gm_pc[t] \in {"up", "back"} /\ gm_call[t] \in GmMove /\ gm_call[t].file \notin gm_raced =>
       gm_call[t].end \in 0 .. GmSize
  /\ gm_pc[t] \in {"look", "move"} /\ gm_call[t].file \notin gm_raced =>
       gm_pos[gm_call[t].file] + gm_call[t].offset <= GmSize
  /\ gm_pc[t] = "move" /\ gm_call[t].file \notin gm_raced =>
       gm_pos[gm_call[t].file] + gm_call[t].offset >= 0

GmPosFits == \A f \in GmFiles \ gm_raced : gm_pos[f] \in 0 .. GmSize

GmFits ==
  /\ GmType /\ GmPosFits
  /\ \A t \in GmThreads : GmCallFits(t) /\ GmEndFits(t)

-----------------------------------------------------------------------------
(* The position as an unsigned number is itself when it is in the memory.  *)
LEMMA GmAtUnsigned ==
  ASSUME GmType, NEW f \in GmFiles
  PROVE  GmAt(f) \in Nat /\ (gm_pos[f] \in 0 .. GmSize => GmAt(f) = gm_pos[f])
BY GlobalMemAssumption DEF GmType, GmAt

(* No kind of call is another.                                             *)
LEMMA GmKinds ==
  /\ \A c \in GmMove : c # GmNone /\ c.op \in {"read", "write"} /\ c \notin GmWipe
  /\ \A c \in GmWipe : c # GmNone /\ c.op = "clear" /\ c \notin GmMove
BY DEF GmMove, GmWipe, GmNone

(* A step of one thread leaves the others where they are; when it changes  *)
(* a position another thread is about to move, that file counts as raced.  *)
LEMMA GmOthersFit ==
  ASSUME GmFits, NEW t \in GmThreads, NEW u \in GmThreads \ {t},
         gm_call'[u] = gm_call[u], gm_pc'[u] = gm_pc[u], gm_raced \subseteq gm_raced',
         \A f \in GmFiles : gm_pos'[f] = gm_pos[f] \/ f \in gm_raced' \/ ~ GmSeeking(t, f)
  PROVE  GmCallFits(u)' /\ GmEndFits(u)'
<1>1. GmCallFits(u) /\ GmEndFits(u)
  BY DEF GmFits
<1>2. GmCallFits(u)'
  BY <1>1 DEF GmCallFits
<1>3. CASE gm_pc[u] \in {"look", "move"}
  <2>1. gm_call[u] \in GmSeek
    BY <1>1, <1>3 DEF GmCallFits
  <2>2. gm_call[u].file \in GmFiles /\ GmSeeking(t, gm_call[u].file)
    BY <1>3, <2>1 DEF GmSeeking, GmSeek
  <2>3. gm_pos'[gm_call[u].file] = gm_pos[gm_call[u].file] \/ gm_call[u].file \in gm_raced'
    BY <2>2
  <2>. QED BY <1>1, <1>2, <1>3, <2>2, <2>3 DEF GmEndFits
<1>4. CASE gm_pc[u] \notin {"look", "move"}
  BY <1>1, <1>2, <1>4 DEF GmEndFits
<1>. QED BY <1>2, <1>3, <1>4

LEMMA GmFitsInit == GmInit => GmFits
BY GlobalMemAssumption
   DEF GmInit, GmFits, GmType, GmByte, GmPosFits, GmCallFits, GmEndFits, GmInCall

(* A new read or write: what it may move ends where the memory ends.       *)
LEMMA GmReadWriteFits ==
  ASSUME GmFits, NEW t \in GmThreads, NEW op \in {"read", "write"}, NEW f \in GmFiles,
         NEW size \in GmCounts, GmReadWrite(t, op, f, size)
  PROVE  GmFits'
<1>. DEFINE c == [op |-> op, file |-> f, p |-> GmAt(f), count |-> GmPart(f, size),
                  got |-> <<>>, done |-> 0, end |-> gm_pos[f]]
            l == IF GmAt(f) >= GmSize THEN "back" ELSE "down"
<1>1. /\ gm_call' = [gm_call EXCEPT ![t] = c]
      /\ gm_pc' = [gm_pc EXCEPT ![t] = l]
      /\ UNCHANGED <<gm_mem, gm_sem, gm_pos, gm_raced>>
  BY DEF GmReadWrite, GmEnter, GmGo
<1>2. GmAt(f) \in Nat /\ (gm_pos[f] \in 0 .. GmSize => GmAt(f) = gm_pos[f]) /\ gm_pos[f] \in Int
  BY GmAtUnsigned DEF GmFits, GmType
<1>3. /\ GmPart(f, size) \in Int
      /\ GmAt(f) < GmSize => GmPart(f, size) >= 0 /\ GmAt(f) + GmPart(f, size) <= GmSize
  BY <1>2, GlobalMemAssumption DEF GmPart
<1>4. <<>> \in Seq(GmByte)
  OBVIOUS
<1>5. c \in GmMove
  BY <1>2, <1>3, <1>4 DEF GmMove
<1>6. c.p = GmAt(f) /\ c.count = GmPart(f, size) /\ c.file = f /\ c.end = gm_pos[f]
  OBVIOUS
<1>7. l \in {"back", "down"} /\ (l = "down" => GmAt(f) < GmSize)
  BY <1>2, GlobalMemAssumption
<1>. HIDE DEF c, l
<1>8. gm_call'[t] = c /\ gm_pc'[t] = l
  BY <1>1 DEF GmFits, GmType
<1>9. GmType' /\ GmPosFits'
  BY <1>1, <1>5, <1>7 DEF GmInCall, GmFits, GmType, GmPosFits
<1>10. GmCallFits(t)'
  BY <1>3, <1>5, <1>6, <1>7, <1>8 DEF GmCallFits, GmInCall
<1>11. GmEndFits(t)'
  <2>1. f \notin gm_raced => gm_pos[f] \in 0 .. GmSize
    BY DEF GmFits, GmPosFits
  <2>. QED BY <1>1, <1>2, <1>6, <1>7, <1>8, <2>1 DEF GmEndFits
<1>12. ASSUME NEW u \in GmThreads \ {t} PROVE GmCallFits(u)' /\ GmEndFits(u)'
  BY <1>1, GmOthersFit DEF GmFits, GmType
<1>. QED BY <1>9, <1>10, <1>11, <1>12 DEF GmFits

(* A clear asks for the whole memory.                                      *)
LEMMA GmClearFits ==
  ASSUME GmFits, NEW t \in GmThreads, GmClear(t)
  PROVE  GmFits'
<1>. DEFINE c == [op |-> "clear", p |-> 0, count |-> GmSize, got |-> <<>>, done |-> 0]
<1>1. /\ gm_call' = [gm_call EXCEPT ![t] = c]
      /\ gm_pc' = [gm_pc EXCEPT ![t] = "down"]
      /\ UNCHANGED <<gm_mem, gm_sem, gm_pos, gm_raced>>
  BY DEF GmClear, GmEnter, GmGo
<1>2. c \in GmWipe /\ c.p = 0 /\ c.count = GmSize
  BY GlobalMemAssumption DEF GmWipe
<1>. HIDE DEF c
<1>3. gm_call'[t] = c /\ gm_pc'[t] = "down"
  BY <1>1 DEF GmFits, GmType
<1>4. GmType' /\ GmPosFits'
  BY <1>1, <1>2 DEF GmInCall, GmFits, GmType, GmPosFits
<1>5. GmCallFits(t)'
  BY <1>2, <1>3, GlobalMemAssumption DEF GmCallFits, GmInCall
<1>6. GmEndFits(t)'
  BY <1>2, <1>3, GmKinds DEF GmEndFits
<1>7. ASSUME NEW u \in GmThreads \ {t} PROVE GmCallFits(u)' /\ GmEndFits(u)'
  BY <1>1, GmOthersFit DEF GmFits, GmType
<1>. QED BY <1>4, <1>5, <1>6, <1>7 DEF GmFits

(* Getting the semaphore, or a signal instead, and giving it back.         *)
LEMMA GmSemFits ==
  ASSUME GmFits, NEW t \in GmThreads,
         GmDown(t) \/ GmDownSignal(t) \/ GmUp(t) \/ GmFault(t)
  PROVE  GmFits'
<1>1. /\ gm_pc[t] \in GmInCall
      /\ UNCHANGED <<gm_mem, gm_pos, gm_call, gm_raced>>
      /\ gm_sem' \subseteq gm_sem \cup {t}
  BY DEF GmDown, GmDownSignal, GmUp, GmFault, GmInCall
<1>2. PICK l : /\ gm_pc' = [gm_pc EXCEPT ![t] = l]
               /\ \/ gm_pc[t] = "down" /\ l = "copy"
                  \/ l = "user"
                  \/ /\ l = "back"
                     /\ gm_call[t].op # "clear"
  BY DEF GmDown, GmDownSignal, GmUp, GmFault, GmGo
<1>3. gm_pc'[t] = l
  BY <1>2 DEF GmFits, GmType
<1>4. GmCallFits(t) /\ GmEndFits(t)
  BY DEF GmFits
<1>5. GmType' /\ GmPosFits'
  <2>1. l \in GmInCall \cup {"user", "back", "look", "move"}
    BY <1>2 DEF GmInCall
  <2>. QED BY <1>1, <1>2, <2>1 DEF GmFits, GmType, GmPosFits
<1>6. l = "back" => gm_call[t] \in GmMove
  BY <1>1, <1>2, <1>4, GmKinds DEF GmCallFits, GmInCall
<1>7. GmCallFits(t)'
  BY <1>1, <1>2, <1>3, <1>4, <1>6 DEF GmCallFits, GmInCall
<1>8. GmEndFits(t)'
  <2>1. ASSUME l = "back", gm_call[t].file \notin gm_raced
        PROVE  gm_call[t].end \in 0 .. GmSize
    <3>1. gm_call[t] \in GmMove /\ gm_call[t].p \in Nat /\ gm_call[t].count \in Int
      BY <1>6, <2>1 DEF GmMove
    <3>2. gm_call[t].count >= 0 /\ gm_call[t].p + gm_call[t].count <= GmSize
      BY <1>1, <1>4 DEF GmCallFits
    <3>3. gm_call[t].end = gm_call[t].p \/ gm_call[t].end \in 0 .. GmSize
      BY <1>1, <1>4, <2>1, <3>1 DEF GmEndFits, GmInCall
    <3>. QED BY <3>1, <3>2, <3>3, GlobalMemAssumption
  <2>. QED BY <1>1, <1>2, <1>3, <1>4, <2>1 DEF GmEndFits
<1>9. ASSUME NEW u \in GmThreads \ {t} PROVE GmCallFits(u)' /\ GmEndFits(u)'
  BY <1>1, <1>2, GmOthersFit DEF GmFits, GmType
<1>. QED BY <1>5, <1>7, <1>8, <1>9 DEF GmFits

(* What a byte changes of a call.                                          *)
GmCopied1(c, got) == [c EXCEPT !.done = @ + 1, !.got = got]

LEMMA GmMoveCopied ==
  ASSUME NEW c \in GmMove, NEW got \in Seq(GmByte)
  PROVE  /\ GmCopied1(c, got) \in GmMove
         /\ GmCopied1(c, got).file = c.file /\ GmCopied1(c, got).end = c.end
         /\ GmCopied1(c, got).p = c.p /\ GmCopied1(c, got).count = c.count
         /\ GmCopied1(c, got).op = c.op
         /\ GmCopied1(c, got).done = c.done + 1 /\ GmCopied1(c, got).got = got
<1>. DEFINE d == [c EXCEPT !.done = c.done + 1]
<1>1. d \in GmMove /\ [d EXCEPT !.got = got] \in GmMove
  <2>1. c.done + 1 \in Nat /\ d \in GmMove
    BY DEF GmMove
  <2>. QED BY <2>1 DEF GmMove
<1>2. GmCopied1(c, got) = [d EXCEPT !.got = got]
  BY DEF GmCopied1, GmMove
<1>3. GmCopied1(c, got) \in GmMove
  BY <1>1, <1>2
<1>. QED BY <1>3 DEF GmCopied1, GmMove

LEMMA GmWipeCopied ==
  ASSUME NEW c \in GmWipe, NEW got \in Seq(GmByte)
  PROVE  /\ GmCopied1(c, got) \in GmWipe
         /\ GmCopied1(c, got).p = c.p /\ GmCopied1(c, got).count = c.count
         /\ GmCopied1(c, got).op = c.op
         /\ GmCopied1(c, got).done = c.done + 1 /\ GmCopied1(c, got).got = got
<1>. DEFINE d == [c EXCEPT !.done = c.done + 1]
<1>1. d \in GmWipe /\ [d EXCEPT !.got = got] \in GmWipe
  <2>1. c.done + 1 \in Nat /\ d \in GmWipe
    BY DEF GmWipe
  <2>. QED BY <2>1 DEF GmWipe
<1>2. GmCopied1(c, got) = [d EXCEPT !.got = got]
  BY DEF GmCopied1, GmWipe
<1>3. GmCopied1(c, got) \in GmWipe
  BY <1>1, <1>2
<1>. QED BY <1>3 DEF GmCopied1, GmWipe

(* A byte is copied: it lies in the memory, and the rest of the call stays.*)
LEMMA GmCopyFits ==
  ASSUME GmFits, NEW t \in GmThreads, GmCopy(t)
  PROVE  /\ GmFits'
         /\ gm_call[t].p + gm_call[t].done \in 0 .. GmSize - 1
<1>. DEFINE c == gm_call[t]
            i == c.p + c.done
            d == gm_call'[t]
<1>1. gm_pc[t] = "copy" /\ c.done < c.count /\ UNCHANGED <<gm_sem, gm_pos, gm_pc, gm_raced>>
  BY DEF GmCopy
<1>2. GmCallFits(t) /\ GmEndFits(t) /\ gm_pc[t] \in GmInCall
  BY <1>1 DEF GmFits, GmInCall
<1>3. c \in GmMove \cup GmWipe /\ c.p \in Nat /\ c.count \in Int /\ c.done \in Nat
      /\ c.got \in Seq(GmByte)
  BY <1>2 DEF GmCallFits, GmMove, GmWipe
<1>4. i \in 0 .. GmSize - 1
  BY <1>1, <1>2, <1>3, GlobalMemAssumption DEF GmCallFits
<1>5. gm_mem[i] \in GmByte /\ t \in GmByte /\ 0 \in GmByte
  BY <1>4 DEF GmFits, GmType, GmByte
<1>6. PICK got \in Seq(GmByte) : d = GmCopied1(c, got)
  <2>1. Append(c.got, gm_mem[i]) \in Seq(GmByte)
    BY <1>3, <1>5, AppendProperties
  <2>2. gm_call[t] \in GmMove \cup GmWipe
    BY <1>3
  <2>3. d = [c EXCEPT !.done = @ + 1,
                      !.got = IF c.op = "read" THEN Append(@, gm_mem[i]) ELSE @]
    BY DEF GmCopy, GmFits, GmType
  <2>. QED BY <1>3, <2>1, <2>3 DEF GmCopied1
<1>7. /\ c \in GmMove => d \in GmMove /\ d.file = c.file /\ d.end = c.end
      /\ c \in GmWipe => d \in GmWipe
      /\ d.p = c.p /\ d.count = c.count
  <2>1. CASE c \in GmMove
    BY <1>6, <2>1, GmKinds, GmMoveCopied
  <2>2. CASE c \in GmWipe
    BY <1>6, <2>2, GmKinds, GmWipeCopied
  <2>. QED BY <1>3, <2>1, <2>2
<1>8. \A u \in GmThreads \ {t} : gm_call'[u] = gm_call[u]
  BY DEF GmCopy, GmFits, GmType
<1>9. gm_mem' \in [0 .. GmSize - 1 -> GmByte]
  BY <1>3, <1>4, <1>5 DEF GmCopy, GmFits, GmType, GmMove, GmWipe
<1>10. GmType' /\ GmPosFits'
  <2>1. DOMAIN gm_call' = GmThreads /\ gm_call' = [u \in GmThreads |-> gm_call'[u]]
    BY DEF GmCopy, GmFits, GmType
  <2>2. \A u \in GmThreads : gm_call'[u] \in {GmNone} \cup GmMove \cup GmWipe \cup GmSeek
    BY <1>3, <1>7, <1>8 DEF GmFits, GmType
  <2>3. gm_call' \in [GmThreads -> {GmNone} \cup GmMove \cup GmWipe \cup GmSeek]
    BY <2>1, <2>2
  <2>. QED BY <1>1, <1>9, <2>3 DEF GmFits, GmType, GmPosFits
<1>. HIDE DEF c, d
<1>11. GmCallFits(t)'
  BY <1>1, <1>2, <1>3, <1>7 DEF GmCallFits, GmInCall, c, d
<1>12. GmEndFits(t)'
  BY <1>1, <1>2, <1>3, <1>7, GmKinds DEF GmEndFits, c, d
<1>13. ASSUME NEW u \in GmThreads \ {t} PROVE GmCallFits(u)' /\ GmEndFits(u)'
  BY <1>1, <1>8, GmOthersFit
<1>. QED BY <1>4, <1>10, <1>11, <1>12, <1>13 DEF GmFits, c

(* All is copied: the position moves on by what was, to the end at most.   *)
LEMMA GmMoveEnded ==
  ASSUME NEW c \in GmMove, NEW n \in Int
  PROVE  /\ [c EXCEPT !.end = n] \in GmMove
         /\ [c EXCEPT !.end = n].end = n /\ [c EXCEPT !.end = n].file = c.file
         /\ [c EXCEPT !.end = n].p = c.p /\ [c EXCEPT !.end = n].count = c.count
         /\ [c EXCEPT !.end = n].op = c.op /\ [c EXCEPT !.end = n].got = c.got
         /\ [c EXCEPT !.end = n].done = c.done
BY DEF GmMove

LEMMA GmCopiedFits ==
  ASSUME GmFits, NEW t \in GmThreads, GmCopied(t)
  PROVE  GmFits'
<1>. DEFINE c == gm_call[t]
            d == gm_call'[t]
<1>1. /\ gm_pc[t] = "copy" /\ gm_pc' = [gm_pc EXCEPT ![t] = "up"]
      /\ UNCHANGED <<gm_mem, gm_sem, gm_pos, gm_raced>>
  BY DEF GmCopied, GmGo
<1>2. GmCallFits(t) /\ GmEndFits(t) /\ gm_pc[t] \in GmInCall /\ gm_pc'[t] = "up"
  BY <1>1 DEF GmFits, GmType, GmInCall
<1>3. c \in GmMove \cup GmWipe
  BY <1>2 DEF GmCallFits
<1>4. d = IF c \in GmMove THEN [c EXCEPT !.end = c.end + c.count] ELSE c
  BY <1>3, GmKinds DEF GmCopied, GmFits, GmType
<1>5. /\ c \in GmMove => /\ c.end + c.count \in Int /\ d \in GmMove /\ d.file = c.file
                         /\ d.end = c.end + c.count /\ d.p = c.p /\ d.count = c.count
      /\ c \in GmWipe => d = c
  <2>1. CASE c \in GmMove
    <3>1. c.end + c.count \in Int
      BY <2>1 DEF GmMove
    <3>. QED BY <1>4, <2>1, <3>1, GmKinds, GmMoveEnded
  <2>2. CASE c \in GmWipe
    BY <1>4, <2>2, GmKinds
  <2>. QED BY <1>3, <2>1, <2>2
<1>6. \A u \in GmThreads \ {t} : gm_call'[u] = gm_call[u]
  BY DEF GmCopied, GmFits, GmType
<1>7. GmType' /\ GmPosFits'
  <2>1. gm_call' = [u \in GmThreads |-> gm_call'[u]]
    BY DEF GmCopied, GmFits, GmType
  <2>2. \A u \in GmThreads : gm_call'[u] \in {GmNone} \cup GmMove \cup GmWipe \cup GmSeek
    BY <1>3, <1>5, <1>6 DEF GmFits, GmType
  <2>3. gm_call' \in [GmThreads -> {GmNone} \cup GmMove \cup GmWipe \cup GmSeek]
    BY <2>1, <2>2
  <2>. QED BY <1>1, <2>3 DEF GmFits, GmType, GmPosFits, GmInCall
<1>. HIDE DEF c, d
<1>8. GmCallFits(t)'
  BY <1>1, <1>2, <1>3, <1>5 DEF GmCallFits, GmInCall, c, d
<1>9. GmEndFits(t)'
  <2>1. ASSUME c \in GmMove, c.file \notin gm_raced PROVE d.end \in 0 .. GmSize
    <3>1. c.end = c.p /\ c.p \in Nat /\ c.count \in Int
      BY <1>1, <1>2, <2>1 DEF GmEndFits, GmMove, c
    <3>2. c.count >= 0 /\ c.p + c.count <= GmSize
      BY <1>2 DEF GmCallFits, c
    <3>. QED BY <1>5, <2>1, <3>1, <3>2, GlobalMemAssumption
  <2>2. d \in GmMove => c \in GmMove /\ d.file = c.file
    BY <1>3, <1>5, GmKinds
  <2>. QED BY <1>1, <1>2, <2>1, <2>2 DEF GmEndFits, d
<1>10. ASSUME NEW u \in GmThreads \ {t} PROVE GmCallFits(u)' /\ GmEndFits(u)'
  BY <1>1, <1>6, GmOthersFit DEF GmFits, GmType
<1>. QED BY <1>7, <1>8, <1>9, <1>10 DEF GmFits

-----------------------------------------------------------------------------
(* The positions. A thread that sets one to a place in the memory, or sets *)
(* that of a raced file, keeps what is known.                              *)
LEMMA GmSetPosFits ==
  ASSUME GmFits, NEW t \in GmThreads, NEW f \in GmFiles, NEW pos \in Int,
         f \notin gm_raced => pos \in 0 .. GmSize,
         GmSetPos(t, f, pos), UNCHANGED <<gm_mem, gm_sem>>,
         gm_call' = [gm_call EXCEPT ![t] = GmNone], gm_pc' = [gm_pc EXCEPT ![t] = "user"]
  PROVE  GmFits'
<1>1. /\ gm_pos' = [gm_pos EXCEPT ![f] = pos]
      /\ gm_raced \subseteq gm_raced' /\ gm_raced' \subseteq gm_raced \cup {f}
      /\ f \in gm_raced' \/ ~ GmSeeking(t, f) \/ pos = gm_pos[f]
  BY DEF GmSetPos
<1>2. gm_pos'[f] = pos /\ \A g \in GmFiles \ {f} : gm_pos'[g] = gm_pos[g]
  BY <1>1 DEF GmFits, GmType
<1>3. gm_pc'[t] = "user"
  BY DEF GmFits, GmType
<1>4. GmType'
  BY <1>1 DEF GmFits, GmType, GmInCall
<1>5. GmPosFits'
  BY <1>1, <1>2 DEF GmFits, GmPosFits
<1>6. GmCallFits(t)' /\ GmEndFits(t)'
  BY <1>3 DEF GmCallFits, GmEndFits, GmInCall
<1>7. ASSUME NEW u \in GmThreads \ {t} PROVE GmCallFits(u)' /\ GmEndFits(u)'
  <2>1. gm_call'[u] = gm_call[u] /\ gm_pc'[u] = gm_pc[u]
    BY DEF GmFits, GmType
  <2>2. \A g \in GmFiles : gm_pos'[g] = gm_pos[g] \/ g \in gm_raced' \/ ~ GmSeeking(t, g)
    BY <1>1, <1>2
  <2>. QED BY <1>1, <2>1, <2>2, GmOthersFit
<1>. QED BY <1>4, <1>5, <1>6, <1>7 DEF GmFits

LEMMA GmBackFits ==
  ASSUME GmFits, NEW t \in GmThreads, GmBack(t)
  PROVE  GmFits'
<1>1. gm_call[t] \in GmMove /\ GmEndFits(t)
  BY DEF GmBack, GmFits, GmCallFits
<1>2. gm_call[t].file \in GmFiles /\ gm_call[t].end \in Int
  BY <1>1 DEF GmMove
<1>3. gm_call[t].file \notin gm_raced => gm_call[t].end \in 0 .. GmSize
  BY <1>1 DEF GmBack, GmEndFits
<1>. QED BY <1>2, <1>3, GmSetPosFits DEF GmBack, GmGo

LEMMA GmSeekMoveFits ==
  ASSUME GmFits, NEW t \in GmThreads, GmSeekMove(t)
  PROVE  GmFits'
<1>1. gm_call[t] \in GmSeek /\ GmEndFits(t)
  BY DEF GmSeekMove, GmFits, GmCallFits
<1>2. gm_call[t].file \in GmFiles /\ gm_pos[gm_call[t].file] + gm_call[t].offset \in Int
  BY <1>1 DEF GmSeek, GmFits, GmType
<1>3. gm_call[t].file \notin gm_raced
        => gm_pos[gm_call[t].file] + gm_call[t].offset \in 0 .. GmSize
  BY <1>1, <1>2, GlobalMemAssumption DEF GmSeekMove, GmEndFits
<1>. QED BY <1>2, <1>3, GmSetPosFits DEF GmSeekMove, GmGo

LEMMA GmSeekSetFits ==
  ASSUME GmFits, NEW t \in GmThreads, NEW f \in GmFiles, NEW offset \in GmOffsets,
         GmSeekSet(t, f, offset)
  PROVE  GmFits'
<1>1. offset % GmWord \in 0 .. GmSize
  BY GlobalMemAssumption DEF GmSeekSet
<1>2. offset % GmWord \in Int
  BY <1>1, GlobalMemAssumption
<1>. QED BY <1>1, <1>2, GmSetPosFits DEF GmSeekSet, GmEnter, GmGo

(* A seek from the position has compared it with the end, and then with    *)
(* the start.                                                              *)
LEMMA GmSeekCurFits ==
  ASSUME GmFits, NEW t \in GmThreads, NEW f \in GmFiles, NEW offset \in GmOffsets,
         GmSeekCur(t, f, offset)
  PROVE  GmFits'
<1>. DEFINE c == [op |-> "seek", file |-> f, offset |-> offset]
<1>1. /\ gm_call' = [gm_call EXCEPT ![t] = c]
      /\ gm_pc' = [gm_pc EXCEPT ![t] = "look"]
      /\ gm_pos[f] + offset <= GmSize
      /\ UNCHANGED <<gm_mem, gm_sem, gm_pos, gm_raced>>
  BY DEF GmSeekCur, GmEnter, GmGo
<1>2. c \in GmSeek /\ c.file = f /\ c.offset = offset
  BY GlobalMemAssumption DEF GmSeek
<1>. HIDE DEF c
<1>3. gm_call'[t] = c /\ gm_pc'[t] = "look"
  BY <1>1 DEF GmFits, GmType
<1>4. GmType' /\ GmPosFits'
  BY <1>1, <1>2 DEF GmInCall, GmFits, GmType, GmPosFits
<1>5. GmCallFits(t)' /\ GmEndFits(t)'
  BY <1>1, <1>2, <1>3 DEF GmCallFits, GmEndFits, GmInCall
<1>6. ASSUME NEW u \in GmThreads \ {t} PROVE GmCallFits(u)' /\ GmEndFits(u)'
  BY <1>1, GmOthersFit DEF GmFits, GmType
<1>. QED BY <1>4, <1>5, <1>6 DEF GmFits

LEMMA GmSeekLookFits ==
  ASSUME GmFits, NEW t \in GmThreads, GmSeekLook(t)
  PROVE  GmFits'
<1>. DEFINE f == gm_call[t].file
            asked == gm_pos[f] + gm_call[t].offset
<1>1. /\ gm_pc[t] = "look" /\ gm_call[t] \in GmSeek
      /\ f \notin gm_raced => asked <= GmSize
      /\ UNCHANGED <<gm_mem, gm_sem, gm_pos, gm_raced>>
  BY DEF GmSeekLook, GmFits, GmCallFits, GmEndFits
<1>2. f \in GmFiles /\ asked \in Int
  BY <1>1 DEF GmSeek, GmFits, GmType
<1>3. \/ asked >= 0 /\ gm_pc' = [gm_pc EXCEPT ![t] = "move"] /\ gm_call' = gm_call
      \/ gm_pc' = [gm_pc EXCEPT ![t] = "user"] /\ gm_call' = [gm_call EXCEPT ![t] = GmNone]
  BY DEF GmSeekLook, GmGo
<1>4. GmType' /\ GmPosFits'
  BY <1>1, <1>3 DEF GmInCall, GmFits, GmType, GmPosFits
<1>5. GmCallFits(t)' /\ GmEndFits(t)'
  <2>1. CASE gm_pc'[t] = "user"
    BY <2>1 DEF GmCallFits, GmEndFits, GmInCall
  <2>2. CASE asked >= 0 /\ gm_pc'[t] = "move" /\ gm_call' = gm_call
    BY <1>1, <2>2 DEF GmCallFits, GmEndFits, GmInCall
  <2>. QED BY <1>3, <2>1, <2>2 DEF GmFits, GmType
<1>6. ASSUME NEW u \in GmThreads \ {t} PROVE GmCallFits(u)' /\ GmEndFits(u)'
  <2>1. gm_pc'[u] = gm_pc[u] /\ gm_call'[u] = gm_call[u]
    BY <1>3 DEF GmFits, GmType
  <2>. QED BY <1>1, <2>1, GmOthersFit
<1>. QED BY <1>4, <1>5, <1>6 DEF GmFits

LEMMA GmFitsNext == GmFits /\ [GmNext]_gmVars => GmFits'
<1>1. ASSUME GmFits, GmNext PROVE GmFits'
  BY <1>1, GmReadWriteFits, GmClearFits, GmSemFits, GmCopyFits, GmCopiedFits, GmBackFits,
     GmSeekSetFits, GmSeekCurFits, GmSeekLookFits, GmSeekMoveFits DEF GmNext
<1>2. ASSUME GmFits, UNCHANGED gmVars PROVE GmFits'
  BY <1>2 DEF gmVars, GmFits, GmType, GmPosFits, GmCallFits, GmEndFits
<1>. QED BY <1>1, <1>2

(* No call reaches outside the memory, with the semaphore or without it,   *)
(* whatever other calls have done to the position of its file.             *)
THEOREM InsideMemory == GmSpec => []GmInBounds
<1>1. GmFits => GmInBounds
  <2>1. ASSUME GmFits, NEW t \in GmThreads, gm_pc[t] \in GmInCall
        PROVE  gm_call[t].p >= 0 /\ gm_call[t].p + gm_call[t].count <= GmSize
    BY <2>1 DEF GmFits, GmCallFits, GmMove, GmWipe
  <2>. QED BY <2>1 DEF GmFits, GmPosFits, GmInBounds, GmInCall
<1>. QED BY GmFitsInit, GmFitsNext, <1>1, PTL DEF GmSpec

-----------------------------------------------------------------------------
(* With the semaphore one thread is in the memory at a time, and what it   *)
(* has moved so far is there, or is what it has got.                       *)
GmAlone == \A t \in GmThreads : gm_pc[t] \in {"copy", "up"} => gm_sem = {t}

GmDoneSoFar(t) ==
  LET c == gm_call[t]
  IN  /\ c.done <= c.count
      /\ c.op = "read" => Len(c.got) = c.done
      /\ \A i \in 0 .. c.done - 1 :
           gm_mem[c.p + i] = CASE c.op = "read" -> c.got[i + 1]
                               [] c.op = "write" -> t
                               [] c.op = "clear" -> 0

GmProgress(t) ==
  /\ gm_pc[t] \in GmInCall => GmDoneSoFar(t)
  /\ gm_pc[t] = "down" => gm_call[t].done = 0
  /\ gm_pc[t] = "up" => gm_call[t].done = gm_call[t].count

GmWhole == GmFits /\ GmAlone /\ \A t \in GmThreads : GmProgress(t)

(* A thread whose call does not change keeps what it has done, when the    *)
(* memory does not change or it is not in the memory yet.                  *)
LEMMA GmOthersProgress ==
  ASSUME GmWhole, NEW u \in GmThreads, gm_call'[u] = gm_call[u], gm_pc'[u] = gm_pc[u],
         gm_mem' = gm_mem \/ gm_pc[u] \notin {"copy", "up"}
  PROVE  GmProgress(u)'
<1>1. GmProgress(u)
  BY DEF GmWhole
<1>2. CASE gm_mem' = gm_mem
  BY <1>1, <1>2 DEF GmProgress, GmDoneSoFar
<1>3. CASE gm_pc[u] = "down"
  <2>1. \A i : i \notin 0 .. gm_call[u].done - 1
    BY <1>1, <1>3 DEF GmProgress
  <2>. QED BY <1>1, <1>3, <2>1 DEF GmProgress, GmDoneSoFar, GmInCall
<1>4. CASE gm_pc[u] \notin GmInCall
  BY <1>4 DEF GmProgress, GmInCall
<1>. QED BY <1>2, <1>3, <1>4 DEF GmInCall

(* A new call has done nothing yet.                                        *)
LEMMA GmStartWhole ==
  ASSUME GmWhole, NEW t \in GmThreads, GmFits',
         \/ \E op \in {"read", "write"}, f \in GmFiles, size \in GmCounts :
              GmReadWrite(t, op, f, size)
         \/ GmClear(t)
  PROVE  GmWhole'
<1>1. /\ gm_pc[t] = "user" /\ UNCHANGED <<gm_mem, gm_sem>>
      /\ \E l \in {"back", "down"} : gm_pc' = [gm_pc EXCEPT ![t] = l]
  BY DEF GmReadWrite, GmClear, GmEnter, GmGo
<1>2. gm_call'[t].done = 0 /\ gm_call'[t].got = <<>>
  BY DEF GmReadWrite, GmClear, GmEnter, GmWhole, GmFits, GmType
<1>3. gm_pc'[t] = "down" => gm_call'[t].count >= 0 /\ gm_call'[t].count \in Int
  BY DEF GmFits, GmCallFits, GmInCall, GmMove, GmWipe
<1>4. gm_pc'[t] \in {"back", "down"}
      /\ \A u \in GmThreads \ {t} : gm_pc'[u] = gm_pc[u] /\ gm_call'[u] = gm_call[u]
  BY <1>1 DEF GmReadWrite, GmClear, GmEnter, GmWhole, GmFits, GmType
<1>5. GmProgress(t)'
  <2>1. \A i : i \notin 0 .. gm_call'[t].done - 1
    BY <1>2
  <2>2. Len(<<>>) = 0
    OBVIOUS
  <2>. QED BY <1>2, <1>3, <1>4, <2>1, <2>2 DEF GmProgress, GmDoneSoFar, GmInCall
<1>6. GmAlone'
  BY <1>1, <1>4 DEF GmWhole, GmAlone
<1>7. ASSUME NEW u \in GmThreads \ {t} PROVE GmProgress(u)'
  BY <1>1, <1>4, GmOthersProgress
<1>. QED BY <1>5, <1>6, <1>7 DEF GmWhole

(* Nobody is in the memory when a thread gets the semaphore.               *)
LEMMA GmDownWhole ==
  ASSUME GmLocked, GmWhole, NEW t \in GmThreads, GmDown(t), GmFits'
  PROVE  GmWhole'
<1>1. /\ gm_pc[t] = "down" /\ gm_sem = {} /\ gm_sem' = {t}
      /\ gm_pc' = [gm_pc EXCEPT ![t] = "copy"]
      /\ UNCHANGED <<gm_mem, gm_call>>
  BY DEF GmDown, GmGo
<1>2. gm_pc'[t] = "copy" /\ \A u \in GmThreads \ {t} : gm_pc'[u] = gm_pc[u]
  BY <1>1 DEF GmWhole, GmFits, GmType
<1>3. GmAlone'
  BY <1>1, <1>2 DEF GmWhole, GmAlone
<1>4. GmProgress(t)'
  BY <1>1, <1>2 DEF GmWhole, GmProgress, GmDoneSoFar, GmInCall
<1>5. ASSUME NEW u \in GmThreads \ {t} PROVE GmProgress(u)'
  BY <1>1, <1>2, GmOthersProgress
<1>. QED BY <1>3, <1>4, <1>5 DEF GmWhole

(* A thread that leaves gives the semaphore back.                          *)
LEMMA GmLeaveWhole ==
  ASSUME GmWhole, NEW t \in GmThreads, GmFits',
         GmDownSignal(t) \/ GmUp(t) \/ GmFault(t)
  PROVE  GmWhole'
<1>1. /\ UNCHANGED <<gm_mem, gm_call>>
      /\ gm_sem' = gm_sem \/ (gm_pc[t] \in {"copy", "up"} /\ gm_sem' = gm_sem \ {t})
      /\ \E l \in {"user", "back"} : gm_pc' = [gm_pc EXCEPT ![t] = l]
  BY DEF GmDownSignal, GmUp, GmFault, GmGo
<1>2. gm_pc'[t] \in {"user", "back"} /\ \A u \in GmThreads \ {t} : gm_pc'[u] = gm_pc[u]
  BY <1>1 DEF GmWhole, GmFits, GmType
<1>3. GmAlone'
  BY <1>1, <1>2 DEF GmWhole, GmAlone
<1>4. GmProgress(t)'
  BY <1>2 DEF GmProgress, GmInCall
<1>5. ASSUME NEW u \in GmThreads \ {t} PROVE GmProgress(u)'
  BY <1>1, <1>2, GmOthersProgress
<1>. QED BY <1>3, <1>4, <1>5 DEF GmWhole

(* Positions are set, and seeks begin, outside the memory.                 *)
LEMMA GmOutsideWhole ==
  ASSUME GmWhole, NEW t \in GmThreads, GmFits',
         gm_pc[t] \notin GmInCall, UNCHANGED <<gm_mem, gm_sem>>,
         NEW c, gm_call' = [gm_call EXCEPT ![t] = c],
         NEW l \in {"user", "look", "move"}, gm_pc' = [gm_pc EXCEPT ![t] = l]
  PROVE  GmWhole'
<1>1. gm_pc'[t] = l
      /\ \A u \in GmThreads \ {t} : gm_pc'[u] = gm_pc[u] /\ gm_call'[u] = gm_call[u]
  BY DEF GmWhole, GmFits, GmType
<1>2. GmAlone'
  BY <1>1 DEF GmWhole, GmAlone
<1>3. GmProgress(t)'
  BY <1>1 DEF GmProgress, GmInCall
<1>4. ASSUME NEW u \in GmThreads \ {t} PROVE GmProgress(u)'
  BY <1>1, GmOthersProgress
<1>. QED BY <1>2, <1>3, <1>4 DEF GmWhole

LEMMA GmPositionsWhole ==
  ASSUME GmWhole, NEW t \in GmThreads, GmFits',
         \/ GmBack(t) \/ GmSeekLook(t) \/ GmSeekMove(t)
         \/ \E f \in GmFiles, offset \in GmOffsets :
              GmSeekSet(t, f, offset) \/ GmSeekCur(t, f, offset)
  PROVE  GmWhole'
<1>1. CASE GmBack(t)
  BY <1>1, GmOutsideWhole DEF GmBack, GmGo, GmInCall
<1>2. CASE GmSeekMove(t)
  BY <1>2, GmOutsideWhole DEF GmSeekMove, GmGo, GmInCall
<1>3. ASSUME NEW f \in GmFiles, NEW offset \in GmOffsets, GmSeekSet(t, f, offset)
      PROVE  GmWhole'
  BY <1>3, GmOutsideWhole DEF GmSeekSet, GmEnter, GmGo, GmInCall
<1>4. ASSUME NEW f \in GmFiles, NEW offset \in GmOffsets, GmSeekCur(t, f, offset)
      PROVE  GmWhole'
  BY <1>4, GmOutsideWhole DEF GmSeekCur, GmEnter, GmGo, GmInCall
<1>5. CASE GmSeekLook(t)
  <2>1. UNCHANGED <<gm_mem, gm_sem>> /\ gm_pc[t] \notin GmInCall
    BY <1>5 DEF GmSeekLook, GmInCall
  <2>2. CASE gm_call' = gm_call /\ gm_pc' = [gm_pc EXCEPT ![t] = "move"]
    <3>1. gm_call' = [gm_call EXCEPT ![t] = gm_call[t]]
      BY <2>2 DEF GmWhole, GmFits, GmType
    <3>. QED BY <2>1, <2>2, <3>1, GmOutsideWhole
  <2>3. CASE gm_call' = [gm_call EXCEPT ![t] = GmNone] /\ gm_pc' = [gm_pc EXCEPT ![t] = "user"]
    BY <2>1, <2>3, GmOutsideWhole
  <2>. QED BY <1>5, <2>2, <2>3 DEF GmSeekLook, GmGo
<1>. QED BY <1>1, <1>2, <1>3, <1>4, <1>5

(* A byte is moved: the one after those that were moved so far, and no     *)
(* other thread's.                                                         *)
LEMMA GmCopyWhole ==
  ASSUME GmWhole, NEW t \in GmThreads, GmCopy(t), GmFits'
  PROVE  GmWhole'
<1>. DEFINE c == gm_call[t]
            d == gm_call'[t]
            i == c.p + c.done
            got == IF c.op = "read" THEN Append(c.got, gm_mem[i]) ELSE c.got
<1>1. gm_pc[t] = "copy" /\ c.done < c.count /\ UNCHANGED <<gm_sem, gm_pos, gm_pc, gm_raced>>
  BY DEF GmCopy
<1>2. GmCallFits(t) /\ GmProgress(t) /\ GmDoneSoFar(t) /\ gm_pc[t] \in GmInCall
      /\ i \in 0 .. GmSize - 1
  BY <1>1, GmCopyFits DEF GmWhole, GmFits, GmInCall, GmProgress
<1>3. c \in GmMove \cup GmWipe /\ c.p \in Nat /\ c.count \in Int /\ c.done \in Nat
      /\ c.got \in Seq(GmByte) /\ c.op \in {"read", "write", "clear"}
  BY <1>2 DEF GmCallFits, GmMove, GmWipe
<1>4. gm_mem[i] \in GmByte
  BY <1>2 DEF GmWhole, GmFits, GmType
<1>5. got \in Seq(GmByte)
  BY <1>3, <1>4, AppendProperties
<1>6. d = GmCopied1(c, got)
  BY DEF GmCopy, GmWhole, GmFits, GmType, GmCopied1
<1>7. /\ d.p = c.p /\ d.count = c.count /\ d.op = c.op
      /\ d.done = c.done + 1 /\ d.got = got
  <2>. HIDE DEF c, d, got
  <2>. QED BY <1>3, <1>5, <1>6, GmMoveCopied, GmWipeCopied
<1>8. \A u \in GmThreads \ {t} : gm_call'[u] = gm_call[u] /\ gm_pc[u] \notin {"copy", "up"}
  BY <1>1 DEF GmCopy, GmWhole, GmAlone, GmFits, GmType
<1>9. /\ c.op = "read" => gm_mem' = gm_mem
      /\ c.op = "write" => gm_mem' = [gm_mem EXCEPT ![i] = t]
      /\ c.op = "clear" => gm_mem' = [gm_mem EXCEPT ![i] = 0]
  BY DEF GmCopy
<1>10. c.op = "read" => /\ Len(got) = c.done + 1 /\ got[c.done + 1] = gm_mem[i]
                        /\ \A k \in 0 .. c.done - 1 : got[k + 1] = c.got[k + 1]
  <2>1. ASSUME c.op = "read"
        PROVE  /\ Len(got) = c.done + 1 /\ got[c.done + 1] = gm_mem[i]
               /\ \A k \in 0 .. c.done - 1 : got[k + 1] = c.got[k + 1]
    <3>1. Len(c.got) = c.done /\ got = Append(c.got, gm_mem[i])
      BY <1>2, <2>1 DEF GmDoneSoFar
    <3>. HIDE DEF c, got, i
    <3>. QED BY <1>3, <1>4, <3>1, AppendProperties
  <2>. QED BY <2>1
<1>11. \A k \in 0 .. c.done : gm_mem'[d.p + k] = CASE d.op = "read" -> d.got[k + 1]
                                                  [] d.op = "write" -> t
                                                  [] d.op = "clear" -> 0
  <2>1. gm_mem \in [0 .. GmSize - 1 -> GmByte]
    BY DEF GmWhole, GmFits, GmType
  <2>2. ASSUME NEW k \in 0 .. c.done - 1
        PROVE  /\ gm_mem'[c.p + k] = gm_mem[c.p + k]
               /\ gm_mem[c.p + k] = CASE c.op = "read" -> c.got[k + 1]
                                      [] c.op = "write" -> t
                                      [] c.op = "clear" -> 0
    <3>1. c.p + k # i /\ c.p + k \in 0 .. GmSize - 1
      <4>1. c.p \in Nat /\ c.done \in Nat /\ k \in Nat /\ k < c.done
        BY <1>3
      <4>2. c.p + c.done <= GmSize - 1 /\ GmSize \in Nat
        BY <1>2, GlobalMemAssumption
      <4>. HIDE DEF c
      <4>. QED BY <4>1, <4>2
    <3>2. gm_mem'[c.p + k] = gm_mem[c.p + k]
      BY <1>2, <1>3, <1>9, <2>1, <3>1
    <3>. QED BY <1>2, <3>2 DEF GmDoneSoFar
  <2>3. /\ c.op = "read" => gm_mem'[i] = got[c.done + 1]
        /\ c.op = "write" => gm_mem'[i] = t
        /\ c.op = "clear" => gm_mem'[i] = 0
    BY <1>2, <1>9, <1>10, <2>1
  <2>. HIDE DEF c, d, got
  <2>4. ASSUME NEW k \in 0 .. c.done
        PROVE  gm_mem'[c.p + k] = CASE c.op = "read" -> got[k + 1]
                                    [] c.op = "write" -> t
                                    [] c.op = "clear" -> 0
    <3>1. CASE k = c.done
      BY <1>3, <2>3, <3>1
    <3>2. CASE k # c.done
      <4>1. k \in 0 .. c.done - 1
        BY <1>3, <3>2
      <4>2. c.op = "read" => got[k + 1] = c.got[k + 1]
        BY <1>10, <4>1
      <4>. QED BY <1>3, <2>2, <4>1, <4>2
    <3>. QED BY <3>1, <3>2
  <2>. QED BY <1>7, <2>4
<1>. HIDE DEF c, d, got
<1>12. GmProgress(t)'
  <2>1. d.done <= d.count /\ (d.op = "read" => Len(d.got) = d.done)
    BY <1>1, <1>3, <1>7, <1>10
  <2>2. d.done - 1 = c.done
    BY <1>3, <1>7
  <2>3. GmDoneSoFar(t)'
    BY <1>11, <2>1, <2>2 DEF GmDoneSoFar, d
  <2>. QED BY <1>1, <2>3 DEF GmProgress
<1>13. GmAlone'
  BY <1>1 DEF GmWhole, GmAlone
<1>14. ASSUME NEW u \in GmThreads \ {t} PROVE GmProgress(u)'
  BY <1>1, <1>8, GmOthersProgress
<1>. QED BY <1>12, <1>13, <1>14 DEF GmWhole

(* All is moved: nothing but where the position will be changes.           *)
LEMMA GmCopiedWhole ==
  ASSUME GmWhole, NEW t \in GmThreads, GmCopied(t), GmFits'
  PROVE  GmWhole'
<1>. DEFINE c == gm_call[t]
            d == gm_call'[t]
<1>1. /\ gm_pc[t] = "copy" /\ gm_pc' = [gm_pc EXCEPT ![t] = "up"]
      /\ c.done = c.count /\ UNCHANGED <<gm_mem, gm_sem>>
  BY DEF GmCopied, GmGo
<1>2. GmCallFits(t) /\ GmDoneSoFar(t) /\ gm_pc[t] \in GmInCall
      /\ gm_pc'[t] = "up" /\ \A u \in GmThreads \ {t} : gm_pc'[u] = gm_pc[u]
  BY <1>1 DEF GmWhole, GmFits, GmType, GmInCall, GmProgress
<1>3. c \in GmMove \cup GmWipe
  BY <1>2 DEF GmCallFits
<1>4. d = IF c \in GmMove THEN [c EXCEPT !.end = c.end + c.count] ELSE c
  BY <1>3, GmKinds DEF GmCopied, GmWhole, GmFits, GmType
<1>5. /\ d.p = c.p /\ d.count = c.count /\ d.op = c.op
      /\ d.done = c.done /\ d.got = c.got
  <2>. HIDE DEF c, d
  <2>1. CASE c \in GmMove
    <3>1. c.end + c.count \in Int
      BY <2>1 DEF GmMove
    <3>. QED BY <1>4, <2>1, <3>1, GmMoveEnded
  <2>. QED BY <1>4, <2>1
<1>6. \A u \in GmThreads \ {t} : gm_call'[u] = gm_call[u]
  BY DEF GmCopied, GmWhole, GmFits, GmType
<1>7. GmProgress(t)'
  BY <1>1, <1>2, <1>5 DEF GmProgress, GmDoneSoFar
<1>8. GmAlone'
  BY <1>1, <1>2 DEF GmWhole, GmAlone
<1>9. ASSUME NEW u \in GmThreads \ {t} PROVE GmProgress(u)'
  BY <1>1, <1>2, <1>6, GmOthersProgress
<1>. QED BY <1>7, <1>8, <1>9 DEF GmWhole

LEMMA GmWholeInit == GmInit => GmWhole
BY GmFitsInit DEF GmInit, GmWhole, GmAlone, GmProgress, GmInCall

LEMMA GmWholeNext ==
  ASSUME GmLocked
  PROVE  GmWhole /\ [GmNext]_gmVars => GmWhole'
<1>1. ASSUME GmWhole, GmNext PROVE GmWhole'
  <2>1. GmFits'
    BY <1>1, GmFitsNext DEF GmWhole
  <2>. QED
    BY <1>1, <2>1, GmLocked, GmStartWhole, GmDownWhole, GmLeaveWhole, GmCopyWhole,
       GmCopiedWhole, GmPositionsWhole DEF GmNext
<1>2. ASSUME GmWhole, UNCHANGED gmVars PROVE GmWhole'
  BY <1>2, GmFitsNext DEF gmVars, GmWhole, GmAlone, GmProgress, GmDoneSoFar
<1>. QED BY <1>1, <1>2

(* With the semaphore each call is one with the memory: what a read got is *)
(* what is there when it is done, what a write or a clear stored is there. *)
THEOREM OneWithMemory ==
  ASSUME GmLocked
  PROVE  GmSpec => []GmCallAtomic
<1>1. GmWhole => GmCallAtomic
  BY DEF GmWhole, GmProgress, GmDoneSoFar, GmCallAtomic, GmInCall
<1>. QED BY GmLocked, GmWholeInit, GmWholeNext, <1>1, PTL DEF GmSpec

(***************************************************************************)
(* SecondTimer, for any number of users and any bound of the counter.      *)
(***************************************************************************)
SecType ==
  /\ sec_users \in Nat
  /\ s_timer \in BOOLEAN /\ sec_handler \in {"no", "mod", "inc"}
  /\ sec_shared \in BOOLEAN /\ sec_late \in BOOLEAN /\ sec_oops \in BOOLEAN

(* Who opens the device second is told apart.                              *)
SecAlone == ~ sec_shared => sec_users <= 1

SecInv == SecType /\ SecAlone /\ SecondStops

LEMMA SecInitInv == SecInit => SecInv
<1>. SUFFICES ASSUME SecInit PROVE SecInv
  OBVIOUS
<1>1. SecType
  BY DEF SecInit, SecType
<1>2. SecAlone
  BY DEF SecInit, SecAlone
<1>3. SecondStops
  BY DEF SecInit, SecondStops
<1>. QED BY <1>1, <1>2, <1>3 DEF SecInv

(* An open counts the user and arms the timer.                             *)
LEMMA SecOpenInv == SecInv /\ SecOpen => SecInv'
<1>. SUFFICES ASSUME SecInv, SecOpen PROVE SecInv'
  OBVIOUS
<1>. USE DEF SecInv, SecType, SecOpen
<1>1. sec_users' \in Nat /\ sec_users' > 0 /\ (sec_users > 0 \/ sec_users' <= 1)
  BY SecondAssumption
<1>2. SecType'
  BY <1>1
<1>3. SecAlone'
  BY <1>1 DEF SecAlone
<1>4. SecondStops'
  BY <1>1 DEF SecondStops
<1>. QED BY <1>2, <1>3, <1>4

(* A release of the last user stops the timer; what is left of it is a     *)
(* handler about to arm it, and then the close was late.                   *)
LEMMA SecReleaseInv == SecInv /\ SecRelease /\ ~ sec_oops => SecInv'
<1>. SUFFICES ASSUME SecInv, SecRelease, ~ sec_oops PROVE SecInv'
  OBVIOUS
<1>. USE DEF SecInv, SecType, SecRelease
<1>1. sec_users' \in Nat /\ (sec_users' = 0 <=> sec_users = 1)
  OBVIOUS
<1>2. SecType'
  BY <1>1
<1>3. SecAlone'
  BY <1>1 DEF SecAlone
<1>4. sec_users' = 0 => ((s_timer' \/ sec_handler' = "mod") <=> sec_late')
  BY <1>1
<1>5. ~ sec_shared' => sec_users' = 0
  BY <1>1 DEF SecAlone
<1>6. SecondStops'
  BY <1>1, <1>4, <1>5 DEF SecondStops
<1>. QED BY <1>2, <1>3, <1>6

(* The handler takes the timer, arms it again and counts.                  *)
LEMMA SecHandlerInv == SecInv /\ SecHandler => SecInv'
<1>. SUFFICES ASSUME SecInv, SecHandler PROVE SecInv'
  OBVIOUS
<1>. USE DEF SecInv, SecType
<1>1. CASE SecExpire
  BY <1>1 DEF SecExpire, SecAlone, SecondStops
<1>2. CASE SecMod
  BY <1>2 DEF SecMod, SecAlone, SecondStops
<1>3. CASE SecInc
  BY <1>3 DEF SecInc, SecAlone, SecondStops
<1>. QED BY <1>1, <1>2, <1>3 DEF SecHandler

(* What a close leaves of the timer, race and all: a closed device's timer *)
(* runs if and only if its last close met the handler before mod_timer,    *)
(* and an open initialises a pending timer only after such a close or      *)
(* beside another file (second_release, second_timer_handle, second_open). *)
THEOREM TimerStopped == SecSpec => []SecondStops
<1>1. SecInv /\ [SecNext]_secVars => SecInv'
  <2>1. SecInv /\ UNCHANGED secVars => SecInv'
    BY DEF SecInv, SecType, SecAlone, SecondStops, secVars
  <2>. QED BY <2>1, SecOpenInv, SecReleaseInv, SecHandlerInv DEF SecNext
<1>2. SecInv => SecondStops
  BY DEF SecInv
<1>. QED BY SecInitInv, <1>1, <1>2, PTL DEF SecSpec

(***************************************************************************)
(* TouchScreen, for any readers, any size of the ring and any number of    *)
(* opens: as long as the device is opened by one at a time, without a      *)
(* touch going on, and not suspended, penStatus, the wait of the panel and *)
(* the steps of a sample never disagree.                                   *)
(***************************************************************************)
(* Events of a device that has ever been opened go to the ring.            *)
PenInv ==
  /\ ts_odd \in BOOLEAN
  /\ ~ ts_odd => TsPhase
  /\ ~ ts_odd /\ tsEvent # "raw" => ts_open = {} /\ ~ ts_timer

LEMMA InitPen == TsInit => PenInv
<1>. SUFFICES ASSUME TsInit PROVE PenInv
  OBVIOUS
<1>1. /\ ts_open = {} /\ penStatus = PEN_UP /\ tsEvent = "dummy" /\ adc_state = 0
      /\ ts_conv = FALSE /\ ts_tsc = "down" /\ ts_timer = FALSE /\ ts_odd = FALSE
  BY DEF TsInit
<1>2. TsPhase
  BY <1>1 DEF TsPhase
<1>. QED BY <1>1, <1>2 DEF PenInv

(* A sample: from its start, by a touch or by the timer, to its event.     *)
LEMMA SamplePen ==
  ASSUME PenInv, TsAdcFirst \/ TsAdcSecond \/ TsPenDown \/ TsTimer
  PROVE  PenInv'
<1>. USE DEF PenInv, TsPhase, tsAdc, tsDev, PEN_UP, PEN_DOWN
<1>1. CASE TsAdcFirst
  BY <1>1 DEF TsAdcFirst
<1>2. CASE TsAdcSecond
  <2>1. /\ adc_state' = 0 /\ ts_conv' = FALSE /\ penStatus' = PEN_DOWN /\ ts_tsc' = "up"
        /\ UNCHANGED <<ts_open, tsEvent, ts_odd>> /\ ts_conv
    BY <1>2 DEF TsAdcSecond
  <2>2. tsEvent # "raw" => ts_timer' = ts_timer
    BY <1>2 DEF TsAdcSecond, TsRaise
  <2>. QED BY <2>1, <2>2
<1>3. CASE TsPenDown
  <2>1. ts_pen' = ts_pen /\ ~ ts_odd => ts_tsc = "down"
    BY <1>3 DEF TsPenDown, TsTouched
  <2>. QED BY <1>3, <2>1 DEF TsPenDown, TsStartAdc
<1>4. CASE TsTimer
  BY <1>4 DEF TsTimer, TsStartAdc
<1>. QED BY <1>1, <1>2, <1>3, <1>4

(* The pen is lifted: the timer stops, unless the device is suspended.     *)
LEMMA PenUpPen == ASSUME PenInv, TsPenUp PROVE PenInv'
<1>. USE DEF PenInv, TsPhase, PEN_UP, PEN_DOWN
<1>1. /\ penStatus' = PEN_UP /\ ts_tsc' = "down" /\ penStatus # PEN_UP /\ TsTouched
      /\ UNCHANGED <<ts_open, tsEvent, adc_state, ts_conv, ts_odd>>
  BY DEF TsPenUp
<1>2. ~ ts_odd => ts_tsc = "up"
  BY <1>1 DEF TsTouched
<1>3. IF tsEvent = "raw" THEN ts_timer' = FALSE ELSE ts_timer' = ts_timer
  BY DEF TsPenUp, TsRaise
<1>. QED BY <1>1, <1>2, <1>3

(* The calls.                                                              *)
LEMMA CallPen ==
  ASSUME PenInv, NEW r \in TsReaders,
         \/ TsOpen(r) \/ TsRelease(r) \/ TsReadLook(r) \/ TsSignal(r)
         \/ TsTake(r) \/ TsSleep(r)
  PROVE  PenInv'
<1>. USE DEF PenInv, TsPhase, tsAdc, tsDev, PEN_UP, PEN_DOWN
<1>1. CASE TsOpen(r)
  BY <1>1 DEF TsOpen
<1>2. CASE TsRelease(r)
  <2>1. r \in ts_open /\ ts_timer' = FALSE /\ ts_open' = ts_open \ {r}
    BY <1>2 DEF TsRelease
  <2>2. ts_odd' = (ts_odd \/ ts_open # {r}) /\ UNCHANGED <<penStatus, tsEvent, tsAdc>>
    BY <1>2 DEF TsRelease
  <2>. QED BY <2>1, <2>2
<1>3. CASE TsReadLook(r) \/ TsSignal(r) \/ TsTake(r) \/ TsSleep(r)
  <2>1. UNCHANGED <<ts_open, penStatus, tsEvent, tsAdc, ts_timer, ts_odd>>
    BY <1>3 DEF TsReadLook, TsSignal, TsTake, TsSleep
  <2>. QED BY <2>1
<1>. QED BY <1>1, <1>2, <1>3

LEMMA NextPen == PenInv /\ [TsNext]_tsVars => PenInv'
<1>. SUFFICES ASSUME PenInv, [TsNext]_tsVars PROVE PenInv'
  OBVIOUS
<1>1. CASE TsTouch \/ UNCHANGED tsVars
  <2>1. UNCHANGED <<ts_open, penStatus, tsEvent, tsAdc, ts_timer, ts_odd>>
    BY <1>1 DEF TsTouch, tsVars
  <2>. QED BY <2>1 DEF PenInv, TsPhase, tsAdc
<1>2. CASE TsSuspend
  BY <1>2 DEF TsSuspend, PenInv
<1>3. CASE TsResume
  BY <1>3 DEF TsResume, PenInv
<1>. QED BY <1>1, <1>2, <1>3, SamplePen, PenUpPen, CallPen DEF TsNext, TsKernel

(* penStatus is what the panel waits for the end of, the two conversions   *)
(* of a sample come in their order, and ts_timer never fires into one or   *)
(* after the pen was lifted.                                               *)
THEOREM PenNeverOutOfStep == TsSpec => []PenInStep
<1>1. PenInv => PenInStep
  BY DEF PenInv, PenInStep
<1>. QED BY <1>1, InitPen, NextPen, PTL DEF TsSpec

-----------------------------------------------------------------------------
(***************************************************************************)
(* TouchScreen again: its ring, for any size, readers and places where     *)
(* they stand.                                                             *)
(***************************************************************************)
(* The ring, and who is on the way to what it holds.                       *)
TsEvents == TsPos \cup {TsUp}
TsAt(i) == IF i < TsSize THEN i ELSE i - TsSize
TsRingType ==
  /\ ts_head \in 0 .. TsSize - 1 /\ ts_tail \in 0 .. TsSize - 1
  /\ ts_buf \in [0 .. TsSize - 1 -> TsEvents] /\ ts_pend \in Seq(TsEvents)
  /\ ts_pc \in [TsReaders -> {"user", "take", "going", "asleep", "woken"}]
TsRingHolds ==
  /\ Len(ts_pend) <= TsSize /\ ts_head = TsAt(ts_tail + Len(ts_pend))
  /\ \A i \in 1 .. Len(ts_pend) : ts_buf[TsAt(ts_tail + i - 1)] = ts_pend[i]
TsNoneShown == Len(ts_pend) \in {0, TsSize}
TsRingInv ==
  /\ TsRingType
  /\ \A r, s \in TsReaders :
       /\ ts_pc[r] \in {"take", "going"} /\ ts_pc[s] \in {"take", "going"} => r = s
       /\ ts_pc[r] = "take" /\ ts_pc[s] = "asleep" /\ s \in ts_wq => s \in ts_missed
  /\ TsRingHolds
  /\ \A r \in TsReaders :
       /\ ts_pc[r] = "take" => ts_pend # <<>>
       /\ ts_pc[r] = "going" /\ r \notin ts_missed => TsNoneShown
       /\ ts_pc[r] = "asleep" /\ r \in ts_wq /\ r \notin ts_missed => TsNoneShown

(* Once around.                                                            *)
LEMMA TsWrap ==
  ASSUME NEW a \in Nat, a < 2 * TsSize
  PROVE  a % TsSize = TsAt(a)
<1>1. TsSize \in Nat \ {0}
  BY TouchAssumption
<1>. QED BY <1>1 DEF TsAt

(* The places of the ring, from the tail on, are different ones.           *)
LEMMA TsPlaces ==
  ASSUME NEW tail \in 0 .. TsSize - 1, NEW i \in 0 .. TsSize - 1, NEW j \in 0 .. TsSize - 1
  PROVE  /\ TsAt(tail + i) \in 0 .. TsSize - 1
         /\ TsAt(tail + i) = TsAt(tail + j) => i = j
         /\ TsIncBuf(TsAt(tail + i)) = TsAt(tail + i + 1)
         /\ TsAt(TsIncBuf(tail) + i) = IF i = TsSize - 1 THEN tail ELSE TsAt(tail + i + 1)
         /\ (TsAt(tail + i) + TsSize - tail) % TsSize = i
         /\ (tail + i) % TsSize = TsAt(tail + i)
         /\ TsIncBuf(tail) \in 0 .. TsSize - 1
<1>1. TsSize \in Nat /\ TsSize > 1
  BY TouchAssumption
<1>2. TsAt(tail + i) \in 0 .. TsSize - 1
  BY <1>1 DEF TsAt
<1>3. TsAt(tail + i) = TsAt(tail + j) => i = j
  BY <1>1 DEF TsAt
<1>4. ASSUME NEW a \in 0 .. TsSize - 1
      PROVE  TsIncBuf(a) = (IF a = TsSize - 1 THEN 0 ELSE a + 1) /\ TsIncBuf(a) \in 0 .. TsSize - 1
  <2>1. a + 1 \in Nat /\ a + 1 < 2 * TsSize
    BY <1>1
  <2>2. TsIncBuf(a) = TsAt(a + 1)
    BY <2>1, TsWrap DEF TsIncBuf
  <2>. QED BY <1>1, <2>2 DEF TsAt
<1>5. TsIncBuf(TsAt(tail + i)) = TsAt(tail + i + 1)
  <2>1. TsIncBuf(TsAt(tail + i)) = IF TsAt(tail + i) = TsSize - 1 THEN 0 ELSE TsAt(tail + i) + 1
    BY <1>2, <1>4
  <2>. QED BY <1>1, <2>1 DEF TsAt
<1>6. TsAt(TsIncBuf(tail) + i) = IF i = TsSize - 1 THEN tail ELSE TsAt(tail + i + 1)
  <2>1. TsIncBuf(tail) = IF tail = TsSize - 1 THEN 0 ELSE tail + 1
    BY <1>4
  <2>. QED BY <1>1, <2>1 DEF TsAt
<1>7. (TsAt(tail + i) + TsSize - tail) % TsSize = i
  <2>. DEFINE a == TsAt(tail + i) + TsSize - tail
  <2>1. a \in Nat /\ a < 2 * TsSize /\ TsAt(a) = i
    BY <1>1 DEF TsAt
  <2>. HIDE DEF a
  <2>2. a % TsSize = i
    BY <2>1, TsWrap
  <2>. QED BY <2>2 DEF a
<1>8. (tail + i) % TsSize = TsAt(tail + i)
  <2>1. tail + i \in Nat /\ tail + i < 2 * TsSize
    BY <1>1
  <2>. QED BY <2>1, TsWrap
<1>. QED BY <1>2, <1>3, <1>4, <1>5, <1>6, <1>7, <1>8

(* The place after the tail, by itself.                                    *)
LEMMA TsNextPlace ==
  ASSUME NEW tail \in 0 .. TsSize - 1, NEW i \in 0 .. TsSize - 1
  PROVE  TsAt(TsIncBuf(tail) + i) = IF i = TsSize - 1 THEN tail ELSE TsAt(tail + i + 1)
BY TsPlaces


(* What the invariant says of the ring is what RingFaithful says.          *)
LEMMA TsRingIs ==
  ASSUME TsRingType, TsRingHolds
  PROVE  /\ TsRing = IF Len(ts_pend) = TsSize THEN <<>> ELSE ts_pend
         /\ ts_head = ts_tail <=> TsNoneShown
         /\ ts_pend # <<>> => ts_buf[ts_tail] = ts_pend[1]
         /\ TsNoneShown => TsRing = <<>>
<1>. DEFINE n == Len(ts_pend)
            m == IF n = TsSize THEN 0 ELSE n
<1>1. TsSize \in Nat /\ TsSize > 1 /\ n \in 0 .. TsSize /\ ts_tail \in 0 .. TsSize - 1
      /\ ts_pend \in Seq(TsEvents) /\ ts_head = TsAt(ts_tail + n)
  BY TouchAssumption DEF TsRingType, TsRingHolds
<1>2. m \in 0 .. TsSize - 1 /\ (m = 0 \/ m = n) /\ ts_head = TsAt(ts_tail + m) /\ (m = 0 <=> TsNoneShown)
  <2>. HIDE DEF n
  <2>1. TsAt(ts_tail + TsSize) = TsAt(ts_tail + 0)
    BY <1>1 DEF TsAt
  <2>. QED BY <1>1, <2>1 DEF TsNoneShown, n
<1>3. (ts_head + TsSize - ts_tail) % TsSize = m
  <2>. HIDE DEF m, n
  <2>1. (TsAt(ts_tail + m) + TsSize - ts_tail) % TsSize = m
    BY <1>1, <1>2, TsPlaces
  <2>. QED BY <1>2, <2>1
<1>4. ASSUME NEW i \in 1 .. m PROVE ts_buf[(ts_tail + i - 1) % TsSize] = ts_pend[i]
  <2>. DEFINE k == i - 1
  <2>1. k \in 0 .. TsSize - 1 /\ ts_tail + k = ts_tail + i - 1 /\ i \in 1 .. n
    BY <1>1, <1>2
  <2>. HIDE DEF k
  <2>2. (ts_tail + k) % TsSize = TsAt(ts_tail + k)
    BY <1>1, <2>1, TsPlaces
  <2>. QED BY <2>1, <2>2 DEF TsRingHolds
<1>5. TsRing = [i \in 1 .. m |-> ts_pend[i]]
  BY <1>3, <1>4 DEF TsRing
<1>6. [i \in 1 .. n |-> ts_pend[i]] = ts_pend /\ [i \in 1 .. 0 |-> ts_pend[i]] = <<>>
  BY <1>1
<1>7. ts_pend # <<>> => ts_buf[ts_tail] = ts_pend[1]
  <2>1. SUFFICES ASSUME ts_pend # <<>> PROVE ts_buf[ts_tail] = ts_pend[1]
    OBVIOUS
  <2>2. 1 \in 1 .. n /\ TsAt(ts_tail + 1 - 1) = ts_tail
    BY <1>1, <2>1 DEF TsAt
  <2>. QED BY <2>2 DEF TsRingHolds
<1>. HIDE DEF m
<1>8. TsAt(ts_tail + m) = ts_tail <=> m = 0
  BY <1>1, <1>2 DEF TsAt
<1>9. TsRing = IF n = TsSize THEN <<>> ELSE ts_pend
  BY <1>5, <1>6 DEF m
<1>10. m = 0 => TsRing = <<>>
  BY <1>5, <1>6
<1>. QED BY <1>2, <1>7, <1>8, <1>9, <1>10


(* An event that is logged is at the end of the ring, or alone in it.      *)
LEMMA TsLogged ==
  ASSUME TsRingType, TsRingHolds, NEW event \in TsEvents, TsLog(event)
  PROVE  /\ ts_head' \in 0 .. TsSize - 1 /\ ts_buf' \in [0 .. TsSize - 1 -> TsEvents]
         /\ ts_pend' \in Seq(TsEvents) /\ ts_tail' = ts_tail
         /\ TsRingHolds' /\ ts_pend' # <<>>
<1>. DEFINE n == Len(ts_pend)
<1>1. /\ TsSize \in Nat /\ TsSize > 1 /\ n \in 0 .. TsSize /\ ts_tail \in 0 .. TsSize - 1 /\ ts_head \in 0 .. TsSize - 1
      /\ ts_pend \in Seq(TsEvents) /\ ts_buf \in [0 .. TsSize - 1 -> TsEvents] /\ ts_head = TsAt(ts_tail + n)
  BY TouchAssumption DEF TsRingType, TsRingHolds
<1>2. /\ ts_buf' = [ts_buf EXCEPT ![ts_head] = event] /\ ts_head' = TsIncBuf(ts_head) /\ ts_tail' = ts_tail
      /\ ts_pend' = IF n = TsSize THEN <<event>> ELSE Append(ts_pend, event)
  BY DEF TsLog
<1>3. ts_head' \in 0 .. TsSize - 1 /\ ts_buf' \in [0 .. TsSize - 1 -> TsEvents]
  BY <1>1, <1>2, TsPlaces
<1>4. ts_pend' \in Seq(TsEvents)
  <2>1. <<event>> \in Seq(TsEvents) /\ Append(ts_pend, event) \in Seq(TsEvents)
    BY <1>1
  <2>. QED BY <1>2, <2>1
<1>5. ASSUME n = TsSize PROVE TsRingHolds' /\ ts_pend' # <<>>
  <2>1. ts_pend' = <<event>> /\ Len(ts_pend') = 1 /\ ts_pend'[1] = event
    BY <1>2, <1>5
  <2>2. ts_head = ts_tail
    BY <1>1, <1>5 DEF TsAt
  <2>3. ts_head' = TsAt(ts_tail' + 1)
    <3>1. ts_tail + 1 \in Nat /\ ts_tail + 1 < 2 * TsSize
      BY <1>1
    <3>. QED BY <1>2, <2>2, <3>1, TsWrap DEF TsIncBuf
  <2>4. TsAt(ts_tail' + 1 - 1) = ts_tail
    BY <1>1, <1>2 DEF TsAt
  <2>5. ts_buf'[ts_tail] = event
    BY <1>1, <1>2, <2>2
  <2>6. \A i \in 1 .. 1 : i = 1
    OBVIOUS
  <2>. HIDE DEF n
  <2>. QED BY <1>1, <2>1, <2>3, <2>4, <2>5, <2>6 DEF TsRingHolds
<1>6. ASSUME n # TsSize PROVE TsRingHolds' /\ ts_pend' # <<>>
  <2>1. n < TsSize /\ ts_pend' = Append(ts_pend, event)
    BY <1>1, <1>2, <1>6
  <2>2. Len(ts_pend') = n + 1 /\ \A i \in 1 .. n : ts_pend'[i] = ts_pend[i]
    BY <1>1, <2>1
  <2>3. ts_pend'[n + 1] = event
    BY <1>1, <2>1
  <2>4. /\ n \in 0 .. TsSize - 1 /\ n + 1 <= TsSize /\ ts_head = TsAt(ts_tail + n)
        /\ \A i \in 1 .. n : ts_buf[TsAt(ts_tail + i - 1)] = ts_pend[i]
    BY <1>1, <2>1 DEF TsRingHolds
  <2>5. ts_pend' # <<>>
    BY <1>1, <2>1
  <2>. HIDE DEF n
  <2>6. ts_head' = TsAt(ts_tail + n + 1) /\ ts_tail + n + 1 = ts_tail + (n + 1)
    <3>1. TsIncBuf(TsAt(ts_tail + n)) = TsAt(ts_tail + n + 1)
      BY <1>1, <2>4, TsPlaces
    <3>. QED BY <1>1, <1>2, <2>4, <3>1
  <2>7. ASSUME NEW i \in 1 .. n + 1 PROVE ts_buf'[TsAt(ts_tail + i - 1)] = ts_pend'[i]
    <3>. DEFINE k == i - 1
    <3>1. k \in 0 .. TsSize - 1 /\ k \in 0 .. n /\ ts_tail + k = ts_tail + i - 1 /\ i = k + 1
      BY <1>1, <2>4
    <3>. HIDE DEF k
    <3>2. TsAt(ts_tail + k) \in 0 .. TsSize - 1 /\ (TsAt(ts_tail + k) = ts_head => k = n)
      <4>1. TsAt(ts_tail + k) \in 0 .. TsSize - 1
        BY <1>1, <3>1, TsPlaces
      <4>2. TsAt(ts_tail + k) = TsAt(ts_tail + n) => k = n
        BY <1>1, <2>4, <3>1 DEF TsAt
      <4>. QED BY <2>4, <4>1, <4>2
    <3>3. CASE k = n
      BY <1>1, <1>2, <2>3, <2>4, <3>1, <3>3
    <3>4. CASE k # n
      <4>1. i \in 1 .. n
        BY <3>1, <3>4, <1>1
      <4>2. ts_buf'[TsAt(ts_tail + k)] = ts_buf[TsAt(ts_tail + k)]
        BY <1>1, <1>2, <3>2, <3>4
      <4>. QED BY <2>2, <2>4, <3>1, <4>1, <4>2
    <3>. QED BY <3>3, <3>4
  <2>. QED BY <1>2, <2>1, <2>2, <2>4, <2>5, <2>6, <2>7 DEF TsRingHolds
<1>. QED BY <1>2, <1>3, <1>4, <1>5, <1>6

(* The oldest event is taken.                                              *)
LEMMA TsTaken ==
  ASSUME TsRingType, TsRingHolds, ts_pend # <<>>,
         ts_tail' = TsIncBuf(ts_tail), ts_pend' = Tail(ts_pend), UNCHANGED <<ts_head, ts_buf>>
  PROVE  TsRingHolds'
<1>. DEFINE n == Len(ts_pend)
<1>1. /\ TsSize \in Nat /\ TsSize > 1 /\ n \in Nat /\ n > 0 /\ n <= TsSize /\ ts_tail \in 0 .. TsSize - 1
      /\ ts_pend \in Seq(TsEvents) /\ ts_head = TsAt(ts_tail + n)
      /\ \A i \in 1 .. n : ts_buf[TsAt(ts_tail + i - 1)] = ts_pend[i]
  BY TouchAssumption DEF TsRingType, TsRingHolds
<1>2. Len(ts_pend') = n - 1 /\ \A i \in 1 .. n - 1 : ts_pend'[i] = ts_pend[i + 1]
  BY <1>1
<1>. HIDE DEF n
<1>3. ASSUME NEW k \in 0 .. n - 1 PROVE TsAt(ts_tail' + k) = TsAt(ts_tail + (k + 1))
  <2>1. k \in 0 .. TsSize - 1 /\ ts_tail + k + 1 = ts_tail + (k + 1)
    BY <1>1
  <2>2. TsAt(TsIncBuf(ts_tail) + k) = IF k = TsSize - 1 THEN ts_tail ELSE TsAt(ts_tail + k + 1)
    <3>1. ts_tail \in 0 .. TsSize - 1
      BY <1>1
    <3>. QED BY <2>1, <3>1, TsNextPlace
  <2>3. k = TsSize - 1 => TsAt(ts_tail + (k + 1)) = ts_tail
    BY <1>1, <2>1 DEF TsAt
  <2>. QED BY <2>1, <2>2, <2>3
<1>4. ts_head' = TsAt(ts_tail' + (n - 1))
  <2>1. n - 1 \in 0 .. n - 1 /\ (n - 1) + 1 = n
    BY <1>1
  <2>. QED BY <1>1, <1>3, <2>1
<1>5. ASSUME NEW i \in 1 .. n - 1 PROVE ts_buf'[TsAt(ts_tail' + i - 1)] = ts_pend'[i]
  <2>. DEFINE k == i - 1
  <2>1. k \in 0 .. n - 1 /\ i = k + 1 /\ ts_tail' + i - 1 = ts_tail' + k /\ i + 1 \in 1 .. n
        /\ ts_tail + (i + 1) - 1 = ts_tail + (k + 1)
    <3>1. ts_tail' \in 0 .. TsSize - 1
      BY <1>1, TsPlaces
    <3>. QED BY <1>1, <3>1
  <2>. HIDE DEF k
  <2>2. TsAt(ts_tail' + k) = TsAt(ts_tail + (k + 1))
    BY <1>3, <2>1
  <2>3. ts_buf[TsAt(ts_tail + (i + 1) - 1)] = ts_pend[i + 1]
    BY <1>1, <2>1
  <2>. QED BY <1>2, <2>1, <2>2, <2>3
<1>6. n - 1 <= TsSize
  BY <1>1
<1>. QED BY <1>2, <1>4, <1>5, <1>6 DEF TsRingHolds

LEMMA TsRingInit == TsInit => TsRingInv
<1>. SUFFICES ASSUME TsInit PROVE TsRingInv
  OBVIOUS
<1>1. TsSize \in Nat /\ TsSize > 1 /\ <<>> \in Seq(TsEvents) /\ Len(<<>>) = 0
  BY TouchAssumption
<1>2. /\ ts_head = 0 /\ ts_tail = 0 /\ ts_buf = [i \in 0 .. TsSize - 1 |-> TsUp]
      /\ ts_pend = <<>> /\ ts_pc = [r \in TsReaders |-> "user"] /\ ts_wq = {}
  BY DEF TsInit
<1>3. TsRingType
  <2>1. 0 \in 0 .. TsSize - 1
    BY <1>1
  <2>. QED BY <1>1, <1>2, <2>1 DEF TsRingType, TsEvents
<1>4. TsRingHolds
  BY <1>1, <1>2 DEF TsRingHolds, TsAt
<1>. QED BY <1>2, <1>3, <1>4 DEF TsRingInv

(* An interrupt raises an event, or none while the device sleeps.          *)
LEMMA TsRaised ==
  ASSUME TsRingInv, NEW event \in TsEvents, TsRaise(event)
  PROVE  TsRingInv'
<1>1. CASE tsEvent = "raw"
  <2>1. TsLog(event) /\ TsWake
    BY <1>1 DEF TsRaise
  <2>2. /\ ts_head' \in 0 .. TsSize - 1 /\ ts_buf' \in [0 .. TsSize - 1 -> TsEvents]
        /\ ts_pend' \in Seq(TsEvents) /\ ts_tail' = ts_tail
        /\ TsRingHolds' /\ ts_pend' # <<>>
    BY <2>1, TsLogged DEF TsRingInv
  <2>3. /\ ts_pc' = [r \in TsReaders |-> IF r \in ts_wq THEN "woken" ELSE ts_pc[r]] /\ ts_wq' = {}
        /\ ts_missed' = (ts_missed \ ts_wq) \cup {r \in TsReaders : ts_pc[r] = "going"}
    BY <2>1 DEF TsWake
  <2>4. TsRingType'
    BY <2>2, <2>3 DEF TsRingInv, TsRingType
  <2>5. \A r \in TsReaders : ts_pc'[r] \in {"take", "going"} => ts_pc[r] = ts_pc'[r]
    BY <2>3
  <2>. QED BY <2>2, <2>3, <2>4, <2>5 DEF TsRingInv
<1>2. CASE tsEvent # "raw"
  BY <1>2 DEF TsRaise, tsDev, TsRingInv, TsRingType, TsRingHolds, TsNoneShown
<1>. QED BY <1>1, <1>2

(* Every step keeps the ring.                                              *)
LEMMA TsRingNext == TsRingInv /\ [TsNext]_tsVars => TsRingInv'
<1>. SUFFICES ASSUME TsRingInv, [TsNext]_tsVars PROVE TsRingInv'
  OBVIOUS
<1>0. TsRingType
  BY DEF TsRingInv
<1>1. ASSUME UNCHANGED <<ts_pc, ts_wq, tsDev, ts_missed>> PROVE TsRingInv'
  BY <1>1 DEF tsDev, TsRingInv, TsRingType, TsRingHolds, TsNoneShown
<1>2. CASE UNCHANGED tsVars
  BY <1>1, <1>2 DEF tsVars
<1>3. CASE TsAdcFirst \/ TsPenDown \/ TsTimer \/ TsTouch \/ TsSuspend \/ TsResume
  BY <1>1, <1>3 DEF TsAdcFirst, TsPenDown, TsTimer, TsTouch, TsSuspend, TsResume
<1>4. CASE TsAdcSecond
  <2>1. PICK position \in TsPos : TsRaise(position)
    BY <1>4 DEF TsAdcSecond
  <2>. QED BY <2>1, TsRaised DEF TsEvents
<1>5. CASE TsPenUp
  BY <1>5, TsRaised DEF TsPenUp, TsEvents
<1>6. ASSUME NEW r \in TsReaders, TsOpen(r) PROVE TsRingInv'
  <2>1. /\ \A s \in TsReaders : ts_pc[s] \notin {"take", "going"}
        /\ ts_head' = 0 /\ ts_tail' = 0 /\ ts_pend' = <<>>
        /\ ts_pc' = ts_pc /\ ts_buf' = ts_buf
    BY <1>6 DEF TsOpen, TsFree
  <2>2. TsSize \in Nat /\ TsSize > 1 /\ <<>> \in Seq(TsEvents) /\ Len(<<>>) = 0
    BY TouchAssumption
  <2>3. TsRingType'
    <3>1. 0 \in 0 .. TsSize - 1
      BY <2>2
    <3>. QED BY <1>0, <2>1, <2>2, <3>1 DEF TsRingType
  <2>4. TsRingHolds'
    BY <2>1, <2>2 DEF TsRingHolds, TsAt
  <2>. QED BY <2>1, <2>2, <2>3, <2>4 DEF TsRingInv, TsNoneShown
<1>7. ASSUME NEW r \in TsReaders, TsRelease(r) PROVE TsRingInv'
  BY <1>1, <1>7 DEF TsRelease
<1>8. ASSUME NEW r \in TsReaders, TsReadLook(r) PROVE TsRingInv'
  <2>1. /\ \A s \in TsReaders : ts_pc[s] \notin {"take", "going"}
        /\ UNCHANGED <<tsDev, ts_wq, ts_missed>>
        /\ \/ ts_pc' = [ts_pc EXCEPT ![r] = IF ts_head # ts_tail THEN "take" ELSE "going"]
           \/ ts_pc' = [ts_pc EXCEPT ![r] = "user"]
    BY <1>8 DEF TsReadLook, TsFree
  <2>2. TsRingType'
    BY <1>0, <2>1 DEF TsRingType, tsDev
  <2>3. /\ ts_head = ts_tail <=> TsNoneShown
        /\ ts_pend = <<>> => TsNoneShown
    BY <1>0, TsRingIs DEF TsRingInv, TsNoneShown
  <2>4. TsRingHolds'
    BY <2>1 DEF TsRingInv, TsRingHolds, tsDev
  <2>. QED BY <1>0, <2>1, <2>2, <2>3, <2>4 DEF TsRingInv, TsRingType, TsNoneShown, tsDev
<1>9. ASSUME NEW r \in TsReaders, TsTake(r) PROVE TsRingInv'
  <2>1. /\ ts_pc[r] = "take" /\ ts_tail' = TsIncBuf(ts_tail)
        /\ ts_pend' = IF ts_pend = <<>> THEN <<>> ELSE Tail(ts_pend)
        /\ ts_pc' = [ts_pc EXCEPT ![r] = "user"]
        /\ UNCHANGED <<ts_wq, ts_head, ts_buf, ts_missed>>
    BY <1>9 DEF TsTake
  <2>2. ts_tail' \in 0 .. TsSize - 1
    BY <1>0, <2>1, TsPlaces DEF TsRingType
  <2>3. ts_pend' \in Seq(TsEvents) /\ (ts_pend = <<>> => ts_pend' = <<>>)
    <3>1. ts_pend \in Seq(TsEvents)
      BY <1>0 DEF TsRingType
    <3>2. ts_pend # <<>> => Tail(ts_pend) \in Seq(TsEvents)
      BY <3>1
    <3>. QED BY <2>1, <3>1, <3>2
  <2>4. TsRingType'
    BY <1>0, <2>1, <2>2, <2>3 DEF TsRingType
  <2>5. TsRingHolds'
    BY <1>0, <2>1, TsTaken DEF TsRingInv
  <2>6. \A s \in TsReaders : ts_pc'[s] = ts_pc[s] \/ ts_pc'[s] = "user"
    BY <1>0, <2>1 DEF TsRingType
  <2>7. \A s \in TsReaders : ts_pc'[s] # "take"
    BY <1>0, <2>1 DEF TsRingType, TsRingInv
  <2>. QED BY <2>1, <2>3, <2>4, <2>5, <2>6, <2>7 DEF TsRingInv
<1>10. ASSUME NEW r \in TsReaders, TsSleep(r) PROVE TsRingInv'
  <2>1. /\ ts_pc[r] = "going" /\ ts_pc' = [ts_pc EXCEPT ![r] = "asleep"]
        /\ ts_wq' = ts_wq \cup {r} /\ UNCHANGED <<tsDev, ts_missed>>
    BY <1>10 DEF TsSleep
  <2>2. TsRingType' /\ (TsRingHolds' <=> TsRingHolds) /\ (TsNoneShown' <=> TsNoneShown)
    BY <1>0, <2>1 DEF TsRingType, TsRingHolds, TsNoneShown, tsDev
  <2>. QED BY <1>0, <2>1, <2>2 DEF TsRingInv, TsRingType, tsDev
<1>11. ASSUME NEW r \in TsReaders, TsSignal(r) PROVE TsRingInv'
  <2>1. /\ ts_pc[r] = "asleep" /\ ts_pc' = [ts_pc EXCEPT ![r] = "user"]
        /\ ts_wq' = ts_wq \ {r} /\ ts_missed' = ts_missed \ {r} /\ UNCHANGED tsDev
    BY <1>11 DEF TsSignal
  <2>2. TsRingType' /\ (TsRingHolds' <=> TsRingHolds) /\ (TsNoneShown' <=> TsNoneShown)
    BY <1>0, <2>1 DEF TsRingType, TsRingHolds, TsNoneShown, tsDev
  <2>. QED BY <1>0, <2>1, <2>2 DEF TsRingInv, TsRingType, tsDev
<1>. QED BY <1>2, <1>3, <1>4, <1>5, <1>6, <1>7, <1>8, <1>9, <1>10, <1>11 DEF TsNext, TsKernel

(* The ring holds the events that nobody has read, in their order and      *)
(* wherever in it they lie, but none of TsSize; a reader takes the oldest  *)
(* one, and no reader in the queue sleeps beside one but who was going to  *)
(* sleep when it came.                                                     *)
THEOREM EventsKeptInOrder == TsSpec => []RingFaithful
<1>1. TsRingInv => RingFaithful
  BY TsRingIs DEF TsRingInv, RingFaithful
<1>. QED BY <1>1, TsRingInit, TsRingNext, PTL DEF TsSpec

-----------------------------------------------------------------------------
(***************************************************************************)
(* Watchdog: what runs, and how long, for any timeouts that are asked for  *)
(* and any order of open, write, ioctl, release, suspend and resume.       *)
(***************************************************************************)
(* A set of numbers that is not empty has a least one.                     *)
LEMMA LeastNumber ==
  ASSUME NEW S \in SUBSET Nat, S # {}
  PROVE  \E d \in S : \A e \in S : d <= e
<1>. DEFINE R == OpToRel(<, Nat)
<1>1. PICK x \in S : \A y \in S : ~ (<<y, x>> \in R)
  BY NatLessThanWellFounded, WFMin, Zenon
<1>2. ASSUME NEW y \in S, y < x PROVE FALSE
  BY <1>1, <1>2 DEF OpToRel
<1>. QED BY <1>2

(* Whole steps of a divisor, and what is less than one more.               *)
LEMMA Steps ==
  ASSUME NEW c \in Nat, NEW d \in Nat \ {0}
  PROVE  /\ c \div d \in Nat
         /\ (c \div d) * d <= c /\ (c \div d + 1) * d > c
OBVIOUS

(* The count of a timeout that a word holds is not cut.                    *)
LEMMA CountType ==
  ASSUME NEW timeout \in Int
  PROVE  /\ WtCount(timeout) \in Nat
         /\ timeout >= 1 /\ timeout * WtFreq < WtWord => WtCount(timeout) = timeout * WtFreq
<1>. DEFINE p == timeout * WtFreq
<1>1. p \in Int /\ WtWord \in Nat \ {0} /\ (timeout >= 1 => p \in Nat)
  BY WatchdogAssumption
<1>. HIDE DEF p
<1>2. p % WtWord \in Nat /\ (p \in Nat /\ p < WtWord => p % WtWord = p)
  BY <1>1
<1>. QED BY <1>1, <1>2 DEF WtCount, p

(* For a timeout that fits the search finds a divisor.                     *)
LEMMA DivisorFound ==
  ASSUME NEW timeout \in Int, WtFits(timeout)
  PROVE  WtDivisor(timeout) \in 1 .. WtDivisors
<1>. DEFINE c == WtCount(timeout)
            S == {d \in 1 .. WtDivisors : c \div d < WtReg}
<1>1. c \in Nat /\ WtDivisors \in 1 .. WtDivisors /\ WtReg \in Nat /\ WtDivisors \in Nat
  BY CountType, WatchdogAssumption
<1>2. WtDivisors \in S /\ S \in SUBSET Nat
  BY <1>1 DEF WtFits
<1>3. PICK d \in S : \A e \in S : d <= e
  BY <1>2, LeastNumber
<1>. HIDE DEF c
<1>4. ASSUME NEW e \in 1 .. d - 1 PROVE c \div e >= WtReg
  <2>1. e \in Nat \ {0} /\ e < d /\ e \in 1 .. WtDivisors /\ d \in Nat
    BY <1>1
  <2>2. e \notin S
    BY <1>3, <2>1
  <2>3. c \div e \in Nat
    BY <1>1, <2>1, Steps
  <2>. QED BY <1>1, <2>1, <2>2, <2>3
<1>5. \E x \in 1 .. WtDivisors :
        c \div x < WtReg /\ \A e \in 1 .. x - 1 : c \div e >= WtReg
  BY <1>4
<1>. QED BY <1>5 DEF WtDivisor, c

(* The registers, as the driver leaves them.                               *)
WtCons == [enable : BOOLEAN, rsten : BOOLEAN, inten : BOOLEAN, div : 1 .. WtDivisors]
WtRight(con) ==
  /\ con.enable <=> wt_owed
  /\ con.enable => (con.rsten <=> ~ con.inten) /\ (con.inten <=> wt_par.noboot)
WtType ==
  /\ wt_par \in [atboot : BOOLEAN, nowayout : BOOLEAN, noboot : BOOLEAN]
  /\ wt_owed \in BOOLEAN /\ allow_close \in BOOLEAN
  /\ tmr_margin \in Int /\ wdt_count \in Nat /\ wtcnt \in Nat
  /\ wtcon \in WtCons /\ wt_saved.con \in WtCons
WtInv ==
  /\ WtType
  /\ wt_par.nowayout => ~ allow_close
  /\ WtOn => WtRight(wtcon)
  /\ wt_power = "sleep" =>
       WtRight(wt_saved.con) /\ wt_saved.con.div = wtcon.div /\ wt_saved.dat = wdt_count
  /\ (wtcon.enable => wtcnt <= wdt_count) /\ wtdat = wdt_count
  /\ tmr_margin >= 1 /\ wdt_count = WtCount(tmr_margin) \div wtcon.div

LEMMA WtInitInv == WtInit => WtInv
<1>. SUFFICES ASSUME WtInit PROVE WtInv
  OBVIOUS
<1>. DEFINE margin == IF WtFits(WtMargin) THEN WtMargin ELSE WtDefault
            n == WtCount(margin) \div WtDivisor(margin)
            off == [enable |-> FALSE, rsten |-> FALSE, inten |-> FALSE, div |-> WtDivisor(margin)]
<1>1. margin \in Int /\ WtFits(margin) /\ margin >= 1
  <2>1. WtDefault \in Int /\ WtDefault >= 1 /\ WtDefault * WtFreq < WtWord /\ WtDefault * WtFreq < WtReg
    BY WatchdogAssumption
  <2>2. WtCount(WtDefault) = WtDefault * WtFreq /\ WtCount(WtDefault) \in Nat
    BY <2>1, CountType
  <2>3. WtCount(WtDefault) \div WtDivisors <= WtCount(WtDefault)
    <3>. DEFINE c == WtCount(WtDefault) q == c \div WtDivisors
    <3>1. c \in Nat /\ WtDivisors \in Nat \ {0}
      BY <2>2, WatchdogAssumption
    <3>2. q \in Nat /\ q * WtDivisors <= c
      BY <3>1, Steps
    <3>. HIDE DEF c, q
    <3>3. q <= q * WtDivisors /\ q * WtDivisors \in Nat
      BY <3>1, <3>2
    <3>4. q <= c
      BY <3>1, <3>2, <3>3
    <3>. QED BY <3>4 DEF q, c
  <2>4. WtCount(WtDefault) \div WtDivisors \in Nat /\ WtReg \in Nat
    BY <2>2, Steps, WatchdogAssumption
  <2>5. WtFits(WtDefault)
    BY <2>1, <2>2, <2>3, <2>4 DEF WtFits
  <2>6. WtFits(WtMargin) => WtMargin >= 1
    BY DEF WtFits
  <2>. QED BY <2>1, <2>5, <2>6, WatchdogAssumption
<1>2. WtDivisor(margin) \in 1 .. WtDivisors /\ WtCount(margin) \in Nat
  BY <1>1, DivisorFound, CountType
<1>3. n \in Nat
  <2>1. WtDivisor(margin) \in Nat \ {0}
    BY <1>2, WatchdogAssumption
  <2>. QED BY <1>2, <2>1, Steps
<1>4. /\ wt_par \in WtBoots /\ tmr_margin = margin /\ wdt_count = n /\ wtdat = n
      /\ wtcnt \in IF wtcon.enable THEN {n} ELSE 0 .. WtReg - 1
      /\ wtcon = IF wt_par.atboot /\ WtFits(WtMargin) THEN WtStarted(off, wt_par.noboot) ELSE off
      /\ wt_saved = [con |-> off, dat |-> n]
      /\ wt_owed = (wt_par.atboot /\ WtFits(WtMargin)) /\ allow_close = FALSE /\ wt_power = "on"
  BY DEF WtInit
<1>5. wt_par \in [atboot : BOOLEAN, nowayout : BOOLEAN, noboot : BOOLEAN]
  BY <1>4, WatchdogAssumption
<1>. HIDE DEF margin, n
<1>6. off \in WtCons /\ off.div = WtDivisor(margin) /\ off.enable = FALSE
  BY <1>2 DEF WtCons
<1>7. /\ WtStarted(off, wt_par.noboot) \in WtCons
      /\ WtStarted(off, wt_par.noboot).div = WtDivisor(margin)
      /\ WtStarted(off, wt_par.noboot).enable = TRUE
      /\ WtStarted(off, wt_par.noboot).inten = wt_par.noboot
      /\ WtStarted(off, wt_par.noboot).rsten = ~ wt_par.noboot
  BY <1>2, <1>5 DEF WtCons, WtStarted
<1>. HIDE DEF off
<1>8. wtcon \in WtCons /\ wtcon.div = WtDivisor(margin) /\ WtRight(wtcon)
  <2>1. CASE wt_par.atboot /\ WtFits(WtMargin)
    BY <1>4, <1>7, <2>1 DEF WtRight
  <2>2. CASE ~ (wt_par.atboot /\ WtFits(WtMargin))
    BY <1>4, <1>6, <2>2 DEF WtRight
  <2>. QED BY <2>1, <2>2
<1>9. n = WtCount(margin) \div WtDivisor(margin)
  BY DEF n
<1>10. wt_owed \in BOOLEAN /\ wt_saved.con = off
  BY <1>4
<1>11. WtType
  <2>1. wtcnt \in Nat
    BY <1>3, <1>4, WatchdogAssumption
  <2>. QED BY <1>1, <1>3, <1>4, <1>5, <1>6, <1>8, <1>10, <2>1 DEF WtType
<1>12. wtcon.enable => wtcnt <= wdt_count
  BY <1>3, <1>4
<1>. QED BY <1>1, <1>3, <1>4, <1>8, <1>9, <1>11, <1>12 DEF WtInv

LEMMA WtNextInv == WtInv /\ [WtNext]_wtVars => WtInv'
<1>. SUFFICES ASSUME WtInv, [WtNext]_wtVars PROVE WtInv'
  OBVIOUS
<1>0. /\ wtcon \in WtCons /\ wtcon.div \in 1 .. WtDivisors /\ wt_par.noboot \in BOOLEAN
      /\ wdt_count \in Nat /\ wtcnt \in Nat
  BY DEF WtInv, WtType, WtCons
<1>1. /\ WtStarted(wtcon, wt_par.noboot) \in WtCons
      /\ WtStarted(wtcon, wt_par.noboot).div = wtcon.div
      /\ WtStarted(wtcon, wt_par.noboot).enable = TRUE
      /\ WtStarted(wtcon, wt_par.noboot).inten = wt_par.noboot
      /\ WtStarted(wtcon, wt_par.noboot).rsten = ~ wt_par.noboot
  BY <1>0 DEF WtCons, WtStarted
<1>2. WtStopped(wtcon) \in WtCons /\ WtStopped(wtcon).div = wtcon.div /\ WtStopped(wtcon).enable = FALSE
  BY <1>0 DEF WtCons, WtStopped
<1>3. CASE UNCHANGED wtVars
  BY <1>3 DEF wtVars, wtRegs, WtInv, WtType, WtRight, WtOn
<1>4. CASE WtOpen
  <2>1. /\ wt_power = "on" /\ wtcon' = WtStarted(wtcon, wt_par.noboot) /\ wt_owed' = TRUE
        /\ wtdat' = wdt_count /\ wtcnt' = wdt_count
        /\ allow_close' = (allow_close \/ ~ wt_par.nowayout)
        /\ UNCHANGED <<wt_par, tmr_margin, wdt_count, wt_saved, wt_power>>
    BY <1>4 DEF WtOpen, WtOn
  <2>2. wtcon' \in WtCons /\ wtcon'.div = wtcon.div /\ WtRight(wtcon)'
    <3>. HIDE DEF WtStarted
    <3>. QED BY <1>1, <2>1 DEF WtRight
  <2>3. allow_close' \in BOOLEAN /\ (wt_par.nowayout => ~ allow_close')
    BY <2>1 DEF WtInv, WtType
  <2>. QED BY <1>0, <2>1, <2>2, <2>3 DEF WtInv, WtType, WtOn
<1>5. CASE WtWriteBegin \/ WtWriteMagic
  <2>1. UNCHANGED <<wt_par, tmr_margin, wdt_count, wtRegs, wt_saved, wt_power, wt_owed>>
    BY <1>5 DEF WtWriteBegin, WtWriteMagic
  <2>2. allow_close' \in BOOLEAN /\ (wt_par.nowayout => ~ allow_close')
    BY <1>5 DEF WtWriteBegin, WtWriteMagic, WtInv, WtType
  <2>. QED BY <2>1, <2>2 DEF WtInv, WtType, WtRight, WtOn, wtRegs
<1>6. CASE WtWriteEnd \/ WtKeepaliveIoctl
  BY <1>0, <1>6 DEF WtWriteEnd, WtKeepaliveIoctl, WtKeepalive, WtInv, WtType, WtRight, WtOn
<1>7. CASE WtSetTimeout
  <2>1. PICK timeout \in WtTimeouts : WtFits(timeout) /\ SetHeartbeat(timeout)
    BY <1>7 DEF WtSetTimeout
  <2>. DEFINE d == WtDivisor(timeout) n == WtCount(timeout) \div d
  <2>2. timeout \in Int /\ timeout >= 1
    BY <2>1, WatchdogAssumption DEF WtFits
  <2>3. d \in 1 .. WtDivisors /\ WtCount(timeout) \in Nat
    BY <2>1, <2>2, DivisorFound, CountType
  <2>4. n \in Nat
    <3>1. d \in Nat \ {0}
      BY <2>3, WatchdogAssumption
    <3>. QED BY <2>3, <3>1, Steps
  <2>5. /\ tmr_margin' = timeout /\ wdt_count' = n /\ wtdat' = n /\ wtcnt' = n
        /\ wtcon' = [wtcon EXCEPT !.div = d] /\ WtOn
        /\ UNCHANGED <<wt_par, allow_close, wt_saved, wt_power, wt_owed>>
    BY <1>7, <2>1 DEF WtSetTimeout, SetHeartbeat
  <2>6. n = WtCount(timeout) \div d
    OBVIOUS
  <2>. HIDE DEF d, n
  <2>7. /\ wtcon' \in WtCons /\ wtcon'.div = d /\ wtcon'.enable = wtcon.enable
        /\ wtcon'.rsten = wtcon.rsten /\ wtcon'.inten = wtcon.inten
    BY <1>0, <2>3, <2>5 DEF WtCons
  <2>8. WtRight(wtcon)'
    BY <2>5, <2>7 DEF WtInv, WtRight
  <2>9. WtType'
    BY <2>2, <2>4, <2>5, <2>7 DEF WtInv, WtType
  <2>. QED BY <2>2, <2>4, <2>5, <2>6, <2>7, <2>8, <2>9 DEF WtInv, WtOn, WtRight
<1>8. CASE WtRelease
  <2>1. CASE allow_close
    BY <1>0, <1>2, <1>8, <2>1 DEF WtRelease, WtInv, WtType, WtRight, WtOn
  <2>2. CASE ~ allow_close
    <3>1. /\ wtcnt' = wdt_count /\ allow_close' = FALSE
          /\ UNCHANGED <<wt_par, tmr_margin, wdt_count, wtcon, wtdat, wt_saved, wt_power, wt_owed>>
      BY <1>8, <2>2 DEF WtRelease, WtKeepalive
    <3>2. WtType'
      BY <1>0, <3>1 DEF WtInv, WtType
    <3>3. WtRight(wtcon)' <=> WtRight(wtcon)
      BY <3>1 DEF WtRight
    <3>4. (wtcon'.enable => wtcnt' <= wdt_count') /\ wtdat' = wdt_count'
      BY <1>0, <3>1 DEF WtInv
    <3>. QED BY <1>8, <3>1, <3>2, <3>3, <3>4 DEF WtRelease, WtInv, WtOn
  <2>. QED BY <2>1, <2>2
<1>9. CASE WtTick
  <2>1. wtcnt' \in Nat /\ wtcnt' <= wdt_count
    BY <1>0, <1>9 DEF WtTick, WtInv
  <2>2. UNCHANGED <<wt_par, allow_close, tmr_margin, wdt_count, wtcon, wtdat, wt_saved, wt_owed>>
    BY <1>9 DEF WtTick
  <2>3. wt_power' = wt_power \/ wt_power' = "reset"
    BY <1>9 DEF WtTick
  <2>. QED BY <2>1, <2>2, <2>3 DEF WtInv, WtType, WtRight, WtOn
<1>10. CASE WtSuspend
  BY <1>0, <1>2, <1>10 DEF WtSuspend, WtInv, WtType, WtRight, WtOn
<1>11. CASE WtResume
  BY <1>0, <1>11 DEF WtResume, WtInv, WtType, WtRight, WtOn
<1>12. CASE WtShutdown
  BY <1>0, <1>2, <1>12 DEF WtShutdown, WtInv, WtType, WtRight, WtOn
<1>. QED BY <1>3, <1>4, <1>5, <1>6, <1>7, <1>8, <1>9, <1>10, <1>11, <1>12 DEF WtNext

(* The watchdog runs as it was told, but for who may stop it, before and   *)
(* after a sleep, and bites within a step of the prescaler of its timeout, *)
(* for any clock, word, register and prescaler.                            *)
THEOREM WatchdogNeverForgets == WtSpec => []WatchdogKept
<1>1. WtInv => WatchdogKept
  <2>. SUFFICES ASSUME WtInv PROVE WatchdogKept
    OBVIOUS
  <2>1. WtKeptRunning
    <3>1. wtcon.enable \in BOOLEAN /\ wtcon.rsten \in BOOLEAN /\ wtcon.inten \in BOOLEAN
          /\ wt_par.noboot \in BOOLEAN /\ wt_owed \in BOOLEAN
      BY DEF WtInv, WtType, WtCons
    <3>2. WtOn => /\ wtcon.enable <=> wt_owed
                  /\ wtcon.enable => (wtcon.rsten <=> ~ wtcon.inten) /\ (wtcon.inten <=> wt_par.noboot)
                  /\ wt_par.nowayout => ~ allow_close
      BY DEF WtInv, WtRight
    <3>. QED BY <3>1, <3>2 DEF WtKeptRunning
  <2>2. WtKeptInTime
    <3>. DEFINE c == WtCount(tmr_margin)
    <3>1. c \in Nat /\ wtcon.div \in Nat \ {0}
      BY CountType, WatchdogAssumption DEF WtInv, WtType, WtCons
    <3>2. wdt_count = c \div wtcon.div
      BY DEF WtInv
    <3>3. wdt_count * wtcon.div <= c /\ (wdt_count + 1) * wtcon.div > c
      BY <3>1, <3>2, Steps
    <3>4. tmr_margin * WtFreq < WtWord => c = tmr_margin * WtFreq
      BY CountType DEF WtInv, WtType
    <3>. HIDE DEF c
    <3>5. (wtcon.enable => wtcnt <= wdt_count) /\ wtdat = wdt_count
      BY DEF WtInv
    <3>. QED BY <3>2, <3>3, <3>4, <3>5 DEF WtKeptInTime, c
  <2>. QED BY <2>1, <2>2 DEF WatchdogKept
<1>. QED BY <1>1, WtInitInv, WtNextInv, PTL DEF WtSpec

-----------------------------------------------------------------------------
(***************************************************************************)
(* Rtc: each register is read and written by itself while the clock goes   *)
(* on.                                                                     *)
(***************************************************************************)
(* Times, and the second after one that is not the last of its minute.     *)
LEMMA TimeParts ==
  /\ \A t \in RtTimes : t.sec \in 0 .. RtSecs - 1 /\ t.min \in 0 .. RtMins - 1 /\ t.hour \in 0 .. RtHours - 1
  /\ \A t \in RtTimes, u \in RtTimes : t.sec = u.sec /\ t.min = u.min /\ t.hour = u.hour => t = u
  /\ RtZero \in RtTimes
<1>1. RtSecs \in Nat /\ RtSecs > 1 /\ RtMins \in Nat /\ RtMins > 1 /\ RtHours \in Nat /\ RtHours > 0
  BY RtcAssumption
<1>2. RtZero \in RtTimes
  <2>1. 0 \in 0 .. RtSecs - 1 /\ 0 \in 0 .. RtMins - 1 /\ 0 \in 0 .. RtHours - 1
    BY <1>1
  <2>. QED BY <2>1 DEF RtZero, RtTimes
<1>. QED BY <1>2 DEF RtTimes

LEMMA LaterTime ==
  ASSUME NEW t \in RtTimes
  PROVE  /\ RtLater(t) \in RtTimes
         /\ t.sec # RtSecs - 1 =>
              RtLater(t).sec = t.sec + 1 /\ RtLater(t).min = t.min /\ RtLater(t).hour = t.hour
         /\ t.sec = RtSecs - 1 => RtLater(t).sec = 0
<1>. DEFINE min == t.min + (IF t.sec = RtSecs - 1 THEN 1 ELSE 0)
            hour == t.hour + (IF min = RtMins THEN 1 ELSE 0)
<1>1. /\ RtSecs \in Nat \ {0} /\ RtMins \in Nat \ {0} /\ RtHours \in Nat \ {0}
      /\ t.sec \in 0 .. RtSecs - 1 /\ t.min \in 0 .. RtMins - 1 /\ t.hour \in 0 .. RtHours - 1
  BY RtcAssumption, TimeParts
<1>2. RtLater(t) = [sec |-> (t.sec + 1) % RtSecs, min |-> min % RtMins, hour |-> hour % RtHours]
  BY DEF RtLater
<1>3. min \in Nat /\ hour \in Nat
  BY <1>1
<1>4. t.sec # RtSecs - 1 => min = t.min /\ hour = t.hour
  BY <1>1
<1>. HIDE DEF min, hour
<1>5. (t.sec + 1) % RtSecs = IF t.sec = RtSecs - 1 THEN 0 ELSE t.sec + 1
  <2>1. t.sec = RtSecs - 1 => t.sec + 1 = RtSecs
    BY <1>1
  <2>2. RtSecs % RtSecs = 0
    BY <1>1
  <2>3. t.sec # RtSecs - 1 => (t.sec + 1) % RtSecs = t.sec + 1
    BY <1>1
  <2>. QED BY <2>1, <2>2, <2>3
<1>6. min % RtMins \in 0 .. RtMins - 1 /\ hour % RtHours \in 0 .. RtHours - 1
  BY <1>1, <1>3
<1>7. t.min % RtMins = t.min /\ t.hour % RtHours = t.hour
  BY <1>1
<1>8. (IF t.sec = RtSecs - 1 THEN 0 ELSE t.sec + 1) \in 0 .. RtSecs - 1
  BY <1>1
<1>. QED BY <1>2, <1>4, <1>5, <1>6, <1>7, <1>8 DEF RtTimes

-----------------------------------------------------------------------------
RtTicnts == [enable : BOOLEAN, freq : Nat]
RtCalls == [op : {"none", "get", "set", "alarm"}, tm : RtTimes, fields : SUBSET (RtFields \cup {"ALMEN"})]
RtType ==
  /\ rt_clock \in RtTimes /\ rt_alarm \in RtTimes /\ rtcalm \subseteq RtFields \cup {"ALMEN"}
  /\ ticnt \in RtTicnts /\ ticnt_save \in RtTicnts
  /\ rt_use \in [open : BOOLEAN, asleep : BOOLEAN]
  /\ rt_call \in RtCalls /\ rt_retried \in BOOLEAN /\ rt_shown \in Seq(RtTimes)

(* Where a call stands, and what the clock has shown: one time, or that    *)
(* and the next.                                                           *)
RtStands ==
  /\ rt_pc \in {"user", "sec", "min", "hour", "enable", "done"}
  /\ rt_pc = "user" <=> rt_call.op = "none"
  /\ rt_pc = "enable" => rt_call.op = "alarm"
RtShows ==
  /\ Len(rt_shown) \in {1, 2}
  /\ rt_call.op # "set" =>
       /\ rt_clock = rt_shown[Len(rt_shown)]
       /\ Len(rt_shown) = 2 => rt_shown[2] = RtLater(rt_shown[1])

(* A read has each field from one of the two times; a second reading has   *)
(* them from the second, or from two that differ in their seconds only.    *)
RtReadSoFar == [min |-> {}, hour |-> {"min"}, sec |-> {"min", "hour"}]
RtReads ==
  rt_call.op = "get" =>
    /\ rt_pc \in {"min", "hour", "sec"} =>
         /\ \A f \in RtReadSoFar[rt_pc] : rt_call.tm[f] \in {rt_shown[1][f], rt_clock[f]}
         /\ rt_retried =>
              \/ rt_shown[1].sec = 0
              \/ Len(rt_shown) = 2 /\ \A f \in RtReadSoFar[rt_pc] : rt_call.tm[f] = rt_clock[f]
    /\ rt_pc = "done" => \E i \in DOMAIN rt_shown : rt_call.tm = rt_shown[i]

(* A set has left its fields in the clock, which went on by a second, if   *)
(* it did, without a carry.                                                *)
RtSetSoFar == [sec |-> {}, min |-> {"sec"}, hour |-> {"sec", "min"}, done |-> RtFields]
RtSets ==
  rt_call.op = "set" =>
    /\ rt_pc \in {"sec", "min", "hour", "done"}
    /\ rt_call.tm.sec # RtSecs - 1 =>
         /\ "sec" \in RtSetSoFar[rt_pc] =>
              rt_clock.sec = rt_call.tm.sec \/ (Len(rt_shown) = 2 /\ rt_clock.sec = rt_call.tm.sec + 1)
         /\ \A f \in RtSetSoFar[rt_pc] \ {"sec"} : rt_clock[f] = rt_call.tm[f]

(* What is compared is an alarm that was set, and nothing is compared      *)
(* while the registers of another are written.                             *)
RtAlarmSoFar == [sec |-> {}, min |-> {"sec"}, hour |-> {"sec", "min"}, enable |-> RtFields]
RtAlarms ==
  /\ ~ rt_false
  /\ rtcalm \ {"ALMEN"} # {} =>
       \E w \in rt_want : w.fields = rtcalm \ {"ALMEN"} /\ \A f \in w.fields : rt_alarm[f] = w.tm[f]
  /\ rt_call.op = "alarm" /\ rt_pc # "done" =>
       /\ rt_pc \in {"sec", "min", "hour", "enable"} /\ rtcalm = {}
       /\ \A f \in RtAlarmSoFar[rt_pc] \cap rt_call.fields : rt_alarm[f] = rt_call.tm[f]

(* The periodic interrupt, as it is or as it will be after a sleep.        *)
RtPeriodic ==
  LET kept == IF rt_use.asleep THEN ticnt_save ELSE ticnt
  IN  /\ kept.enable => rt_use.open
      /\ rt_use.open => "tick" \in rt_irqs
      /\ kept.freq = s3c2410_rtc_freq
RtInv == RtType /\ RtStands /\ RtShows /\ RtReads /\ RtSets /\ RtAlarms /\ RtPeriodic

LEMMA RtInitInv == RtInit => RtInv
<1>. SUFFICES ASSUME RtInit PROVE RtInv
  OBVIOUS
<1>1. RtType
  <2>1. <<RtZero>> \in Seq(RtTimes) /\ RtNoCall \in RtCalls
    BY TimeParts DEF RtNoCall, RtCalls
  <2>. QED BY <2>1, TimeParts DEF RtInit, RtType, RtTicnts
<1>2. Len(<<RtZero>>) = 1 /\ <<RtZero>>[1] = RtZero
  OBVIOUS
<1>3. /\ rt_clock = RtZero /\ rtcalm = {} /\ ticnt = [enable |-> FALSE, freq |-> 1] /\ s3c2410_rtc_freq = 1
      /\ rt_use = [open |-> FALSE, asleep |-> FALSE] /\ rt_pc = "user" /\ rt_call.op = "none"
      /\ rt_shown = <<RtZero>> /\ rt_false = FALSE
  BY DEF RtInit, RtNoCall
<1>4. RtStands /\ RtShows /\ RtReads /\ RtSets /\ RtAlarms /\ RtPeriodic
  BY <1>2, <1>3 DEF RtStands, RtShows, RtReads, RtSets, RtAlarms, RtPeriodic
<1>. QED BY <1>1, <1>4 DEF RtInv

(* A second passes.                                                        *)
LEMMA RtTickInv == RtInv /\ RtTick => RtInv'
<1>. SUFFICES ASSUME RtInv, RtTick PROVE RtInv'
  OBVIOUS
<1>1. /\ rt_clock \in RtTimes /\ rt_shown \in Seq(RtTimes) /\ Len(rt_shown) \in {1, 2}
      /\ rt_call.tm \in RtTimes
  BY DEF RtInv, RtType, RtShows, RtCalls
<1>2. /\ rt_clock' = RtLater(rt_clock)
      /\ UNCHANGED <<rt_alarm, rtcalm, ticnt, ticnt_save, s3c2410_rtc_freq, rt_irqs, rt_use,
                     rt_pc, rt_call, rt_retried, rt_want>>
      /\ rt_pc # "user" => Len(rt_shown) = 1
      /\ rt_shown' = IF rt_pc = "user" THEN <<rt_clock'>> ELSE Append(rt_shown, rt_clock')
  BY DEF RtTick
<1>3. rt_clock' \in RtTimes
  BY <1>1, <1>2, LaterTime
<1>4. rt_shown' \in Seq(RtTimes) /\ Len(rt_shown') \in {1, 2} /\ rt_shown'[Len(rt_shown')] = rt_clock'
      /\ (rt_pc # "user" => Len(rt_shown') = 2 /\ rt_shown'[1] = rt_shown[1] /\ rt_shown'[2] = rt_clock')
      /\ (rt_pc = "user" => Len(rt_shown') = 1)
  BY <1>1, <1>2, <1>3
<1>5. RtType' /\ RtStands'
  BY <1>2, <1>3, <1>4 DEF RtInv, RtType, RtStands
<1>6. RtShows'
  BY <1>1, <1>2, <1>4 DEF RtInv, RtShows, RtStands
<1>7. rt_pc # "user" /\ rt_call.op # "set" => rt_clock = rt_shown[1]
  BY <1>2 DEF RtInv, RtShows
<1>8. RtReads'
  <2>1. CASE rt_call.op = "get" /\ rt_pc \in {"min", "hour", "sec"}
    <3>1. rt_shown[1] = rt_clock /\ rt_shown'[1] = rt_shown[1] /\ rt_pc # "user" /\ Len(rt_shown) = 1
      BY <1>2, <1>4, <1>7, <2>1
    <3>2. \A f \in RtReadSoFar[rt_pc] : rt_call.tm[f] = rt_shown[1][f]
      BY <2>1, <3>1 DEF RtInv, RtReads
    <3>3. rt_retried => rt_shown[1].sec = 0
      BY <2>1, <3>1 DEF RtInv, RtReads
    <3>. QED BY <1>2, <2>1, <3>1, <3>2, <3>3 DEF RtReads
  <2>2. CASE rt_call.op = "get" /\ rt_pc = "done"
    <3>1. PICK i \in DOMAIN rt_shown : rt_call.tm = rt_shown[i]
      BY <2>2 DEF RtInv, RtReads
    <3>2. i = 1 /\ 1 \in DOMAIN rt_shown' /\ rt_shown'[1] = rt_shown[1]
      BY <1>1, <1>2, <1>4, <2>2, <3>1
    <3>. QED BY <1>2, <2>2, <3>1, <3>2 DEF RtReads
  <2>. QED BY <1>2, <2>1, <2>2 DEF RtReads
<1>9. RtSets'
  <2>1. CASE rt_call.op = "set"
    <3>1. rt_pc \in {"sec", "min", "hour", "done"} /\ Len(rt_shown) = 1 /\ Len(rt_shown') = 2
      BY <1>2, <1>4, <2>1 DEF RtInv, RtSets
    <3>2. ASSUME rt_call.tm.sec # RtSecs - 1, "sec" \in RtSetSoFar[rt_pc]
          PROVE  /\ rt_clock'.sec = rt_call.tm.sec + 1
                 /\ \A f \in RtSetSoFar[rt_pc] \ {"sec"} : rt_clock'[f] = rt_call.tm[f]
      <4>1. rt_clock.sec = rt_call.tm.sec
        BY <2>1, <3>1, <3>2 DEF RtInv, RtSets
      <4>2. rt_clock'.sec = rt_clock.sec + 1 /\ rt_clock'.min = rt_clock.min /\ rt_clock'.hour = rt_clock.hour
        BY <1>1, <1>2, <3>2, <4>1, LaterTime
      <4>3. \A f \in RtSetSoFar[rt_pc] \ {"sec"} : f \in {"min", "hour"} /\ rt_clock[f] = rt_call.tm[f]
        BY <2>1, <3>1, <3>2 DEF RtInv, RtSets, RtSetSoFar, RtFields
      <4>. QED BY <4>1, <4>2, <4>3
    <3>3. "sec" \notin RtSetSoFar[rt_pc] => RtSetSoFar[rt_pc] = {}
      BY <3>1 DEF RtSetSoFar, RtFields
    <3>. QED BY <1>2, <3>1, <3>2, <3>3 DEF RtSets
  <2>. QED BY <1>2, <2>1 DEF RtSets
<1>10. RtAlarms'
  <2>1. ASSUME "ALMEN" \in rtcalm, RtMatches(rt_alarm, rtcalm \ {"ALMEN"}, rt_clock')
        PROVE  \E w \in rt_want : RtMatches(w.tm, w.fields, rt_clock')
    <3>1. PICK w \in rt_want : w.fields = rtcalm \ {"ALMEN"} /\ \A f \in w.fields : rt_alarm[f] = w.tm[f]
      BY <2>1 DEF RtInv, RtAlarms, RtMatches
    <3>. QED BY <2>1, <3>1 DEF RtMatches
  <2>2. ~ rt_false'
    BY <2>1 DEF RtTick, RtInv, RtAlarms
  <2>. QED BY <1>2, <2>2 DEF RtInv, RtAlarms
<1>11. RtPeriodic'
  BY <1>2 DEF RtInv, RtPeriodic
<1>. QED BY <1>5, <1>6, <1>8, <1>9, <1>10, <1>11 DEF RtInv

(* A read goes on.                                                         *)
LEMMA RtGetInv == RtInv /\ (RtGetField \/ RtGetSec) => RtInv'
<1>. SUFFICES ASSUME RtInv, RtGetField \/ RtGetSec PROVE RtInv'
  OBVIOUS
<1>1. /\ rt_clock \in RtTimes /\ rt_shown \in Seq(RtTimes) /\ Len(rt_shown) \in {1, 2}
      /\ rt_call.tm \in RtTimes /\ rt_call \in RtCalls
  BY DEF RtInv, RtType, RtShows, RtCalls
<1>2. /\ rt_call.op = "get"
      /\ UNCHANGED <<rt_clock, rt_alarm, rtcalm, rt_shown, rt_want, rt_false, ticnt, ticnt_save,
                     s3c2410_rtc_freq, rt_irqs, rt_use>>
  BY DEF RtGetField, RtGetSec, RtGoto
<1>3. rt_clock = rt_shown[Len(rt_shown)] /\ (Len(rt_shown) = 2 => rt_shown[2] = RtLater(rt_shown[1]))
      /\ rt_shown[1] \in RtTimes
  BY <1>1, <1>2 DEF RtInv, RtShows
<1>4. CASE RtGetField
  <2>1. /\ rt_pc \in {"min", "hour"} /\ rt_call' = [rt_call EXCEPT !.tm[rt_pc] = rt_clock[rt_pc]]
        /\ rt_pc' = RtGetNext[rt_pc] /\ rt_retried' = rt_retried
    BY <1>4 DEF RtGetField, RtGoto
  <2>2. /\ rt_call' \in RtCalls /\ rt_call'.op = "get" /\ rt_call'.tm[rt_pc] = rt_clock[rt_pc]
        /\ rt_pc = "hour" => rt_call'.tm.min = rt_call.tm.min
    <3>1. CASE rt_pc = "min"
      BY <1>1, <1>2, <2>1, <3>1 DEF RtCalls, RtTimes
    <3>2. CASE rt_pc = "hour"
      BY <1>1, <1>2, <2>1, <3>2 DEF RtCalls, RtTimes
    <3>. QED BY <2>1, <3>1, <3>2
  <2>3. RtType'
    BY <1>2, <2>1, <2>2 DEF RtInv, RtType
  <2>4. RtStands' /\ RtShows'
    BY <1>2, <2>1, <2>2 DEF RtInv, RtStands, RtShows, RtGetNext
  <2>5. RtReads'
    <3>1. CASE rt_pc = "min"
      BY <1>2, <2>1, <2>2, <3>1 DEF RtInv, RtReads, RtReadSoFar, RtGetNext
    <3>2. CASE rt_pc = "hour"
      BY <1>2, <2>1, <2>2, <3>2 DEF RtInv, RtReads, RtReadSoFar, RtGetNext
    <3>. QED BY <2>1, <3>1, <3>2
  <2>6. RtSets' /\ RtAlarms' /\ RtPeriodic'
    BY <1>2, <2>2 DEF RtInv, RtSets, RtAlarms, RtPeriodic
  <2>. QED BY <2>3, <2>4, <2>5, <2>6 DEF RtInv
<1>5. CASE RtGetSec
  <2>. DEFINE again == rt_clock.sec = 0 /\ ~ rt_retried
  <2>1. /\ rt_pc = "sec" /\ rt_call' = [rt_call EXCEPT !.tm.sec = rt_clock.sec]
        /\ rt_retried' = (rt_retried \/ again) /\ rt_pc' = IF again THEN "min" ELSE "done"
    BY <1>5 DEF RtGetSec, RtGoto, RtAgain
  <2>2. /\ rt_call' \in RtCalls /\ rt_call'.op = "get" /\ rt_call'.tm.sec = rt_clock.sec
        /\ rt_call'.tm \in RtTimes
        /\ rt_call'.tm.min = rt_call.tm.min /\ rt_call'.tm.hour = rt_call.tm.hour
    BY <1>1, <1>2, <2>1 DEF RtCalls, RtTimes
  <2>3. RtType'
    BY <1>2, <2>1, <2>2 DEF RtInv, RtType
  <2>4. RtStands' /\ RtShows'
    BY <1>2, <2>1, <2>2 DEF RtInv, RtStands, RtShows
  <2>5. /\ \A f \in {"min", "hour"} : rt_call.tm[f] \in {rt_shown[1][f], rt_clock[f]}
        /\ rt_retried => \/ rt_shown[1].sec = 0
                         \/ \A f \in {"min", "hour"} : rt_call.tm[f] = rt_clock[f]
    BY <1>2, <2>1 DEF RtInv, RtReads, RtReadSoFar
  <2>6. RtReads'
    <3>1. CASE again
      <4>1. rt_shown[1].sec = 0 \/ Len(rt_shown) = 2
        BY <1>1, <1>3, <3>1
      <4>. QED BY <1>2, <2>1, <2>2, <3>1, <4>1 DEF RtReads, RtReadSoFar
    <3>2. CASE ~ again
      <4>1. CASE Len(rt_shown) = 1
        <5>1. rt_call'.tm = rt_shown[1] /\ 1 \in DOMAIN rt_shown
          BY <1>1, <1>3, <2>2, <2>5, <4>1, TimeParts
        <5>. QED BY <1>2, <2>1, <2>2, <3>2, <5>1 DEF RtReads
      <4>2. CASE Len(rt_shown) = 2
        <5>1. rt_clock = RtLater(rt_shown[1])
          BY <1>3, <4>2
        <5>2. rt_call.tm.min = rt_clock.min /\ rt_call.tm.hour = rt_clock.hour
          <6>1. CASE rt_retried /\ \A f \in {"min", "hour"} : rt_call.tm[f] = rt_clock[f]
            BY <6>1
          <6>2. CASE rt_shown[1].sec # RtSecs - 1
            <7>1. rt_clock.min = rt_shown[1].min /\ rt_clock.hour = rt_shown[1].hour
              BY <1>3, <5>1, <6>2, LaterTime
            <7>. QED BY <2>5, <7>1
          <6>3. rt_clock.sec # 0 => rt_shown[1].sec # RtSecs - 1
            BY <1>3, <5>1, LaterTime
          <6>4. rt_shown[1].sec = 0 => rt_shown[1].sec # RtSecs - 1
            BY RtcAssumption
          <6>. QED BY <2>5, <3>2, <6>1, <6>2, <6>3, <6>4
        <5>3. rt_call'.tm = rt_shown[2] /\ 2 \in DOMAIN rt_shown
          <6>1. 2 \in DOMAIN rt_shown /\ rt_shown[2] = rt_clock
            BY <1>1, <1>3, <4>2
          <6>. QED BY <1>1, <2>2, <5>2, <6>1, TimeParts
        <5>. QED BY <1>2, <2>1, <2>2, <3>2, <5>3 DEF RtReads
      <4>. QED BY <1>1, <4>1, <4>2
    <3>. QED BY <3>1, <3>2
  <2>7. RtSets' /\ RtAlarms' /\ RtPeriodic'
    BY <1>2, <2>2 DEF RtInv, RtSets, RtAlarms, RtPeriodic
  <2>. QED BY <2>3, <2>4, <2>6, <2>7 DEF RtInv
<1>. QED BY <1>4, <1>5

(* A set goes on.                                                          *)
LEMMA RtSetInv == RtInv /\ RtSetField => RtInv'
<1>. SUFFICES ASSUME RtInv, RtSetField PROVE RtInv'
  OBVIOUS
<1>1. rt_clock \in RtTimes /\ rt_call.tm \in RtTimes /\ rt_call \in RtCalls
  BY DEF RtInv, RtType, RtCalls
<1>2. /\ rt_call.op = "set" /\ rt_pc \in RtFields /\ rt_pc' = RtSetNext[rt_pc]
      /\ rt_clock' = [rt_clock EXCEPT ![rt_pc] = rt_call.tm[rt_pc]]
      /\ UNCHANGED <<rt_call, rt_alarm, rtcalm, rt_shown, rt_want, rt_false, ticnt, ticnt_save,
                     s3c2410_rtc_freq, rt_irqs, rt_use, rt_retried>>
  BY DEF RtSetField, RtGoto
<1>3. /\ rt_clock' \in RtTimes /\ rt_clock'[rt_pc] = rt_call.tm[rt_pc]
      /\ \A f \in RtFields \ {rt_pc} : rt_clock'[f] = rt_clock[f]
  <2>1. CASE rt_pc = "sec"
    BY <1>1, <1>2, <2>1 DEF RtTimes, RtFields
  <2>2. CASE rt_pc = "min"
    BY <1>1, <1>2, <2>2 DEF RtTimes, RtFields
  <2>3. CASE rt_pc = "hour"
    BY <1>1, <1>2, <2>3 DEF RtTimes, RtFields
  <2>. QED BY <1>2, <2>1, <2>2, <2>3 DEF RtFields
<1>4. RtType' /\ RtStands' /\ RtShows'
  BY <1>2, <1>3 DEF RtInv, RtType, RtStands, RtShows, RtSetNext, RtFields
<1>5. RtSets'
  <2>1. /\ rt_pc' \in {"min", "hour", "done"}
        /\ RtSetSoFar[rt_pc'] = RtSetSoFar[rt_pc] \cup {rt_pc}
        /\ RtSetSoFar[rt_pc] \subseteq RtFields \ {rt_pc}
        /\ "sec" \in RtSetSoFar[rt_pc] \/ rt_pc = "sec"
    BY <1>2 DEF RtSetSoFar, RtSetNext, RtFields
  <2>2. ASSUME rt_call.tm.sec # RtSecs - 1
        PROVE  /\ \/ rt_clock'.sec = rt_call.tm.sec
                  \/ Len(rt_shown) = 2 /\ rt_clock'.sec = rt_call.tm.sec + 1
               /\ \A f \in RtSetSoFar[rt_pc'] \ {"sec"} : rt_clock'[f] = rt_call.tm[f]
    <3>1. /\ "sec" \in RtSetSoFar[rt_pc] =>
               \/ rt_clock.sec = rt_call.tm.sec
               \/ Len(rt_shown) = 2 /\ rt_clock.sec = rt_call.tm.sec + 1
          /\ \A f \in RtSetSoFar[rt_pc] \ {"sec"} : rt_clock[f] = rt_call.tm[f]
      BY <1>2, <2>2 DEF RtInv, RtSets
    <3>2. rt_pc = "sec" => rt_clock'.sec = rt_call.tm.sec
      BY <1>3
    <3>3. rt_pc # "sec" => rt_clock'.sec = rt_clock.sec
      BY <1>3 DEF RtFields
    <3>4. \A f \in RtSetSoFar[rt_pc'] \ {"sec"} : rt_clock'[f] = rt_call.tm[f]
      BY <1>3, <2>1, <3>1
    <3>. QED BY <2>1, <3>1, <3>2, <3>3, <3>4
  <2>. QED BY <1>2, <2>1, <2>2 DEF RtSets
<1>6. RtReads' /\ RtAlarms' /\ RtPeriodic'
  BY <1>2 DEF RtInv, RtReads, RtAlarms, RtPeriodic
<1>. QED BY <1>4, <1>5, <1>6 DEF RtInv

(* An alarm is set.                                                        *)
LEMMA RtAlarmInv == RtInv /\ (RtAlarmField \/ RtAlarmOn) => RtInv'
<1>. SUFFICES ASSUME RtInv, RtAlarmField \/ RtAlarmOn PROVE RtInv'
  OBVIOUS
<1>1. rt_alarm \in RtTimes /\ rt_call.tm \in RtTimes /\ rt_call \in RtCalls
      /\ rt_call.fields \subseteq RtFields \cup {"ALMEN"}
  BY DEF RtInv, RtType, RtCalls
<1>2. /\ rt_call.op = "alarm" /\ UNCHANGED rt_call
      /\ UNCHANGED <<rt_clock, rt_shown, rt_false, ticnt, ticnt_save,
                     s3c2410_rtc_freq, rt_irqs, rt_use, rt_retried>>
  BY DEF RtAlarmField, RtAlarmOn, RtGoto
<1>3. RtShows' /\ RtReads' /\ RtSets' /\ RtPeriodic'
  BY <1>2 DEF RtInv, RtShows, RtReads, RtSets, RtPeriodic
<1>4. CASE RtAlarmField
  <2>1. /\ rt_pc \in RtFields /\ rt_pc' = (IF rt_pc = "hour" THEN "enable" ELSE RtSetNext[rt_pc])
        /\ rt_alarm' = (IF rt_pc \in rt_call.fields
                        THEN [rt_alarm EXCEPT ![rt_pc] = rt_call.tm[rt_pc]] ELSE rt_alarm)
        /\ UNCHANGED <<rtcalm, rt_want>>
    BY <1>4 DEF RtAlarmField, RtGoto
  <2>2. /\ rt_alarm' \in RtTimes /\ (rt_pc \in rt_call.fields => rt_alarm'[rt_pc] = rt_call.tm[rt_pc])
        /\ \A f \in RtFields \ {rt_pc} : rt_alarm'[f] = rt_alarm[f]
    <3>1. CASE rt_pc \notin rt_call.fields
      BY <1>1, <2>1, <3>1
    <3>2. CASE rt_pc \in rt_call.fields /\ rt_pc = "sec"
      BY <1>1, <2>1, <3>2 DEF RtTimes, RtFields
    <3>3. CASE rt_pc \in rt_call.fields /\ rt_pc = "min"
      BY <1>1, <2>1, <3>3 DEF RtTimes, RtFields
    <3>4. CASE rt_pc \in rt_call.fields /\ rt_pc = "hour"
      BY <1>1, <2>1, <3>4 DEF RtTimes, RtFields
    <3>. QED BY <2>1, <3>1, <3>2, <3>3, <3>4 DEF RtFields
  <2>3. RtType' /\ RtStands'
    BY <1>2, <2>1, <2>2 DEF RtInv, RtType, RtStands, RtSetNext, RtFields
  <2>4. /\ rtcalm = {} /\ ~ rt_false
        /\ \A f \in RtAlarmSoFar[rt_pc] \cap rt_call.fields : rt_alarm[f] = rt_call.tm[f]
    BY <1>2, <2>1 DEF RtInv, RtAlarms, RtFields
  <2>5. /\ rt_pc' \in {"min", "hour", "enable"}
        /\ RtAlarmSoFar[rt_pc'] = RtAlarmSoFar[rt_pc] \cup {rt_pc}
        /\ RtAlarmSoFar[rt_pc] \subseteq RtFields \ {rt_pc}
    BY <2>1 DEF RtAlarmSoFar, RtSetNext, RtFields
  <2>6. \A f \in RtAlarmSoFar[rt_pc'] \cap rt_call.fields : rt_alarm'[f] = rt_call.tm[f]
    BY <2>2, <2>4, <2>5
  <2>7. RtAlarms'
    BY <1>2, <2>1, <2>4, <2>5, <2>6 DEF RtAlarms
  <2>. QED BY <1>3, <2>3, <2>7 DEF RtInv
<1>5. CASE RtAlarmOn
  <2>1. /\ rt_pc = "enable" /\ rt_pc' = "done" /\ rtcalm' = rt_call.fields /\ rt_alarm' = rt_alarm
        /\ rt_want' = {[tm |-> rt_call.tm, fields |-> rt_call.fields \ {"ALMEN"}]}
    BY <1>5 DEF RtAlarmOn, RtGoto
  <2>2. RtType' /\ RtStands'
    BY <1>1, <1>2, <2>1 DEF RtInv, RtType, RtStands
  <2>3. ~ rt_false /\ \A f \in RtFields \cap rt_call.fields : rt_alarm[f] = rt_call.tm[f]
    BY <1>2, <2>1 DEF RtInv, RtAlarms, RtAlarmSoFar
  <2>4. \A f \in rt_call.fields \ {"ALMEN"} : rt_alarm[f] = rt_call.tm[f]
    BY <1>1, <2>3
  <2>5. RtAlarms'
    BY <1>2, <2>1, <2>3, <2>4 DEF RtAlarms
  <2>. QED BY <1>3, <2>2, <2>5 DEF RtInv
<1>. QED BY <1>4, <1>5

(* A call begins or returns.                                               *)
LEMMA RtCallInv ==
  RtInv /\ (RtGet \/ RtReturn \/ \E t \in RtAsked : RtSet(t) \/ \E fields \in RtCompared : RtSetAlarm(t, fields))
    => RtInv'
<1>. SUFFICES ASSUME RtInv, RtGet \/ RtReturn \/ \E t \in RtAsked :
                       RtSet(t) \/ \E fields \in RtCompared : RtSetAlarm(t, fields)
              PROVE  RtInv'
  OBVIOUS
<1>1. /\ rt_shown' = <<rt_clock>> /\ rt_retried' = FALSE /\ rt_clock \in RtTimes
      /\ UNCHANGED <<rt_clock, rt_alarm, rt_false, ticnt, ticnt_save, s3c2410_rtc_freq, rt_irqs, rt_use>>
  BY DEF RtGet, RtSet, RtSetAlarm, RtReturn, RtBegin, RtGoto, rtRegs, RtInv, RtType
<1>2. <<rt_clock>> \in Seq(RtTimes) /\ Len(<<rt_clock>>) = 1 /\ <<rt_clock>>[1] = rt_clock
  BY <1>1
<1>3. RtPeriodic'
  BY <1>1 DEF RtInv, RtPeriodic
<1>4. RtShows'
  BY <1>1, <1>2 DEF RtShows
<1>5. ASSUME rt_call' \in RtCalls, rtcalm' \subseteq RtFields \cup {"ALMEN"} PROVE RtType'
  BY <1>1, <1>2, <1>5 DEF RtInv, RtType
<1>6. CASE RtGet
  <2>1. /\ rt_pc' = "min" /\ rt_call' = [op |-> "get", tm |-> RtZero, fields |-> {}]
        /\ UNCHANGED <<rtcalm, rt_want>>
    BY <1>6 DEF RtGet, RtBegin, rtRegs
  <2>2. rt_call' \in RtCalls /\ rt_call'.op = "get"
    BY <2>1, TimeParts DEF RtCalls
  <2>3. RtType' /\ RtStands' /\ RtReads' /\ RtSets'
    BY <1>1, <1>5, <2>1, <2>2 DEF RtInv, RtType, RtStands, RtReads, RtReadSoFar, RtSets
  <2>4. RtAlarms'
    BY <1>1, <2>1, <2>2 DEF RtInv, RtAlarms
  <2>. QED BY <1>3, <1>4, <2>3, <2>4 DEF RtInv
<1>7. CASE RtReturn
  <2>1. rt_pc' = "user" /\ rt_call' = RtNoCall /\ UNCHANGED <<rtcalm, rt_want>>
    BY <1>7 DEF RtReturn, RtGoto
  <2>2. rt_call' \in RtCalls /\ rt_call'.op = "none"
    BY <2>1, TimeParts DEF RtCalls, RtNoCall
  <2>3. RtType' /\ RtStands' /\ RtReads' /\ RtSets'
    BY <1>1, <1>5, <2>1, <2>2 DEF RtInv, RtType, RtStands, RtReads, RtSets
  <2>4. RtAlarms'
    BY <1>1, <2>1, <2>2 DEF RtInv, RtAlarms
  <2>. QED BY <1>3, <1>4, <2>3, <2>4 DEF RtInv
<1>8. ASSUME NEW t \in RtAsked, RtSet(t) PROVE RtInv'
  <2>1. /\ rt_pc' = "sec" /\ rt_call' = [op |-> "set", tm |-> t, fields |-> {}]
        /\ UNCHANGED <<rtcalm, rt_want>>
    BY <1>8 DEF RtSet, RtBegin, rtRegs
  <2>2. rt_call' \in RtCalls /\ rt_call'.op = "set"
    BY <2>1, RtcAssumption DEF RtCalls
  <2>3. RtType' /\ RtStands' /\ RtReads' /\ RtSets'
    BY <1>1, <1>5, <2>1, <2>2 DEF RtInv, RtType, RtStands, RtReads, RtSets, RtSetSoFar
  <2>4. RtAlarms'
    BY <1>1, <2>1, <2>2 DEF RtInv, RtAlarms
  <2>. QED BY <1>3, <1>4, <2>3, <2>4 DEF RtInv
<1>9. ASSUME NEW t \in RtAsked, NEW fields \in RtCompared, RtSetAlarm(t, fields) PROVE RtInv'
  <2>1. /\ rt_pc' = "sec" /\ rtcalm' = {}
        /\ rt_call' = [op |-> "alarm", tm |-> t, fields |-> fields \cup (rtcalm \cap {"ALMEN"})]
    BY <1>9 DEF RtSetAlarm, RtBegin
  <2>2. rt_call' \in RtCalls /\ rt_call'.op = "alarm"
    BY <2>1, RtcAssumption DEF RtCalls
  <2>3. RtType' /\ RtStands' /\ RtReads' /\ RtSets'
    BY <1>1, <1>5, <2>1, <2>2 DEF RtInv, RtType, RtStands, RtReads, RtSets
  <2>4. RtAlarms'
    BY <1>1, <2>1, <2>2 DEF RtInv, RtAlarms, RtAlarmSoFar
  <2>. QED BY <1>3, <1>4, <2>3, <2>4 DEF RtInv
<1>. QED BY <1>6, <1>7, <1>8, <1>9

(* The short calls, and a sleep.                                           *)
LEMMA RtShortInv ==
  ASSUME RtInv, UNCHANGED <<rt_clock, rt_alarm, rt_pc, rt_call, rt_retried, rt_shown, rt_want, rt_false>>,
         rtcalm' = rtcalm
           \/ (rt_pc = "user" /\ rtcalm' \subseteq RtFields \cup {"ALMEN"} /\ rtcalm' \ {"ALMEN"} = rtcalm \ {"ALMEN"}),
         ticnt' \in RtTicnts, ticnt_save' \in RtTicnts, rt_use' \in [open : BOOLEAN, asleep : BOOLEAN], RtPeriodic'
  PROVE  RtInv'
<1>1. RtType' /\ RtStands' /\ RtShows' /\ RtReads' /\ RtSets'
  BY DEF RtInv, RtType, RtStands, RtShows, RtReads, RtSets
<1>2. RtAlarms'
  BY DEF RtInv, RtAlarms, RtStands
<1>. QED BY <1>1, <1>2 DEF RtInv

LEMMA RtNextInv == RtInv /\ [RtNext]_rtVars => RtInv'
<1>. SUFFICES ASSUME RtInv, [RtNext]_rtVars PROVE RtInv'
  OBVIOUS
<1>0. /\ ticnt \in RtTicnts /\ ticnt_save \in RtTicnts /\ rt_use \in [open : BOOLEAN, asleep : BOOLEAN]
      /\ rtcalm \subseteq RtFields \cup {"ALMEN"}
  BY DEF RtInv, RtType
<1>1. CASE UNCHANGED rtVars
  <2>1. RtPeriodic'
    BY <1>1 DEF rtVars, rtRegs, RtInv, RtPeriodic
  <2>. QED BY <1>0, <1>1, <2>1, RtShortInv DEF rtVars, rtRegs
<1>2. ASSUME NEW to \in BOOLEAN
      PROVE  RtPie(to) \in RtTicnts /\ RtPie(to).enable = to /\ RtPie(to).freq = ticnt.freq
  BY <1>0 DEF RtPie, RtTicnts
<1>3. ASSUME NEW to \in BOOLEAN, RtSetAie(to) PROVE RtInv'
  <2>1. RtPeriodic' /\ rtcalm' \subseteq RtFields \cup {"ALMEN"} /\ rtcalm' \ {"ALMEN"} = rtcalm \ {"ALMEN"}
    BY <1>0, <1>3 DEF RtSetAie, RtInv, RtPeriodic
  <2>. QED BY <1>0, <1>3, <2>1, RtShortInv DEF RtSetAie, RtShort, RtIdle
<1>4. ASSUME NEW to \in BOOLEAN, RtSetPie(to) PROVE RtInv'
  <2>1. /\ rt_use.open /\ ~ rt_use.asleep /\ ticnt'.freq = ticnt.freq
        /\ UNCHANGED <<rt_use, rt_irqs, s3c2410_rtc_freq>>
    BY <1>2, <1>4 DEF RtSetPie, RtShort, RtIdle
  <2>2. RtPeriodic'
    BY <2>1 DEF RtInv, RtPeriodic
  <2>. QED BY <1>0, <1>2, <1>4, <2>2, RtShortInv DEF RtSetPie, RtShort
<1>5. ASSUME NEW freq \in RtFreqs, RtSetFreq(freq) PROVE RtInv'
  <2>1. freq \in Nat
    BY RtcAssumption
  <2>2. ticnt' \in RtTicnts /\ ticnt'.freq = freq /\ ticnt'.enable = ticnt.enable
    BY <1>0, <1>5, <2>1 DEF RtSetFreq, RtTicnts
  <2>3. RtPeriodic'
    BY <1>5, <2>2 DEF RtSetFreq, RtShort, RtIdle, RtInv, RtPeriodic
  <2>. QED BY <1>0, <1>5, <2>2, <2>3, RtShortInv DEF RtSetFreq, RtShort
<1>6. ASSUME NEW alarm \in BOOLEAN, NEW tick \in BOOLEAN, RtOpen(alarm, tick) PROVE RtInv'
  <2>1. rt_use' \in [open : BOOLEAN, asleep : BOOLEAN] /\ rt_use'.open = tick /\ rt_use'.asleep = rt_use.asleep
    BY <1>0, <1>6 DEF RtOpen
  <2>2. ~ ticnt.enable /\ ~ rt_use.asleep /\ ticnt.freq = s3c2410_rtc_freq
    BY <1>6 DEF RtOpen, RtShort, RtIdle, RtInv, RtPeriodic
  <2>3. RtPeriodic'
    BY <1>6, <2>1, <2>2 DEF RtOpen, RtPeriodic
  <2>. QED BY <1>0, <1>6, <2>1, <2>3, RtShortInv DEF RtOpen, RtShort
<1>7. CASE RtRelease
  <2>1. rt_use' \in [open : BOOLEAN, asleep : BOOLEAN] /\ rt_use'.asleep = rt_use.asleep
    BY <1>0, <1>7 DEF RtRelease
  <2>2. RtPeriodic'
    BY <1>2, <1>7, <2>1 DEF RtRelease, RtShort, RtIdle, RtInv, RtPeriodic
  <2>. QED BY <1>0, <1>2, <1>7, <2>1, <2>2, RtShortInv DEF RtRelease, RtShort
<1>8. CASE RtSuspend
  <2>1. rt_use' \in [open : BOOLEAN, asleep : BOOLEAN] /\ rt_use'.asleep = TRUE /\ rt_use'.open = rt_use.open
    BY <1>0, <1>8 DEF RtSuspend
  <2>2. RtPeriodic'
    BY <1>8, <2>1 DEF RtSuspend, RtShort, RtIdle, RtInv, RtPeriodic
  <2>. QED BY <1>0, <1>2, <1>8, <2>1, <2>2, RtShortInv DEF RtSuspend, RtShort
<1>9. CASE RtResume
  <2>1. rt_use' \in [open : BOOLEAN, asleep : BOOLEAN] /\ rt_use'.asleep = FALSE /\ rt_use'.open = rt_use.open
    BY <1>0, <1>9 DEF RtResume
  <2>2. RtPeriodic'
    BY <1>9, <2>1 DEF RtResume, RtInv, RtPeriodic
  <2>. QED BY <1>0, <1>9, <2>1, <2>2, RtShortInv DEF RtResume
<1>. QED BY <1>1, <1>3, <1>4, <1>5, <1>6, <1>7, <1>8, <1>9, RtTickInv, RtGetInv, RtSetInv, RtAlarmInv,
            RtCallInv DEF RtNext

(* A time that is read was shown, one that is set is there or a second     *)
(* ago, no alarm comes but at a time that was set, and the periodic        *)
(* interrupt is the opener's, at its rate.                                 *)
THEOREM ClockKept == RtSpec => []RtcKept
<1>1. RtInv => RtcKept
  <2>. SUFFICES ASSUME RtInv PROVE RtcKept
    OBVIOUS
  <2>1. RtTimeTrue
    <3>1. rt_pc = "done" /\ rt_call.op = "get" => \E i \in DOMAIN rt_shown : rt_call.tm = rt_shown[i]
      BY DEF RtInv, RtReads
    <3>2. ASSUME rt_pc = "done", rt_call.op = "set", rt_call.tm.sec # RtSecs - 1
          PROVE  rt_clock \in {rt_call.tm, RtLater(rt_call.tm)}
      <4>1. rt_clock \in RtTimes /\ rt_call.tm \in RtTimes
        BY DEF RtInv, RtType, RtCalls
      <4>2. /\ rt_clock.min = rt_call.tm.min /\ rt_clock.hour = rt_call.tm.hour
            /\ rt_clock.sec = rt_call.tm.sec \/ rt_clock.sec = rt_call.tm.sec + 1
        BY <3>2 DEF RtInv, RtSets, RtSetSoFar, RtFields
      <4>. QED BY <3>2, <4>1, <4>2, TimeParts, LaterTime
    <3>. QED BY <3>1, <3>2 DEF RtTimeTrue
  <2>. QED BY <2>1 DEF RtInv, RtAlarms, RtPeriodic, RtcKept
<1>. QED BY <1>1, RtInitInv, RtNextInv, PTL DEF RtSpec

-----------------------------------------------------------------------------
(***************************************************************************)
(* UsbSkel, for any finite number of open files and any numbers of devices *)
(* and minors.                                                             *)
(***************************************************************************)
(* Where the table's lock is held.                                         *)
Holding == {"o_sem", "c_sem", "c_delete", "d_sem", "d_delete"}

(* minor_table_mutex belongs to the process that is between its down and   *)
(* its up.                                                                 *)
TableLocked == \A p \in Procs : table_lock = p <=> pc[p] \in Holding

(* Where a call's dev points.                                              *)
Pointers ==
  /\ \A f \in Files : pc[f] \in Opened \cup {"o_sem"} => dev[f] \in Devs
  /\ \A f \in Files : pc[f] = "o_sem" => heap[dev[f]] = "live"
  /\ \A f \in Files : pc[f] = "c_delete" => ~ udev[dev[f]]
  /\ pc[Hub] # "idle" => dev[Hub] \in Devs /\ heap[dev[Hub]] = "live"
  /\ pc[Hub] = "d_delete" => Handles(dev[Hub]) = {}

(* What kmalloc has not returned yet is untouched.                         *)
Fresh ==
  \A d \in Devs : heap[d] = "unused" =>
    Handles(d) = {} /\ open_count[d] = 0 /\ ~ writing[d]

IInv ==
  /\ TypeOK /\ TableLocked /\ Pointers /\ Fresh
  /\ OpenCountExact /\ TableExact /\ UseCountExact /\ WritesShutDown /\ PluggedAlive

Busy == {f \in Files : pc[f] # "idle"}

LEMMA ProcsFacts ==
  /\ Hub \in Procs /\ Hub \notin Files /\ Files \subseteq Procs
  /\ Free \notin Procs /\ NULL \notin Devs
BY SkelAssumption DEF Procs

(* Sets of files are finite, and counted by a number up to Cardinality of  *)
(* all of them.                                                            *)
LEMMA FilesFinite ==
  ASSUME NEW S \in SUBSET Files
  PROVE  /\ IsFiniteSet(S) /\ Cardinality(S) \in Nat
         /\ Cardinality(S) <= Cardinality(Files)
         /\ Cardinality(Files) \in Nat
BY SkelAssumption, FS_Subset, FS_CardinalityType

LEMMA HandlesCounted ==
  ASSUME NEW d
  PROVE  Handles(d) \in SUBSET Files /\ Cardinality(Handles(d)) \in 0 .. Cardinality(Files)
<1>1. Handles(d) \in SUBSET Files
  BY DEF Handles
<1>. QED BY <1>1, FilesFinite

LEMMA BusyCounted ==
  Busy \in SUBSET Files /\ Cardinality(Busy) \in 0 .. Cardinality(Files)
<1>1. Busy \in SUBSET Files
  BY DEF Busy
<1>. QED BY <1>1, FilesFinite

(* A step that opens and closes nothing leaves every device its handles.   *)
LEMMA HandlesKept ==
  ASSUME \A g \in Files : /\ pc'[g] \in Opened <=> pc[g] \in Opened
                          /\ pc[g] \in Opened => dev'[g] = dev[g]
  PROVE  \A d : Handles(d)' = Handles(d)
BY DEF Handles

(* A device that is open is in memory, while memory is intact.             *)
LEMMA HandleLive ==
  ASSUME IInv, Intact, NEW f \in Files, pc[f] \in Opened
  PROVE  dev[f] \in Devs /\ f \in Handles(dev[f]) /\ heap[dev[f]] = "live"
<1>1. dev[f] \in Devs /\ f \in Handles(dev[f])
  BY DEF IInv, Pointers, Handles
<1>2. heap[dev[f]] # "freed"
  BY <1>1 DEF Intact
<1>3. heap[dev[f]] # "unused"
  BY <1>1 DEF IInv, Fresh
<1>. QED BY <1>1, <1>2, <1>3 DEF IInv, TypeOK

LEMMA InitInv == Init => IInv
<1>. SUFFICES ASSUME Init PROVE IInv
  OBVIOUS
<1>1. \A d : Handles(d) = {}
  BY ProcsFacts DEF Init, Handles, Opened
<1>2. Busy = {}
  BY ProcsFacts DEF Init, Busy
<1>3. Cardinality(Files) \in Nat /\ Cardinality({}) = 0
  BY FilesFinite, FS_EmptySet
<1>4. 0 \in Minors
  BY SkelAssumption DEF Minors
<1>5. TypeOK
  BY <1>3, <1>4, ProcsFacts DEF Init, TypeOK, FileLabels, HubLabels
<1>6. TableLocked /\ Pointers
  BY ProcsFacts DEF Init, TableLocked, Pointers, Holding, Opened
<1>7. Fresh /\ OpenCountExact /\ WritesShutDown
  BY <1>1, <1>3 DEF Init, Fresh, OpenCountExact, WritesShutDown
<1>8. TableExact
  BY ProcsFacts DEF Init, TableExact
<1>9. UseCountExact
  BY <1>2, <1>3 DEF Init, UseCountExact, Busy
<1>10. PluggedAlive
  BY ProcsFacts DEF Init, PluggedAlive, Opened
<1>. QED BY <1>5, <1>6, <1>7, <1>8, <1>9, <1>10 DEF IInv

-----------------------------------------------------------------------------
(* skel_open begins: one more file that is not idle.                       *)
LEMMA OpenCallInv ==
  ASSUME IInv, Intact, NEW f \in Files, OpenCall(f)
  PROVE  IInv'
<1>. USE ProcsFacts DEF Goto, With, table, device
<1>h. \A e : Handles(e)' = Handles(e)
  BY HandlesKept DEF OpenCall, Opened, IInv, TypeOK, FileLabels
<1>b. /\ Busy' = Busy \cup {f} /\ f \notin Busy
      /\ Cardinality(Busy') = Cardinality(Busy) + 1
  <2>1. Busy' = Busy \cup {f} /\ f \notin Busy
    BY DEF OpenCall, Busy, IInv, TypeOK
  <2>. QED BY <2>1, BusyCounted, FilesFinite, FS_AddElement
<1>c. use_count' \in 0 .. Cardinality(Files)
  <2>1. Busy' \in SUBSET Files
    BY <1>b, BusyCounted
  <2>2. use_count' = Cardinality(Busy')
    BY <1>b DEF OpenCall, IInv, UseCountExact, Busy
  <2>. QED BY <2>1, <2>2, FilesFinite
<1>1. TypeOK'
  BY <1>c DEF OpenCall, IInv, TypeOK, FileLabels, HubLabels, Opened
<1>2. TableLocked'
  BY DEF OpenCall, IInv, TypeOK, TableLocked, Holding, FileLabels, HubLabels, Opened
<1>3. Pointers'
  BY <1>h DEF OpenCall, IInv, TypeOK, Pointers, Opened, FileLabels, HubLabels
<1>4. Fresh'
  BY <1>h DEF OpenCall, IInv, TypeOK, Fresh
<1>5. OpenCountExact'
  BY <1>h DEF OpenCall, IInv, TypeOK, OpenCountExact
<1>6. TableExact'
  BY DEF OpenCall, IInv, TypeOK, TableExact
<1>7. UseCountExact'
  BY <1>b DEF OpenCall, IInv, TypeOK, UseCountExact, Busy
<1>8. WritesShutDown'
  BY <1>h DEF OpenCall, IInv, TypeOK, WritesShutDown
<1>9. PluggedAlive'
  BY DEF OpenCall, IInv, TypeOK, PluggedAlive, Opened
<1>. QED BY <1>1, <1>2, <1>3, <1>4, <1>5, <1>6, <1>7, <1>8, <1>9 DEF IInv

(* skel_open finds a device, or gives its use count back.                  *)
LEMMA OpenTableInv ==
  ASSUME IInv, Intact, NEW f \in Files, OpenTable(f)
  PROVE  IInv'
<1>. USE ProcsFacts DEF Goto, With, table, device
<1>h. \A e : Handles(e)' = Handles(e)
  BY HandlesKept DEF OpenTable, Opened, IInv, TypeOK, FileLabels
<1>m. PICK m \in Minors :
        \/ /\ minor_table[m] = NULL
           /\ use_count' = use_count - 1
           /\ Goto(f, "idle")
           /\ UNCHANGED <<table_lock, dev>>
        \/ /\ minor_table[m] # NULL
           /\ table_lock' = f
           /\ With(f, minor_table[m])
           /\ Goto(f, "o_sem")
           /\ UNCHANGED use_count
  BY DEF OpenTable
<1>b. use_count' = Cardinality(Busy') /\ use_count' \in 0 .. Cardinality(Files)
  <2>1. CASE pc'[f] = "idle"
    <3>1. Busy' = Busy \ {f} /\ f \in Busy /\ use_count' = use_count - 1
      BY <2>1, <1>m DEF OpenTable, Busy, IInv, TypeOK
    <3>2. Cardinality(Busy') = Cardinality(Busy) - 1
      BY <3>1, BusyCounted, FilesFinite, FS_RemoveElement
    <3>3. Busy' \in SUBSET Files
      BY <3>1, BusyCounted
    <3>. QED BY <3>1, <3>2, <3>3, FilesFinite, BusyCounted DEF IInv, UseCountExact, Busy
  <2>2. CASE pc'[f] # "idle"
    <3>1. Busy' = Busy /\ use_count' = use_count
      BY <2>2, <1>m DEF OpenTable, Busy, IInv, TypeOK
    <3>. QED BY <3>1, BusyCounted, FilesFinite DEF IInv, UseCountExact, Busy
  <2>. QED BY <2>1, <2>2
<1>d. minor_table[m] # NULL => minor_table[m] \in Devs /\ heap[minor_table[m]] = "live"
  BY DEF IInv, TypeOK, TableExact
<1>1. TypeOK'
  BY <1>m, <1>b, <1>d DEF OpenTable, IInv, TypeOK, FileLabels, HubLabels, Opened
<1>2. TableLocked'
  BY <1>m DEF OpenTable, IInv, TypeOK, TableLocked, Holding, FileLabels, HubLabels, Opened
<1>3. Pointers'
  BY <1>h, <1>m, <1>d DEF OpenTable, IInv, TypeOK, Pointers, Opened, FileLabels, HubLabels
<1>4. Fresh'
  BY <1>h DEF OpenTable, IInv, TypeOK, Fresh
<1>5. OpenCountExact'
  BY <1>h DEF OpenTable, IInv, TypeOK, OpenCountExact
<1>6. TableExact'
  BY <1>m DEF OpenTable, IInv, TypeOK, TableExact
<1>7. UseCountExact'
  BY <1>b DEF OpenTable, IInv, TypeOK, UseCountExact, Busy
<1>8. WritesShutDown'
  BY <1>h DEF OpenTable, IInv, TypeOK, WritesShutDown
<1>9. PluggedAlive'
  BY <1>m DEF OpenTable, IInv, TypeOK, PluggedAlive, Opened
<1>. QED BY <1>1, <1>2, <1>3, <1>4, <1>5, <1>6, <1>7, <1>8, <1>9 DEF IInv

(* skel_open counts the file.                                              *)
LEMMA OpenSemInv ==
  ASSUME IInv, Intact, NEW f \in Files, OpenSem(f)
  PROVE  IInv'
<1>. USE ProcsFacts DEF Goto, With, table, device
<1>b. Busy' = Busy
  BY DEF OpenSem, Busy, IInv, TypeOK, FileLabels
<1>d. dev[f] \in Devs /\ heap[dev[f]] = "live" /\ f \notin Handles(dev[f])
  BY DEF OpenSem, IInv, Pointers, Handles, Opened
<1>h. /\ Handles(dev[f])' = Handles(dev[f]) \cup {f}
      /\ \A d : d # dev[f] => Handles(d)' = Handles(d)
  BY DEF OpenSem, Handles, IInv, TypeOK, Opened
<1>c. /\ Cardinality(Handles(dev[f])') = Cardinality(Handles(dev[f])) + 1
      /\ Cardinality(Handles(dev[f])') \in 0 .. Cardinality(Files)
  <2>1. Handles(dev[f]) \in SUBSET Files /\ Handles(dev[f])' \in SUBSET Files
    BY <1>h DEF Handles
  <2>2. Cardinality(Handles(dev[f])') = Cardinality(Handles(dev[f])) + 1
    BY <1>d, <1>h, <2>1, FilesFinite, FS_AddElement
  <2>. QED BY <2>1, <2>2, FilesFinite
<1>e. open_count'[dev[f]] = Cardinality(Handles(dev[f])')
  BY <1>c, <1>d DEF OpenSem, IInv, TypeOK, OpenCountExact
<1>t. table_lock = f /\ pc[Hub] = "idle"
  BY DEF OpenSem, IInv, TableLocked, Holding, TypeOK, HubLabels
<1>1. TypeOK'
  BY <1>c, <1>d, <1>e DEF OpenSem, IInv, TypeOK, FileLabels, HubLabels, Opened
<1>2. TableLocked'
  BY <1>t DEF OpenSem, IInv, TypeOK, TableLocked, Holding, FileLabels, HubLabels, Opened
<1>3. Pointers'
  BY <1>h, <1>d, <1>t DEF OpenSem, IInv, TypeOK, Pointers, Opened, FileLabels, HubLabels
<1>4. Fresh'
  BY <1>h, <1>d DEF OpenSem, IInv, TypeOK, Fresh
<1>5. OpenCountExact'
  BY <1>h, <1>c, <1>d, <1>e DEF OpenSem, IInv, TypeOK, OpenCountExact
<1>6. TableExact'
  BY DEF OpenSem, IInv, TypeOK, TableExact
<1>7. UseCountExact'
  BY <1>b DEF OpenSem, IInv, TypeOK, UseCountExact, Busy
<1>8. WritesShutDown'
  BY <1>h, <1>d DEF OpenSem, IInv, TypeOK, WritesShutDown
<1>9. PluggedAlive'
  BY <1>d DEF OpenSem, IInv, TypeOK, PluggedAlive, Opened
<1>. QED BY <1>1, <1>2, <1>3, <1>4, <1>5, <1>6, <1>7, <1>8, <1>9 DEF IInv

(* skel_read takes the device.                                             *)
LEMMA ReadSemInv ==
  ASSUME IInv, Intact, NEW f \in Files, ReadSem(f)
  PROVE  IInv'
<1>. USE ProcsFacts DEF Goto, With, table, device
<1>h. \A e : Handles(e)' = Handles(e)
  BY HandlesKept DEF ReadSem, Opened, IInv, TypeOK, FileLabels
<1>b. Busy' = Busy
  BY DEF ReadSem, Busy, IInv, TypeOK, FileLabels
<1>1. TypeOK'
  BY DEF ReadSem, IInv, TypeOK, FileLabels, HubLabels, Opened
<1>2. TableLocked'
  BY DEF ReadSem, IInv, TypeOK, TableLocked, Holding, FileLabels, HubLabels, Opened
<1>3. Pointers'
  BY <1>h DEF ReadSem, IInv, TypeOK, Pointers, Opened, FileLabels, HubLabels
<1>4. Fresh'
  BY <1>h DEF ReadSem, IInv, TypeOK, Fresh
<1>5. OpenCountExact'
  BY <1>h DEF ReadSem, IInv, TypeOK, OpenCountExact
<1>6. TableExact'
  BY DEF ReadSem, IInv, TypeOK, TableExact
<1>7. UseCountExact'
  BY <1>b DEF ReadSem, IInv, TypeOK, UseCountExact, Busy
<1>8. WritesShutDown'
  BY <1>h DEF ReadSem, IInv, TypeOK, WritesShutDown
<1>9. PluggedAlive'
  BY DEF ReadSem, IInv, TypeOK, PluggedAlive, Opened
<1>. QED BY <1>1, <1>2, <1>3, <1>4, <1>5, <1>6, <1>7, <1>8, <1>9 DEF IInv

(* skel_read gives it back.                                                *)
LEMMA ReadDoneInv ==
  ASSUME IInv, Intact, NEW f \in Files, ReadDone(f)
  PROVE  IInv'
<1>. USE ProcsFacts DEF Goto, With, table, device
<1>h. \A e : Handles(e)' = Handles(e)
  BY HandlesKept DEF ReadDone, Opened, IInv, TypeOK, FileLabels
<1>b. Busy' = Busy
  BY DEF ReadDone, Busy, IInv, TypeOK, FileLabels
<1>1. TypeOK'
  BY DEF ReadDone, IInv, TypeOK, FileLabels, HubLabels, Opened
<1>2. TableLocked'
  BY DEF ReadDone, IInv, TypeOK, TableLocked, Holding, FileLabels, HubLabels, Opened
<1>3. Pointers'
  BY <1>h DEF ReadDone, IInv, TypeOK, Pointers, Opened, FileLabels, HubLabels
<1>4. Fresh'
  BY <1>h DEF ReadDone, IInv, TypeOK, Fresh
<1>5. OpenCountExact'
  BY <1>h DEF ReadDone, IInv, TypeOK, OpenCountExact
<1>6. TableExact'
  BY DEF ReadDone, IInv, TypeOK, TableExact
<1>7. UseCountExact'
  BY <1>b DEF ReadDone, IInv, TypeOK, UseCountExact, Busy
<1>8. WritesShutDown'
  BY <1>h DEF ReadDone, IInv, TypeOK, WritesShutDown
<1>9. PluggedAlive'
  BY DEF ReadDone, IInv, TypeOK, PluggedAlive, Opened
<1>. QED BY <1>1, <1>2, <1>3, <1>4, <1>5, <1>6, <1>7, <1>8, <1>9 DEF IInv

(* skel_write takes the device.                                            *)
LEMMA WriteSemInv ==
  ASSUME IInv, Intact, NEW f \in Files, WriteSem(f)
  PROVE  IInv'
<1>. USE ProcsFacts DEF Goto, With, table, device
<1>h. \A e : Handles(e)' = Handles(e)
  BY HandlesKept DEF WriteSem, Opened, IInv, TypeOK, FileLabels
<1>b. Busy' = Busy
  BY DEF WriteSem, Busy, IInv, TypeOK, FileLabels
<1>1. TypeOK'
  BY DEF WriteSem, IInv, TypeOK, FileLabels, HubLabels, Opened
<1>2. TableLocked'
  BY DEF WriteSem, IInv, TypeOK, TableLocked, Holding, FileLabels, HubLabels, Opened
<1>3. Pointers'
  BY <1>h DEF WriteSem, IInv, TypeOK, Pointers, Opened, FileLabels, HubLabels
<1>4. Fresh'
  BY <1>h DEF WriteSem, IInv, TypeOK, Fresh
<1>5. OpenCountExact'
  BY <1>h DEF WriteSem, IInv, TypeOK, OpenCountExact
<1>6. TableExact'
  BY DEF WriteSem, IInv, TypeOK, TableExact
<1>7. UseCountExact'
  BY <1>b DEF WriteSem, IInv, TypeOK, UseCountExact, Busy
<1>8. WritesShutDown'
  BY <1>h DEF WriteSem, IInv, TypeOK, WritesShutDown
<1>9. PluggedAlive'
  BY DEF WriteSem, IInv, TypeOK, PluggedAlive, Opened
<1>. QED BY <1>1, <1>2, <1>3, <1>4, <1>5, <1>6, <1>7, <1>8, <1>9 DEF IInv

(* skel_write starts a write of a device that it has open.                 *)
LEMMA WriteDoneInv ==
  ASSUME IInv, Intact, NEW f \in Files, WriteDone(f)
  PROVE  IInv'
<1>. USE ProcsFacts DEF Goto, With, table, device
<1>h. \A e : Handles(e)' = Handles(e)
  BY HandlesKept DEF WriteDone, Opened, IInv, TypeOK, FileLabels
<1>b. Busy' = Busy
  BY DEF WriteDone, Busy, IInv, TypeOK, FileLabels
<1>l. dev[f] \in Devs /\ f \in Handles(dev[f]) /\ heap[dev[f]] = "live"
  BY HandleLive DEF WriteDone, Opened
<1>w. PICK s \in BOOLEAN : writing' = [writing EXCEPT ![dev[f]] = s]
  BY DEF WriteDone
<1>1. TypeOK'
  BY <1>w DEF WriteDone, IInv, TypeOK, FileLabels, HubLabels, Opened
<1>2. TableLocked'
  BY DEF WriteDone, IInv, TypeOK, TableLocked, Holding, FileLabels, HubLabels, Opened
<1>3. Pointers'
  BY <1>h DEF WriteDone, IInv, TypeOK, Pointers, Opened, FileLabels, HubLabels
<1>4. Fresh'
  BY <1>h, <1>w, <1>l DEF WriteDone, IInv, TypeOK, Fresh
<1>5. OpenCountExact'
  BY <1>h DEF WriteDone, IInv, TypeOK, OpenCountExact
<1>6. TableExact'
  BY DEF WriteDone, IInv, TypeOK, TableExact
<1>7. UseCountExact'
  BY <1>b DEF WriteDone, IInv, TypeOK, UseCountExact, Busy
<1>8. WritesShutDown'
  BY <1>h, <1>w, <1>l DEF WriteDone, IInv, TypeOK, WritesShutDown
<1>9. PluggedAlive'
  BY DEF WriteDone, IInv, TypeOK, PluggedAlive, Opened
<1>. QED BY <1>1, <1>2, <1>3, <1>4, <1>5, <1>6, <1>7, <1>8, <1>9 DEF IInv

(* A write completes.                                                      *)
LEMMA WriteCallbackInv ==
  ASSUME IInv, Intact, NEW d \in Devs, WriteCallback(d)
  PROVE  IInv'
<1>. USE ProcsFacts DEF Goto, With, table, device
<1>h. \A e : Handles(e)' = Handles(e)
  BY HandlesKept DEF WriteCallback, Opened, IInv, TypeOK, FileLabels
<1>b. Busy' = Busy
  BY DEF WriteCallback, Busy, IInv, TypeOK, FileLabels
<1>1. TypeOK'
  BY DEF WriteCallback, IInv, TypeOK, FileLabels, HubLabels, Opened
<1>2. TableLocked'
  BY DEF WriteCallback, IInv, TypeOK, TableLocked, Holding, FileLabels, HubLabels, Opened
<1>3. Pointers'
  BY <1>h DEF WriteCallback, IInv, TypeOK, Pointers, Opened, FileLabels, HubLabels
<1>4. Fresh'
  BY <1>h DEF WriteCallback, IInv, TypeOK, Fresh
<1>5. OpenCountExact'
  BY <1>h DEF WriteCallback, IInv, TypeOK, OpenCountExact
<1>6. TableExact'
  BY DEF WriteCallback, IInv, TypeOK, TableExact
<1>7. UseCountExact'
  BY <1>b DEF WriteCallback, IInv, TypeOK, UseCountExact, Busy
<1>8. WritesShutDown'
  BY <1>h DEF WriteCallback, IInv, TypeOK, WritesShutDown
<1>9. PluggedAlive'
  BY DEF WriteCallback, IInv, TypeOK, PluggedAlive, Opened
<1>. QED BY <1>1, <1>2, <1>3, <1>4, <1>5, <1>6, <1>7, <1>8, <1>9 DEF IInv

(* skel_release takes the table.                                           *)
LEMMA CloseTableInv ==
  ASSUME IInv, Intact, NEW f \in Files, CloseTable(f)
  PROVE  IInv'
<1>. USE ProcsFacts DEF Goto, With, table, device
<1>h. \A e : Handles(e)' = Handles(e)
  BY HandlesKept DEF CloseTable, Opened, IInv, TypeOK, FileLabels
<1>b. Busy' = Busy
  BY DEF CloseTable, Busy, IInv, TypeOK, FileLabels
<1>1. TypeOK'
  BY DEF CloseTable, IInv, TypeOK, FileLabels, HubLabels, Opened
<1>2. TableLocked'
  BY DEF CloseTable, IInv, TypeOK, TableLocked, Holding, FileLabels, HubLabels, Opened
<1>3. Pointers'
  BY <1>h DEF CloseTable, IInv, TypeOK, Pointers, Opened, FileLabels, HubLabels
<1>4. Fresh'
  BY <1>h DEF CloseTable, IInv, TypeOK, Fresh
<1>5. OpenCountExact'
  BY <1>h DEF CloseTable, IInv, TypeOK, OpenCountExact
<1>6. TableExact'
  BY DEF CloseTable, IInv, TypeOK, TableExact
<1>7. UseCountExact'
  BY <1>b DEF CloseTable, IInv, TypeOK, UseCountExact, Busy
<1>8. WritesShutDown'
  BY <1>h DEF CloseTable, IInv, TypeOK, WritesShutDown
<1>9. PluggedAlive'
  BY DEF CloseTable, IInv, TypeOK, PluggedAlive, Opened
<1>. QED BY <1>1, <1>2, <1>3, <1>4, <1>5, <1>6, <1>7, <1>8, <1>9 DEF IInv

(* skel_release of a device that is there.                                 *)
LEMMA CloseSemInv ==
  ASSUME IInv, Intact, NEW f \in Files, CloseSem(f)
  PROVE  IInv'
<1>. USE ProcsFacts DEF Goto, With, table, device
<1>l. dev[f] \in Devs /\ f \in Handles(dev[f]) /\ heap[dev[f]] = "live"
  BY HandleLive DEF CloseSem, Opened
<1>k. PICK c \in Devs : c = dev[f]
  BY <1>l
<1>h. /\ Handles(c)' = Handles(c) \ {f}
      /\ \A d : d # c => Handles(d)' = Handles(d)
  <2>1. /\ pc'[f] = "idle"
        /\ \A g \in Files : g # f => pc'[g] = pc[g] /\ dev'[g] = dev[g]
    BY DEF CloseSem, IInv, TypeOK
  <2>. QED BY <2>1, <1>k DEF Handles, Opened
<1>b. use_count' = Cardinality(Busy') /\ use_count' \in 0 .. Cardinality(Files)
  <2>1. Busy' = Busy \ {f} /\ f \in Busy /\ use_count' = use_count - 1
    BY DEF CloseSem, Busy, IInv, TypeOK
  <2>2. Cardinality(Busy') = Cardinality(Busy) - 1
    BY <2>1, BusyCounted, FilesFinite, FS_RemoveElement
  <2>3. Busy' \in SUBSET Files
    BY <2>1, BusyCounted
  <2>. QED BY <2>1, <2>2, <2>3, FilesFinite, BusyCounted DEF IInv, UseCountExact, Busy
<1>c. /\ Cardinality(Handles(c)') = Cardinality(Handles(c)) - 1
      /\ Cardinality(Handles(c)') \in 0 .. Cardinality(Files)
  <2>1. Handles(c) \in SUBSET Files /\ Handles(c)' \in SUBSET Files
    BY <1>h DEF Handles
  <2>2. Cardinality(Handles(c)') = Cardinality(Handles(c)) - 1
    BY <1>l, <1>k, <1>h, <2>1, FilesFinite, FS_RemoveElement
  <2>. QED BY <2>1, <2>2, FilesFinite
<1>e. /\ open_count[c] = Cardinality(Handles(c))
      /\ open_count'[c] = Cardinality(Handles(c)')
  BY <1>c, <1>l, <1>k, HandlesCounted DEF CloseSem, IInv, TypeOK, OpenCountExact
<1>n. writing'[c] => Handles(c)' # {}
  <2>1. writing'[c] => open_count[c] > 1
    BY <1>l, <1>k DEF CloseSem, IInv, TypeOK
  <2>2. open_count[c] > 1 => Cardinality(Handles(c)') # 0
    BY <1>c, <1>e, HandlesCounted
  <2>. QED BY <2>1, <2>2, FS_EmptySet
<1>x. /\ open_count' = [open_count EXCEPT ![c] = @ - 1]
      /\ \A d \in Devs : d # c => writing'[d] = writing[d]
      /\ UNCHANGED heap
  BY <1>k DEF CloseSem, IInv, TypeOK
<1>t. table_lock = f /\ pc[Hub] = "idle"
  BY DEF CloseSem, IInv, TableLocked, Holding, TypeOK, HubLabels
<1>1. TypeOK'
  BY <1>b, <1>c, <1>e, <1>l, <1>k DEF CloseSem, IInv, TypeOK, FileLabels, HubLabels, Opened
<1>2. TableLocked'
  BY <1>t DEF CloseSem, IInv, TypeOK, TableLocked, Holding, FileLabels, HubLabels, Opened
<1>3. Pointers'
  BY <1>h, <1>t DEF CloseSem, IInv, TypeOK, Pointers, Opened, FileLabels, HubLabels
<1>4. Fresh'
  BY <1>h, <1>l, <1>k DEF CloseSem, IInv, TypeOK, Fresh
<1>5. OpenCountExact'
  BY <1>h, <1>e, <1>x DEF IInv, TypeOK, OpenCountExact
<1>6. TableExact'
  BY DEF CloseSem, IInv, TypeOK, TableExact
<1>7. UseCountExact'
  BY <1>b DEF CloseSem, IInv, TypeOK, UseCountExact, Busy
<1>8. WritesShutDown'
  BY <1>h, <1>n, <1>x DEF IInv, TypeOK, WritesShutDown
<1>9. PluggedAlive'
  BY DEF CloseSem, IInv, TypeOK, PluggedAlive, Opened
<1>. QED BY <1>1, <1>2, <1>3, <1>4, <1>5, <1>6, <1>7, <1>8, <1>9 DEF IInv

(* skel_release of a device that was unplugged.                            *)
LEMMA CloseSemUnpluggedInv ==
  ASSUME IInv, Intact, NEW f \in Files, CloseSemUnplugged(f)
  PROVE  IInv'
<1>. USE ProcsFacts DEF Goto, With, table, device
<1>h. \A e : Handles(e)' = Handles(e)
  BY HandlesKept DEF CloseSemUnplugged, Opened, IInv, TypeOK, FileLabels
<1>b. Busy' = Busy
  BY DEF CloseSemUnplugged, Busy, IInv, TypeOK, FileLabels
<1>1. TypeOK'
  BY DEF CloseSemUnplugged, IInv, TypeOK, FileLabels, HubLabels, Opened
<1>2. TableLocked'
  BY DEF CloseSemUnplugged, IInv, TypeOK, TableLocked, Holding, FileLabels, HubLabels, Opened
<1>3. Pointers'
  BY <1>h DEF CloseSemUnplugged, IInv, TypeOK, Pointers, Opened, FileLabels, HubLabels
<1>4. Fresh'
  BY <1>h DEF CloseSemUnplugged, IInv, TypeOK, Fresh
<1>5. OpenCountExact'
  BY <1>h DEF CloseSemUnplugged, IInv, TypeOK, OpenCountExact
<1>6. TableExact'
  BY DEF CloseSemUnplugged, IInv, TypeOK, TableExact
<1>7. UseCountExact'
  BY <1>b DEF CloseSemUnplugged, IInv, TypeOK, UseCountExact, Busy
<1>8. WritesShutDown'
  BY <1>h DEF CloseSemUnplugged, IInv, TypeOK, WritesShutDown
<1>9. PluggedAlive'
  BY DEF CloseSemUnplugged, IInv, TypeOK, PluggedAlive, Opened
<1>. QED BY <1>1, <1>2, <1>3, <1>4, <1>5, <1>6, <1>7, <1>8, <1>9 DEF IInv

(* skel_delete by the last release, or what takes itself for it.           *)
LEMMA CloseDeleteInv ==
  ASSUME IInv, Intact, NEW f \in Files, CloseDelete(f)
  PROVE  IInv'
<1>. USE ProcsFacts DEF Goto, With, table, device
<1>l. dev[f] \in Devs /\ f \in Handles(dev[f]) /\ heap[dev[f]] = "live"
  BY HandleLive DEF CloseDelete, Opened
<1>k. PICK c \in Devs : c = dev[f]
  BY <1>l
<1>h. /\ Handles(c)' = Handles(c) \ {f}
      /\ \A d : d # c => Handles(d)' = Handles(d)
  <2>1. /\ pc'[f] = "idle"
        /\ \A g \in Files : g # f => pc'[g] = pc[g] /\ dev'[g] = dev[g]
    BY DEF CloseDelete, IInv, TypeOK
  <2>. QED BY <2>1, <1>k DEF Handles, Opened
<1>b. use_count' = Cardinality(Busy') /\ use_count' \in 0 .. Cardinality(Files)
  <2>1. Busy' = Busy \ {f} /\ f \in Busy /\ use_count' = use_count - 1
    BY DEF CloseDelete, Busy, IInv, TypeOK
  <2>2. Cardinality(Busy') = Cardinality(Busy) - 1
    BY <2>1, BusyCounted, FilesFinite, FS_RemoveElement
  <2>3. Busy' \in SUBSET Files
    BY <2>1, BusyCounted
  <2>. QED BY <2>1, <2>2, <2>3, FilesFinite, BusyCounted DEF IInv, UseCountExact, Busy
<1>s. /\ heap' = [heap EXCEPT ![dev[f]] = "freed"]
      /\ minor_table' = [minor_table EXCEPT ![minor[dev[f]]] = NULL]
  BY DEF CloseDelete, SkelDelete
<1>t. table_lock = f /\ \A q \in Procs : q # f => pc[q] \notin Holding
  BY DEF CloseDelete, IInv, TableLocked, Holding
<1>u. ~ udev[dev[f]]
  BY DEF CloseDelete, IInv, Pointers
<1>r. pc[Hub] = "idle" /\ \A g \in Files : pc'[g] # "o_sem"
  BY <1>t DEF CloseDelete, IInv, TypeOK, Holding, HubLabels
<1>1. TypeOK'
  BY <1>b, <1>s, <1>l DEF CloseDelete, IInv, TypeOK, FileLabels, HubLabels, Opened
<1>2. TableLocked'
  BY <1>t DEF CloseDelete, IInv, TypeOK, TableLocked, Holding, FileLabels, HubLabels, Opened
<1>3. Pointers'
  BY <1>h, <1>r DEF CloseDelete, IInv, TypeOK, Pointers, Opened, FileLabels, HubLabels
<1>4. Fresh'
  BY <1>h, <1>s, <1>l, <1>k DEF CloseDelete, IInv, TypeOK, Fresh
<1>5. OpenCountExact'
  BY <1>h, <1>s, <1>l, <1>k DEF CloseDelete, IInv, TypeOK, OpenCountExact
<1>6. TableExact'
  BY <1>s, <1>l DEF CloseDelete, IInv, TypeOK, TableExact
<1>7. UseCountExact'
  BY <1>b DEF CloseDelete, IInv, TypeOK, UseCountExact, Busy
<1>8. WritesShutDown'
  BY <1>h, <1>s, <1>l, <1>k DEF CloseDelete, IInv, TypeOK, WritesShutDown
<1>9. PluggedAlive'
  BY <1>s, <1>u, <1>l DEF CloseDelete, IInv, TypeOK, PluggedAlive, Opened
<1>. QED BY <1>1, <1>2, <1>3, <1>4, <1>5, <1>6, <1>7, <1>8, <1>9 DEF IInv

(* skel_probe hands out a new device.                                      *)
LEMMA ProbeInv ==
  ASSUME IInv, Intact, NEW d \in Devs, Probe(d)
  PROVE  IInv'
<1>. USE ProcsFacts DEF Goto, With, table, device
<1>h. \A e : Handles(e)' = Handles(e)
  BY HandlesKept DEF Probe, Opened, IInv, TypeOK, FileLabels
<1>b. Busy' = Busy
  BY DEF Probe, Busy, IInv, TypeOK, FileLabels
<1>m. PICK m \in Minors :
        /\ minor_table[m] = NULL
        /\ minor_table' = [minor_table EXCEPT ![m] = d]
        /\ minor' = [minor EXCEPT ![d] = m]
  BY DEF Probe, FreeSlots
<1>n. Handles(d) = {} /\ open_count[d] = 0 /\ ~ writing[d]
  BY DEF Probe, IInv, Fresh
<1>c. open_count[d] = Cardinality(Handles(d))
  BY <1>n, FS_EmptySet
<1>g. \A g \in Files : pc[g] \in Opened => dev[g] # d
  BY <1>n DEF Handles
<1>o. \A n \in Minors : minor_table[n] # d
  BY DEF Probe, IInv, TypeOK, TableExact
<1>1. TypeOK'
  BY <1>m DEF Probe, IInv, TypeOK, FileLabels, HubLabels, Opened
<1>2. TableLocked'
  BY DEF Probe, IInv, TypeOK, TableLocked, Holding, FileLabels, HubLabels, Opened
<1>3. Pointers'
  BY <1>h, <1>g DEF Probe, IInv, TypeOK, Pointers, Opened, FileLabels, HubLabels
<1>4. Fresh'
  BY <1>h DEF Probe, IInv, TypeOK, Fresh
<1>5. OpenCountExact'
  BY <1>h, <1>c DEF Probe, IInv, TypeOK, OpenCountExact
<1>6. TableExact'
  BY <1>m, <1>o DEF Probe, IInv, TypeOK, TableExact
<1>7. UseCountExact'
  BY <1>b DEF Probe, IInv, TypeOK, UseCountExact, Busy
<1>8. WritesShutDown'
  BY <1>h, <1>n DEF Probe, IInv, TypeOK, WritesShutDown
<1>9. PluggedAlive'
  BY <1>g DEF Probe, IInv, TypeOK, PluggedAlive, Opened
<1>. QED BY <1>1, <1>2, <1>3, <1>4, <1>5, <1>6, <1>7, <1>8, <1>9 DEF IInv

(* skel_probe gives it back.                                               *)
LEMMA ProbeFailsInv ==
  ASSUME IInv, Intact, NEW d \in Devs, ProbeFails(d)
  PROVE  IInv'
<1>. USE ProcsFacts DEF Goto, With, table, device
<1>h. \A e : Handles(e)' = Handles(e)
  BY HandlesKept DEF ProbeFails, Opened, IInv, TypeOK, FileLabels
<1>b. Busy' = Busy
  BY DEF ProbeFails, Busy, IInv, TypeOK, FileLabels
<1>1. TypeOK'
  BY DEF ProbeFails, IInv, TypeOK, FileLabels, HubLabels, Opened
<1>2. TableLocked'
  BY DEF ProbeFails, IInv, TypeOK, TableLocked, Holding, FileLabels, HubLabels, Opened
<1>3. Pointers'
  BY <1>h DEF ProbeFails, IInv, TypeOK, Pointers, Opened, FileLabels, HubLabels
<1>4. Fresh'
  BY <1>h DEF ProbeFails, IInv, TypeOK, Fresh
<1>5. OpenCountExact'
  BY <1>h DEF ProbeFails, IInv, TypeOK, OpenCountExact
<1>6. TableExact'
  BY DEF ProbeFails, IInv, TypeOK, TableExact
<1>7. UseCountExact'
  BY <1>b DEF ProbeFails, IInv, TypeOK, UseCountExact, Busy
<1>8. WritesShutDown'
  BY <1>h DEF ProbeFails, IInv, TypeOK, WritesShutDown
<1>9. PluggedAlive'
  BY DEF ProbeFails, IInv, TypeOK, PluggedAlive, Opened
<1>. QED BY <1>1, <1>2, <1>3, <1>4, <1>5, <1>6, <1>7, <1>8, <1>9 DEF IInv

(* skel_disconnect takes the table.                                        *)
LEMMA DisconnectTableInv ==
  ASSUME IInv, Intact, NEW d \in Devs, DisconnectTable(d)
  PROVE  IInv'
<1>. USE ProcsFacts DEF Goto, With, table, device
<1>h. \A e : Handles(e)' = Handles(e)
  BY HandlesKept DEF DisconnectTable, Opened, IInv, TypeOK, FileLabels
<1>b. Busy' = Busy
  BY DEF DisconnectTable, Busy, IInv, TypeOK, FileLabels
<1>1. TypeOK'
  BY DEF DisconnectTable, IInv, TypeOK, FileLabels, HubLabels, Opened
<1>2. TableLocked'
  BY DEF DisconnectTable, IInv, TypeOK, TableLocked, Holding, FileLabels, HubLabels, Opened
<1>3. Pointers'
  BY <1>h DEF DisconnectTable, IInv, TypeOK, Pointers, Opened, FileLabels, HubLabels
<1>4. Fresh'
  BY <1>h DEF DisconnectTable, IInv, TypeOK, Fresh
<1>5. OpenCountExact'
  BY <1>h DEF DisconnectTable, IInv, TypeOK, OpenCountExact
<1>6. TableExact'
  BY DEF DisconnectTable, IInv, TypeOK, TableExact
<1>7. UseCountExact'
  BY <1>b DEF DisconnectTable, IInv, TypeOK, UseCountExact, Busy
<1>8. WritesShutDown'
  BY <1>h DEF DisconnectTable, IInv, TypeOK, WritesShutDown
<1>9. PluggedAlive'
  BY DEF DisconnectTable, IInv, TypeOK, PluggedAlive, Opened
<1>. QED BY <1>1, <1>2, <1>3, <1>4, <1>5, <1>6, <1>7, <1>8, <1>9 DEF IInv

(* skel_disconnect leaves an open device to its openers.                   *)
LEMMA DisconnectSemInv ==
  ASSUME IInv, Intact, DisconnectSem
  PROVE  IInv'
<1>. USE ProcsFacts DEF Goto, With, table, device
<1>h. \A e : Handles(e)' = Handles(e)
  BY HandlesKept DEF DisconnectSem, Opened, IInv, TypeOK, FileLabels
<1>b. Busy' = Busy
  BY DEF DisconnectSem, Busy, IInv, TypeOK, FileLabels
<1>d. dev[Hub] \in Devs /\ heap[dev[Hub]] = "live"
  BY DEF DisconnectSem, IInv, Pointers
<1>o. open_count[dev[Hub]] = 0 => Handles(dev[Hub]) = {}
  <2>1. open_count[dev[Hub]] = 0 => Cardinality(Handles(dev[Hub])) = 0
    BY <1>d DEF IInv, OpenCountExact
  <2>. QED BY <2>1, HandlesCounted, FilesFinite, FS_EmptySet
<1>k. \/ Goto(Hub, "d_delete") /\ open_count[dev[Hub]] = 0 /\ UNCHANGED <<table_lock, udev, dev>>
      \/ /\ Goto(Hub, "idle") /\ With(Hub, NULL) /\ table_lock' = Free
         /\ udev' = [udev EXCEPT ![dev[Hub]] = FALSE]
  BY DEF DisconnectSem
<1>u. UNCHANGED <<minor_table, heap, minor, open_count, sem, writing, use_count>>
  BY DEF DisconnectSem
<1>p. /\ \A f \in Files : pc'[f] = pc[f] /\ dev'[f] = dev[f]
      /\ \A d \in Devs : udev'[d] => udev[d]
      /\ \A f \in Files : pc[f] \in Opened => dev[f] \in Devs
  BY <1>k, <1>d DEF IInv, TypeOK, Pointers
<1>t. table_lock = Hub
  BY DEF DisconnectSem, IInv, TableLocked, Holding
<1>1. TypeOK'
  BY <1>k, <1>u DEF IInv, TypeOK, FileLabels, HubLabels, Opened
<1>2. TableLocked'
  BY <1>k, <1>t DEF DisconnectSem, IInv, TypeOK, TableLocked, Holding, FileLabels, HubLabels, Opened
<1>3. Pointers'
  BY <1>h, <1>d, <1>o, <1>k DEF DisconnectSem, IInv, TypeOK, Pointers, Opened, FileLabels, HubLabels
<1>4. Fresh'
  BY <1>h DEF DisconnectSem, IInv, TypeOK, Fresh
<1>5. OpenCountExact'
  BY <1>h DEF DisconnectSem, IInv, TypeOK, OpenCountExact
<1>6. TableExact'
  BY DEF DisconnectSem, IInv, TypeOK, TableExact
<1>7. UseCountExact'
  BY <1>b DEF DisconnectSem, IInv, TypeOK, UseCountExact, Busy
<1>8. WritesShutDown'
  BY <1>h DEF DisconnectSem, IInv, TypeOK, WritesShutDown
<1>9. PluggedAlive'
  BY <1>p, <1>u DEF IInv, TypeOK, PluggedAlive, Opened
<1>. QED BY <1>1, <1>2, <1>3, <1>4, <1>5, <1>6, <1>7, <1>8, <1>9 DEF IInv

(* skel_disconnect deletes a device that nobody has open.                  *)
LEMMA DisconnectDeleteInv ==
  ASSUME IInv, Intact, DisconnectDelete
  PROVE  IInv'
<1>. USE ProcsFacts DEF Goto, With, table, device
<1>h. \A e : Handles(e)' = Handles(e)
  BY HandlesKept DEF DisconnectDelete, Opened, IInv, TypeOK, FileLabels
<1>b. Busy' = Busy
  BY DEF DisconnectDelete, Busy, IInv, TypeOK, FileLabels
<1>d. /\ dev[Hub] \in Devs /\ heap[dev[Hub]] = "live"
      /\ Handles(dev[Hub]) = {}
  BY DEF DisconnectDelete, IInv, Pointers
<1>s. /\ heap' = [heap EXCEPT ![dev[Hub]] = "freed"]
      /\ minor_table' = [minor_table EXCEPT ![minor[dev[Hub]]] = NULL]
  BY DEF DisconnectDelete, SkelDelete
<1>t. table_lock = Hub /\ \A q \in Procs : q # Hub => pc[q] \notin Holding
  BY DEF DisconnectDelete, IInv, TableLocked, Holding
<1>r. \A g \in Files : pc[g] # "o_sem" /\ (pc[g] \in Opened => dev[g] # dev[Hub])
  BY <1>t, <1>d DEF Holding, Handles
<1>1. TypeOK'
  BY <1>s, <1>d DEF DisconnectDelete, IInv, TypeOK, FileLabels, HubLabels, Opened
<1>2. TableLocked'
  BY <1>t DEF DisconnectDelete, IInv, TypeOK, TableLocked, Holding, FileLabels, HubLabels, Opened
<1>3. Pointers'
  BY <1>h, <1>r, <1>s DEF DisconnectDelete, IInv, TypeOK, Pointers, Opened, FileLabels, HubLabels
<1>4. Fresh'
  BY <1>h, <1>s, <1>d DEF DisconnectDelete, IInv, TypeOK, Fresh
<1>5. OpenCountExact'
  BY <1>h, <1>s, <1>d DEF DisconnectDelete, IInv, TypeOK, OpenCountExact
<1>6. TableExact'
  BY <1>s, <1>d DEF DisconnectDelete, IInv, TypeOK, TableExact
<1>7. UseCountExact'
  BY <1>b DEF DisconnectDelete, IInv, TypeOK, UseCountExact, Busy
<1>8. WritesShutDown'
  BY <1>h, <1>s, <1>d DEF DisconnectDelete, IInv, TypeOK, WritesShutDown
<1>9. PluggedAlive'
  BY <1>s, <1>r DEF DisconnectDelete, IInv, TypeOK, PluggedAlive, Opened
<1>. QED BY <1>1, <1>2, <1>3, <1>4, <1>5, <1>6, <1>7, <1>8, <1>9 DEF IInv

-----------------------------------------------------------------------------
(* IInv is an inductive invariant.                                         *)
THEOREM Invariant == Spec => []IInv
<1>1. ASSUME IInv, [Next]_vars PROVE IInv'
  <2>1. CASE UNCHANGED vars
    BY <1>1, <2>1 DEF vars, table, device, IInv, TypeOK, TableLocked, Pointers, Fresh,
         OpenCountExact, TableExact, UseCountExact, WritesShutDown, PluggedAlive, Handles
  <2>2. ASSUME Intact, NEW f \in Files, Call(f) \/ Step(f) PROVE IInv'
    BY <1>1, <2>2, OpenCallInv, OpenTableInv, OpenSemInv, ReadSemInv, ReadDoneInv, WriteSemInv, WriteDoneInv, CloseTableInv, CloseSemInv, CloseSemUnpluggedInv, CloseDeleteInv DEF Call, Step
  <2>3. ASSUME Intact, NEW d \in Devs, HubCall(d) \/ WriteCallback(d) PROVE IInv'
    BY <1>1, <2>3, WriteCallbackInv, ProbeInv, ProbeFailsInv, DisconnectTableInv DEF HubCall
  <2>4. ASSUME Intact, HubStep PROVE IInv'
    BY <1>1, <2>4, DisconnectSemInv, DisconnectDeleteInv DEF HubStep
  <2>. QED BY <1>1, <2>1, <2>2, <2>3, <2>4 DEF Next
<1>. QED BY InitInv, <1>1, PTL DEF Spec

(* The driver's state is always well formed.                               *)
THEOREM SkelTypeCorrect == Spec => []TypeOK
<1>1. IInv => TypeOK
  BY DEF IInv
<1>. QED BY Invariant, <1>1, PTL

(* minor_table leads to the devices in memory, each at its minor, and to   *)
(* nothing else.                                                           *)
THEOREM TableLeadsToDevices == Spec => []TableExact
<1>1. IInv => TableExact
  BY DEF IInv
<1>. QED BY Invariant, <1>1, PTL

(* open_count of a device in memory is the number of files that have it    *)
(* open, the use count that of files open or being opened.                 *)
THEOREM OpenersCounted == Spec => []CountsExact
<1>1. IInv => CountsExact
  BY DEF IInv, CountsExact
<1>. QED BY Invariant, <1>1, PTL

(* The device of an open file is not freed while it is plugged in, and a   *)
(* write goes on only while a file has its device open.                    *)
THEOREM FilesStayKept == Spec => []FilesKept
<1>1. IInv => FilesKept
  BY DEF IInv, FilesKept
<1>. QED BY Invariant, <1>1, PTL
=============================================================================

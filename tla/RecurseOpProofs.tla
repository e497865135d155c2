---------------------------- MODULE RecurseOpProofs ----------------------------
(***************************************************************************)
(* Proofs about recurse_op for every tree, every number of descriptors and *)
(* any number of changes by other processes.                               *)
(*                                                                         *)
(* The argument: a path that nobody touched and that was there from the    *)
(* start is either still ahead of some activation, and then no callback    *)
(* has run on it (AheadInv), or no activation can reach it any more.  That *)
(* no two activations have the same path ahead of them needs the shape of  *)
(* the stack (StackInv, ReadOnInv).  A name that readdir returns twice is  *)
(* one somebody created again, so it and all that is below it now was      *)
(* touched or was not there at the start (FsInv).  A directory that is     *)
(* being read was opened, so its own path fits the buffer; with that the   *)
(* lengths of the paths follow from the depth (LengthInv).                 *)
(***************************************************************************)
EXTENDS RecurseOp, FiniteSetTheorems, SequenceTheorems, TLAPS

(***************************************************************************)
(* Two facts about data: a sequence without its last element, and a record *)
(* with one field replaced.                                                *)
(***************************************************************************)
LEMMA FrontSeq ==
  ASSUME NEW S, NEW s \in Seq(S), s # <<>>
  PROVE  /\ SubSeq(s, 1, Len(s) - 1) \in Seq(S)
         /\ Len(SubSeq(s, 1, Len(s) - 1)) = Len(s) - 1
         /\ \A k \in 1..(Len(s) - 1) : SubSeq(s, 1, Len(s) - 1)[k] = s[k]
<1>1. Len(s) \in Nat \ {0}
  OBVIOUS
<1>2. /\ SubSeq(s, 1, Len(s) - 1) \in Seq(S)
      /\ \A k \in 1..(Len(s) - 1) : SubSeq(s, 1, Len(s) - 1)[k] = s[k]
  BY <1>1
<1>3. Len(SubSeq(s, 1, Len(s) - 1)) = Len(s) - 1
  <2>1. \A k \in 1..(Len(s) - 1) : s[k] \in S
    BY <1>1
  <2>2. 1 \in Int /\ Len(s) - 1 \in Int
    BY <1>1
  <2>3. Len(SubSeq(s, 1, Len(s) - 1)) = IF 1 <= Len(s) - 1 THEN (Len(s) - 1) - 1 + 1 ELSE 0
    BY <2>1, <2>2, SubSeqProperties
  <2>4. \A n \in Nat \ {0} : \A x : x = (IF 1 <= n - 1 THEN (n - 1) - 1 + 1 ELSE 0) => x = n - 1
    OBVIOUS
  <2>5. QED
    BY <1>1, <2>3, <2>4, Zenon
<1>4. QED
  BY <1>2, <1>3, Zenon

FrameRecord ==
  [dir : Path, at : {"stat", "open", "read"}, snap : [Path -> Kinds], done : SUBSET Path]

LEMMA DoneUpdate ==
  ASSUME NEW c
  PROVE  \A f \in FrameRecord :
           [f EXCEPT !.done = f.done \cup {c}] =
             [dir |-> f.dir, at |-> f.at, snap |-> f.snap, done |-> f.done \cup {c}]
BY DEF FrameRecord

LEMMA DoneRemoved ==
  ASSUME NEW c
  PROVE  \A f \in FrameRecord :
           [f EXCEPT !.done = f.done \ {c}] =
             [dir |-> f.dir, at |-> f.at, snap |-> f.snap, done |-> f.done \ {c}]
BY DEF FrameRecord

LEMMA AtUpdate ==
  ASSUME NEW v
  PROVE  \A f \in FrameRecord :
           [f EXCEPT !.at = v] = [dir |-> f.dir, at |-> v, snap |-> f.snap, done |-> f.done]
BY DEF FrameRecord


\* There from the start, and nobody has changed it.
Live(p) == p \in Path \ touched /\ kind0[p] # "absent"

\* Activation k may still come to p.
Ahead(k, p) ==
  IF stack[k].at = "read"
  THEN \E c \in Children(stack[k].dir) \ stack[k].done : c \in Anc[p]
  ELSE stack[k].dir \in Anc[p]

FsInv ==
  /\ WellFormed(kind) /\ WellFormed(kind0)
  /\ \A p \in Path \ touched : kind[p] = kind0[p]

StackInv ==
  /\ stack # <<>> => stack[1].dir = Root
  /\ \A k \in 1..(Len(stack) - 1) :
       stack[k].at = "read" /\ stack[k+1].dir \in Children(stack[k].dir)
  /\ \A j, k \in 1..Len(stack) : j <= k => stack[j].dir \in Anc[stack[k].dir]
  /\ \A k \in 1..Len(stack) : Depth(stack[k].dir) = k
  /\ \A k \in 2..Len(stack) : stack[k].dir \in touched \/ kind0[stack[k].dir] = "dir"

SnapInv ==
  \A k \in 1..Len(stack) : stack[k].at = "read" =>
    \A c \in Children(stack[k].dir) \ touched : stack[k].snap[c] = kind0[c]

ReadOnInv ==
  \A k \in 1..(Len(stack) - 1), p \in Path :
    Live(p) /\ stack[k+1].dir \in Anc[p] => stack[k+1].dir \in stack[k].done

AheadInv ==
  \A k \in 1..Len(stack), p \in Path : Live(p) /\ Ahead(k, p) => calls[p] = 0

Causes == OpenDirsInv /\ SkipsHaveCause
Visiting == AheadInv /\ AtMostOnce /\ VisitsAreFiles

IInv == TypeOK /\ FsInv /\ StackInv /\ SnapInv /\ ReadOnInv /\ Causes /\ Visiting

(***************************************************************************)
(* The path of an activation: it grows with the depth, and but for the     *)
(* argument of the call itself, before stat, it fits.                      *)
(***************************************************************************)
LengthInv ==
  /\ \A k \in 1..Len(stack) :
       /\ base + 2 * (k - 1) <= Length(stack[k].dir)
       /\ Fits(stack[k].dir) \/ (k = 1 /\ stack[k].at = "stat")
  /\ \A p \in Path : calls[p] > 0 => Fits(p)
  /\ beyond <= NameMax + 1

-------------------------------------------------------------------------------
(***************************************************************************)
(* An entry of a directory is one deeper than the directory.               *)
(***************************************************************************)
LEMMA ChildDepth ==
  ASSUME NEW d \in Path, NEW c \in Children(d)
  PROVE  Depth(c) = Depth(d) + 1 /\ Depth(d) \in Nat /\ Anc[c] = {c} \cup Anc[d]
<1>1. c \in Path \ {Root} /\ Parent[c] = d
  BY DEF Children
<1>2. Anc[d] \subseteq Path
  BY TreeAssumption
<1>3. IsFiniteSet(Anc[d])
  BY <1>2, FS_Subset, TreeAssumption
<1>4. Anc[c] = Anc[d] \cup {c} /\ c \notin Anc[d]
  BY <1>1, TreeAssumption
<1>5. QED
  BY <1>3, <1>4, FS_AddElement, FS_CardinalityType DEF Depth

(***************************************************************************)
(* What the steps do to the stack: pop the innermost activation, take it   *)
(* one call further, or push one for an entry it has read.                 *)
(***************************************************************************)
Popped ==
  /\ stack # <<>>
  /\ Len(stack') = Len(stack) - 1
  /\ stack' \in Seq(Frame)
  /\ \A k \in 1..Len(stack') : stack'[k] = stack[k]

LEMMA CallersPop ==
  ASSUME stack \in Seq(Frame), stack # <<>>, stack' = Callers
  PROVE  Popped
<1>1. Len(stack) \in Nat \ {0}
  OBVIOUS
<1>2. /\ Callers \in Seq(Frame) /\ Len(Callers) = Len(stack) - 1
      /\ \A k \in 1..(Len(stack) - 1) : Callers[k] = stack[k]
  BY FrontSeq DEF Callers
<1>3. QED
  BY <1>2 DEF Popped

Moved(f) ==
  /\ stack # <<>> /\ f \in Frame /\ f.dir = Top.dir
  /\ Len(stack') = Len(stack)
  /\ stack' \in Seq(Frame)
  /\ \A k \in 1..Len(stack) : stack'[k] = IF k = Len(stack) THEN f ELSE stack[k]

LEMMA TopMoves ==
  ASSUME stack \in Seq(Frame), stack # <<>>, NEW f \in Frame, f.dir = Top.dir,
         stack' = [stack EXCEPT ![Len(stack)] = f]
  PROVE  Moved(f)
BY DEF Moved

TakenFrame(c) == [dir |-> Top.dir, at |-> "read", snap |-> Top.snap, done |-> Top.done \cup {c}]

Pushed(c) ==
  /\ stack # <<>>
  /\ stack' \in Seq(Frame)
  /\ Len(stack') = Len(stack) + 1
  /\ \A k \in 1..(Len(stack) - 1) : stack'[k] = stack[k]
  /\ stack'[Len(stack)] = TakenFrame(c)
  /\ stack'[Len(stack) + 1] = Called(c)

LEMMA TakenTop ==
  ASSUME stack \in Seq(Frame), At("read"), NEW c \in Path
  PROVE  TakenFrame(c) \in Frame /\ Taken(c) = [stack EXCEPT ![Len(stack)] = TakenFrame(c)]
<1>1. Top \in Frame /\ Len(stack) \in 1..Len(stack)
  BY DEF At, Top
<1>2. Top \in FrameRecord
  BY <1>1 DEF Frame, FrameRecord
<1>3. TakenFrame(c) \in Frame
  BY <1>1, <1>2 DEF Frame, TakenFrame, FrameRecord
<1>4. [Top EXCEPT !.done = Top.done \cup {c}] = TakenFrame(c)
  <2>1. [Top EXCEPT !.done = Top.done \cup {c}] =
          [dir |-> Top.dir, at |-> Top.at, snap |-> Top.snap, done |-> Top.done \cup {c}]
    BY <1>2, DoneUpdate, Zenon
  <2>2. QED
    BY <2>1, Zenon DEF TakenFrame, At
<1>5. QED
  BY <1>1, <1>3, <1>4 DEF Taken, Top

LEMMA EntryPushes ==
  ASSUME stack \in Seq(Frame), At("read"), NEW c \in Path,
         stack' = Append(Taken(c), Called(c))
  PROVE  Pushed(c)
<1>1. Called(c) \in Frame
  BY DEF Called, Frame, NoEntries, Kinds
<1>2. TakenFrame(c) \in Frame /\ Taken(c) = [stack EXCEPT ![Len(stack)] = TakenFrame(c)]
  BY TakenTop
<1>3. Len(stack) \in Nat \ {0}
  BY DEF At
<1>4. Taken(c) \in Seq(Frame) /\ Len(Taken(c)) = Len(stack)
  BY <1>2, <1>3
<1>5. /\ Taken(c)[Len(stack)] = TakenFrame(c)
      /\ \A k \in 1..(Len(stack) - 1) : Taken(c)[k] = stack[k]
  BY <1>2, <1>3
<1>6. QED
  BY <1>1, <1>3, <1>4, <1>5 DEF Pushed, At

-------------------------------------------------------------------------------
(***************************************************************************)
(* The invariants about the stack, for each of the three things that can   *)
(* happen to it.                                                           *)
(***************************************************************************)
Shape == StackInv /\ SnapInv /\ ReadOnInv

LEMMA PopShape ==
  ASSUME TypeOK, Shape, Popped, UNCHANGED <<kind0, touched>>
  PROVE  Shape'
<1>1. /\ Len(stack) \in Nat \ {0} /\ Len(stack') = Len(stack) - 1
      /\ \A k \in 1..Len(stack') : k \in 1..Len(stack) /\ stack'[k] = stack[k]
      /\ stack' # <<>> => Len(stack') \in Nat \ {0}
  BY DEF Popped, TypeOK
<1> DEFINE n == Len(stack')
<1>2. StackInv'
  <2>1. \A k \in 1..n : Depth(stack'[k].dir) = k
    BY <1>1 DEF Shape, StackInv
  <2>2. \A k \in 1..(n - 1) :
          stack'[k].at = "read" /\ stack'[k+1].dir \in Children(stack'[k].dir)
    <3>1. ASSUME NEW k \in 1..(n - 1)
          PROVE  /\ stack'[k] = stack[k] /\ stack'[k+1] = stack[k+1]
                 /\ k \in 1..(Len(stack) - 1)
      BY <1>1
    <3>2. \A k \in 1..(n - 1) :
            stack[k].at = "read" /\ stack[k+1].dir \in Children(stack[k].dir)
      BY <3>1 DEF Shape, StackInv
    <3>3. QED
      BY <3>1, <3>2
  <2>3. /\ stack' # <<>> => stack'[1].dir = Root
        /\ \A j, k \in 1..n : j <= k => stack'[j].dir \in Anc[stack'[k].dir]
        /\ \A k \in 2..n : stack'[k].dir \in touched \/ kind0[stack'[k].dir] = "dir"
    <3>1. stack' # <<>> => 1 \in 1..n /\ stack # <<>>
      BY <1>1
    <3>2. stack' # <<>> => stack'[1].dir = Root
      BY <1>1, <3>1 DEF Shape, StackInv
    <3>3. \A j, k \in 1..n : j <= k => stack'[j].dir \in Anc[stack'[k].dir]
      BY <1>1, Zenon DEF Shape, StackInv
    <3>4. \A k \in 2..n : k \in 1..n /\ k \in 2..Len(stack)
      BY <1>1
    <3>5. \A k \in 2..n : stack'[k].dir \in touched \/ kind0[stack'[k].dir] = "dir"
      <4>1. \A k \in 2..Len(stack) : stack[k].dir \in touched \/ kind0[stack[k].dir] = "dir"
        BY DEF Shape, StackInv
      <4>2. QED
        BY <1>1, <3>4, <4>1, Zenon
    <3>6. QED
      BY <3>2, <3>3, <3>5
  <2>4. QED
    BY <2>1, <2>2, <2>3 DEF StackInv
<1>3. SnapInv'
  <2>1. ASSUME NEW k \in 1..n, stack'[k].at = "read",
               NEW c \in Children(stack'[k].dir) \ touched
        PROVE  stack'[k].snap[c] = kind0[c]
    <3>1. stack'[k] = stack[k] /\ k \in 1..Len(stack)
      BY <1>1
    <3>2. stack[k].at = "read" /\ c \in Children(stack[k].dir) \ touched
      BY <2>1, <3>1, Zenon
    <3>3. stack[k].snap[c] = kind0[c]
      BY <3>1, <3>2, Zenon DEF Shape, SnapInv
    <3>4. QED
      BY <3>1, <3>3, Zenon
  <2>2. QED
    BY <2>1 DEF SnapInv
<1>4. ReadOnInv'
  <2>1. ASSUME NEW k \in 1..(n - 1), NEW p \in Path, Live(p), stack'[k+1].dir \in Anc[p]
        PROVE  stack'[k+1].dir \in stack'[k].done
    <3>1. /\ stack'[k] = stack[k] /\ stack'[k+1] = stack[k+1]
          /\ k \in 1..(Len(stack) - 1)
      BY <1>1
    <3>2. stack[k+1].dir \in Anc[p]
      BY <2>1, <3>1, Zenon
    <3>3. stack[k+1].dir \in stack[k].done
      BY <2>1, <3>1, <3>2, Zenon DEF Shape, ReadOnInv
    <3>4. QED
      BY <3>1, <3>3, Zenon
  <2>2. \A p : Live(p)' <=> Live(p)
    BY DEF Live
  <2>3. QED
    BY <2>1, <2>2 DEF ReadOnInv
<1>5. QED
  BY <1>2, <1>3, <1>4 DEF Shape

LEMMA MoveShape ==
  ASSUME TypeOK, Shape, NEW f, Moved(f), UNCHANGED <<kind0, touched>>,
         f.at = "read" => \A c \in Children(f.dir) \ touched : f.snap[c] = kind0[c]
  PROVE  Shape'
<1>1. /\ Len(stack) \in Nat \ {0} /\ Len(stack') = Len(stack)
      /\ \A k \in 1..(Len(stack) - 1) : stack'[k] = stack[k]
      /\ stack'[Len(stack)] = f
      /\ \A k \in 1..Len(stack) : stack'[k].dir = stack[k].dir
      /\ stack' # <<>>
  BY DEF Moved, TypeOK, Top
<1>2. StackInv'
  <2>1. \A k \in 1..Len(stack) : Depth(stack'[k].dir) = k
    BY <1>1 DEF Shape, StackInv
  <2>2. \A k \in 1..(Len(stack) - 1) :
          stack'[k].at = "read" /\ stack'[k+1].dir \in Children(stack'[k].dir)
    BY <1>1 DEF Shape, StackInv
  <2>3. /\ stack'[1].dir = Root
        /\ \A j, k \in 1..Len(stack) : j <= k => stack'[j].dir \in Anc[stack'[k].dir]
        /\ \A k \in 2..Len(stack) : stack'[k].dir \in touched \/ kind0[stack'[k].dir] = "dir"
    BY <1>1 DEF Shape, StackInv
  <2>4. QED
    BY <1>1, <2>1, <2>2, <2>3 DEF StackInv
<1>3. SnapInv'
  <2>1. ASSUME NEW k \in 1..Len(stack), stack'[k].at = "read",
               NEW c \in Children(stack'[k].dir) \ touched
        PROVE  stack'[k].snap[c] = kind0[c]
    <3>1. CASE k = Len(stack)
      BY <1>1, <2>1, <3>1
    <3>2. CASE k # Len(stack)
      <4>1. k \in 1..(Len(stack) - 1)
        BY <1>1, <3>2
      <4>2. QED
        BY <1>1, <2>1, <4>1 DEF Shape, SnapInv
    <3>3. QED
      BY <3>1, <3>2
  <2>2. QED
    BY <1>1, <2>1 DEF SnapInv
<1>4. ReadOnInv'
  BY <1>1 DEF Shape, ReadOnInv, Live
<1>5. QED
  BY <1>2, <1>3, <1>4 DEF Shape

LEMMA PushShape ==
  ASSUME TypeOK, Shape, At("read"), NEW c \in Children(Top.dir), Pushed(c),
         UNCHANGED <<kind0, touched>>, c \in touched \/ kind0[c] = "dir"
  PROVE  Shape'
<1> DEFINE n == Len(stack)
<1>1. n \in Nat \ {0} /\ Len(stack') = n + 1 /\ stack' # <<>>
  BY DEF Pushed, TypeOK
<1>2. /\ \A k \in 1..(n - 1) : stack'[k] = stack[k]
      /\ stack'[n] = TakenFrame(c) /\ stack'[n+1] = Called(c)
  BY DEF Pushed
<1>3. stack[n] = Top /\ Top.dir \in Path /\ Top.at = "read"
  BY <1>1 DEF Top, TypeOK, Frame, At
<1>4. /\ \A k \in 1..n : stack'[k].dir = stack[k].dir /\ stack'[k].snap = stack[k].snap
      /\ \A k \in 1..n : stack'[k].at = stack[k].at
      /\ \A k \in 1..n : stack[k].done \subseteq stack'[k].done
      /\ stack'[n+1].dir = c /\ stack'[n+1].at = "stat" /\ c \in stack'[n].done
  BY <1>1, <1>2, <1>3 DEF TakenFrame, Called
<1>5. Depth(c) = n + 1 /\ Anc[c] = {c} \cup Anc[Top.dir] /\ c \in Path
  BY <1>1, <1>3, ChildDepth DEF Shape, StackInv, Children
<1>6. StackInv'
  <2>1. (\A j, k \in 1..Len(stack) : j <= k => stack[j].dir \in Anc[stack[k].dir])'
    BY <1>1, <1>3, <1>4, <1>5 DEF Shape, StackInv
  <2>2. (\A k \in 1..(Len(stack) - 1) :
           stack[k].at = "read" /\ stack[k+1].dir \in Children(stack[k].dir))'
    BY <1>1, <1>3, <1>4 DEF Shape, StackInv
  <2>3. (\A k \in 1..Len(stack) : Depth(stack[k].dir) = k)'
    <3>1. \A k \in 1..n : Depth(stack'[k].dir) = k
      BY <1>1, <1>4 DEF Shape, StackInv
    <3>2. Depth(stack'[n+1].dir) = n + 1
      BY <1>4, <1>5
    <3>3. QED
      BY <1>1, <3>1, <3>2
  <2>4. (\A k \in 2..Len(stack) : stack[k].dir \in touched \/ kind0[stack[k].dir] = "dir")'
    BY <1>1, <1>4 DEF Shape, StackInv
  <2>5. QED
    BY <1>1, <1>4, <2>1, <2>2, <2>3, <2>4 DEF Shape, StackInv
<1>7. SnapInv'
  BY <1>1, <1>4 DEF Shape, SnapInv
<1>8. ReadOnInv'
  <2>1. \A p : Live(p)' <=> Live(p)
    BY DEF Live
  <2>2. ASSUME NEW k \in 1..n, NEW p \in Path, Live(p), stack'[k+1].dir \in Anc[p]
        PROVE  stack'[k+1].dir \in stack'[k].done
    <3>1. CASE k = n
      BY <1>4, <3>1, Zenon
    <3>2. CASE k # n
      <4>1. k \in 1..(n - 1) /\ k \in 1..n /\ k + 1 \in 1..n
        BY <1>1, <3>2
      <4>2. stack'[k+1].dir = stack[k+1].dir /\ stack[k].done \subseteq stack'[k].done
        BY <1>4, <4>1, Zenon
      <4>3. stack[k+1].dir \in stack[k].done
        BY <2>2, <4>1, <4>2, Zenon DEF Shape, ReadOnInv
      <4>4. QED
        BY <4>2, <4>3, Zenon
    <3>3. QED
      BY <3>1, <3>2
  <2>3. QED
    BY <1>1, <2>1, <2>2 DEF ReadOnInv
<1>9. QED
  BY <1>6, <1>7, <1>8 DEF Shape

(***************************************************************************)
(* A live path below the innermost directory is ahead of no other          *)
(* activation.                                                             *)
(***************************************************************************)
LEMMA OnlyTop ==
  ASSUME TypeOK, Shape, NEW k \in 1..(Len(stack) - 1), NEW p \in Path, Live(p),
         Top.dir \in Anc[p]
  PROVE  ~ Ahead(k, p)
<1>1. Len(stack) \in Nat /\ k \in 1..Len(stack) /\ k + 1 \in 1..Len(stack)
  BY DEF TypeOK
<1>2. stack[k+1].dir \in Anc[Top.dir] /\ Top.dir \in Path
  BY <1>1 DEF Shape, StackInv, Top, TypeOK, Frame
<1>3. stack[k+1].dir \in Anc[p]
  BY <1>2, TreeAssumption
<1>4. /\ stack[k].at = "read" /\ stack[k+1].dir \in Children(stack[k].dir)
      /\ stack[k+1].dir \in stack[k].done
  BY <1>3 DEF Shape, StackInv, ReadOnInv
<1>5. \A c \in Children(stack[k].dir) : c \in Anc[p] => c = stack[k+1].dir
  BY <1>3, <1>4, TreeAssumption DEF Children
<1>6. QED
  BY <1>4, <1>5 DEF Ahead

(***************************************************************************)
(* AheadInv, for each of the three: a callback runs only on a path below   *)
(* the innermost directory.                                                *)
(***************************************************************************)
VisitsBelowTop == \A p \in Path : calls'[p] # calls[p] => Top.dir \in Anc[p]

LEMMA PopAhead ==
  ASSUME TypeOK, Shape, AheadInv, Popped, VisitsBelowTop, UNCHANGED <<kind0, touched>>
  PROVE  AheadInv'
<1>1. ASSUME NEW k \in 1..Len(stack'), NEW p \in Path, Live(p)', Ahead(k, p)'
      PROVE  calls'[p] = 0
  <2>1. k \in 1..(Len(stack) - 1) /\ k \in 1..Len(stack) /\ stack'[k] = stack[k]
    BY DEF Popped, TypeOK
  <2>2. Live(p) /\ Ahead(k, p)
    BY <1>1, <2>1 DEF Live, Ahead
  <2>3. calls[p] = 0 /\ Top.dir \notin Anc[p]
    BY <2>1, <2>2, OnlyTop DEF AheadInv
  <2>4. QED
    BY <2>3 DEF VisitsBelowTop
<1>2. QED
  BY <1>1 DEF AheadInv

LEMMA MoveAhead ==
  ASSUME TypeOK, Shape, AheadInv, NEW f, Moved(f), VisitsBelowTop, UNCHANGED <<kind0, touched>>,
         \A p \in Path : Live(p) /\ Ahead(Len(stack), p)' =>
           Ahead(Len(stack), p) /\ calls'[p] = calls[p]
  PROVE  AheadInv'
<1>1. ASSUME NEW k \in 1..Len(stack'), NEW p \in Path, Live(p)', Ahead(k, p)'
      PROVE  calls'[p] = 0
  <2>1. k \in 1..Len(stack) /\ Live(p) /\ Len(stack) \in Nat
    BY <1>1 DEF Moved, TypeOK, Live
  <2>2. CASE k = Len(stack)
    <3>1. Ahead(Len(stack), p)'
      BY <1>1, <2>2 DEF Ahead, Moved
    <3>2. QED
      BY <2>1, <3>1 DEF AheadInv
  <2>3. CASE k # Len(stack)
    <3>1. k \in 1..(Len(stack) - 1) /\ stack'[k] = stack[k]
      BY <2>1, <2>3 DEF Moved
    <3>2. Ahead(k, p)
      BY <1>1, <3>1 DEF Ahead
    <3>3. calls[p] = 0 /\ Top.dir \notin Anc[p]
      BY <2>1, <3>1, <3>2, OnlyTop DEF AheadInv
    <3>4. QED
      BY <3>3 DEF VisitsBelowTop
  <2>4. QED
    BY <2>2, <2>3
<1>2. QED
  BY <1>1 DEF AheadInv

LEMMA PushAhead ==
  ASSUME TypeOK, Shape, AheadInv, At("read"), NEW c \in Children(Top.dir) \ Top.done,
         Pushed(c), UNCHANGED <<kind0, touched, calls>>
  PROVE  AheadInv'
<1> DEFINE n == Len(stack)
<1>1. n \in Nat \ {0} /\ Len(stack') = n + 1
  BY DEF Pushed, TypeOK
<1>2. /\ \A k \in 1..(n - 1) : stack'[k] = stack[k]
      /\ stack'[n] = TakenFrame(c) /\ stack'[n+1] = Called(c)
  BY DEF Pushed
<1>3. stack[n] = Top /\ Top.at = "read"
  BY DEF Top, At
<1>4. ASSUME NEW k \in 1..(n + 1), NEW p \in Path, Live(p)', Ahead(k, p)'
      PROVE  calls'[p] = 0
  <2>1. Live(p)
    BY <1>4 DEF Live
  <2>2. CASE k \in 1..(n - 1)
    <3>1. k \in 1..n /\ stack'[k] = stack[k]
      BY <1>1, <1>2, <2>2
    <3>2. Ahead(k, p)
      BY <1>4, <3>1 DEF Ahead
    <3>3. QED
      BY <2>1, <3>1, <3>2 DEF AheadInv
  <2>3. CASE k = n
    <3>1. Ahead(n, p)
      BY <1>2, <1>3, <1>4, <2>3 DEF Ahead, TakenFrame
    <3>2. QED
      BY <1>1, <2>1, <3>1 DEF AheadInv
  <2>4. CASE k = n + 1
    <3>1. c \in Anc[p]
      BY <1>2, <1>4, <2>4 DEF Ahead, Called
    <3>2. Ahead(n, p)
      BY <1>3, <3>1 DEF Ahead
    <3>3. QED
      BY <1>1, <2>1, <3>2 DEF AheadInv
  <2>5. QED
    BY <1>1, <2>2, <2>3, <2>4
<1>5. QED
  BY <1>1, <1>4 DEF AheadInv

-------------------------------------------------------------------------------
(***************************************************************************)
(* The number of open streams is the number of activations reading.        *)
(***************************************************************************)
LEMMA StreamCount ==
  ASSUME TypeOK, Shape, OpenDirsInv, stack # <<>>
  PROVE  /\ Len(stack) \in Nat \ {0} /\ Top = stack[Len(stack)] /\ Top \in Frame
         /\ Depth(Top.dir) = Len(stack)
         /\ openDirs = IF Top.at = "read" THEN Len(stack) ELSE Len(stack) - 1
<1>1. Len(stack) \in Nat \ {0} /\ Top = stack[Len(stack)] /\ Top \in Frame
  BY DEF TypeOK, Top
<1>2. Depth(Top.dir) = Len(stack)
  <2>1. Len(stack) \in 1..Len(stack)
    BY <1>1
  <2>2. QED
    BY <1>1, <2>1, Zenon DEF Shape, StackInv
<1>3. QED
  BY <1>1, <1>2, Zenon DEF OpenDirsInv

LEMMA PopDirs ==
  ASSUME TypeOK, Shape, OpenDirsInv, Popped, Shape',
         openDirs' = IF Top.at = "read" THEN openDirs - 1 ELSE openDirs
  PROVE  OpenDirsInv' /\ openDirs' \in Nat
<1>1. /\ Len(stack) \in Nat \ {0} /\ Len(stack') = Len(stack) - 1
      /\ openDirs' = Len(stack')
  BY StreamCount DEF Popped
<1>2. CASE stack' = <<>>
  <2>1. openDirs' = 0
    BY <1>1, <1>2
  <2>2. QED
    BY <1>2, <2>1 DEF OpenDirsInv
<1>3. CASE stack' # <<>>
  <2>1. /\ Len(stack') \in 1..(Len(stack) - 1)
        /\ stack'[Len(stack')] = stack[Len(stack')]
    BY <1>1, <1>3 DEF Popped
  <2>2. stack[Len(stack')].at = "read" /\ Depth(stack'[Len(stack')].dir) = Len(stack')
    BY <1>1, <2>1 DEF Shape, StackInv
  <2>3. QED
    BY <1>1, <1>3, <2>1, <2>2 DEF OpenDirsInv, Top
<1>4. QED
  BY <1>2, <1>3

LEMMA MoveDirs ==
  ASSUME TypeOK, Shape, OpenDirsInv, NEW f, Moved(f),
         openDirs' = IF f.at = "read" THEN Len(stack) ELSE Len(stack) - 1
  PROVE  OpenDirsInv' /\ openDirs' \in Nat
<1>1. Len(stack) \in Nat \ {0} /\ Depth(Top.dir) = Len(stack)
  BY StreamCount DEF Moved
<1>2. Top' = f /\ stack' # <<>> /\ f.dir = Top.dir
  BY <1>1 DEF Moved, Top
<1>3. Depth(Top'.dir) = Len(stack) /\ Top'.at = f.at
  BY <1>1, <1>2
<1>4. openDirs' = IF Top'.at = "read" THEN Depth(Top'.dir) ELSE Depth(Top'.dir) - 1
  BY <1>3
<1>5. OpenDirsInv'
  BY <1>2, <1>4 DEF OpenDirsInv
<1>6. openDirs' \in Nat
  BY <1>1
<1>7. QED
  BY <1>5, <1>6

LEMMA PushDirs ==
  ASSUME TypeOK, Shape, OpenDirsInv, At("read"), NEW c \in Children(Top.dir), Pushed(c),
         UNCHANGED openDirs
  PROVE  OpenDirsInv' /\ openDirs' \in Nat
<1>1. /\ Len(stack) \in Nat \ {0} /\ Depth(Top.dir) = Len(stack) /\ Top.dir \in Path
      /\ openDirs = Len(stack)
  BY StreamCount DEF At, Frame
<1>2. Depth(c) = Len(stack) + 1
  BY <1>1, ChildDepth
<1>3. /\ Top' = Called(c) /\ Top'.dir = c /\ Top'.at = "stat" /\ stack' # <<>>
  BY <1>1 DEF Pushed, Top, Called
<1>4. QED
  BY <1>1, <1>2, <1>3 DEF OpenDirsInv

(***************************************************************************)
(* One more callback, on a path no callback has run on if it is live.      *)
(***************************************************************************)
LEMMA OneVisit ==
  ASSUME TypeOK, AtMostOnce, VisitsAreFiles, NEW p \in Path, Visit(p),
         UNCHANGED <<kind0, touched>>, Live(p) => calls[p] = 0,
         p \in touched \/ kind0[p] = "reg" \/ (p = Root /\ kind0[p] = "reglink")
  PROVE  AtMostOnce' /\ VisitsAreFiles' /\ calls' \in [Path -> Nat]
<1>1. /\ calls \in [Path -> Nat] /\ calls' = [calls EXCEPT ![p] = calls[p] + 1]
  BY DEF TypeOK, Visit
<1>2. p \notin touched => calls'[p] = 1
  BY <1>1 DEF Live
<1>3. QED
  BY <1>1, <1>2 DEF AtMostOnce, VisitsAreFiles

-------------------------------------------------------------------------------
(***************************************************************************)
(* Each step of the function preserves the invariant.                      *)
(***************************************************************************)
LEMMA TopFacts ==
  ASSUME IInv, stack # <<>>
  PROVE  /\ TypeOK /\ Shape /\ OpenDirsInv /\ SkipsHaveCause
         /\ AheadInv /\ AtMostOnce /\ VisitsAreFiles
         /\ stack \in Seq(Frame) /\ Top \in Frame /\ Top.dir \in Path
         /\ Len(stack) \in 1..Len(stack) /\ stack[Len(stack)] = Top
         /\ Depth(Top.dir) = Len(stack)
         /\ Top.dir \notin touched => kind[Top.dir] = kind0[Top.dir]
         /\ Top.dir \in Anc[Top.dir]
<1>1. /\ TypeOK /\ Shape /\ OpenDirsInv /\ SkipsHaveCause
      /\ AheadInv /\ AtMostOnce /\ VisitsAreFiles
  BY DEF IInv, Shape, Causes, Visiting
<1>2. stack \in Seq(Frame) /\ Len(stack) \in 1..Len(stack) /\ stack[Len(stack)] = Top
  BY DEF IInv, TypeOK, Top
<1>3. Top \in Frame /\ Top.dir \in Path
  BY <1>2 DEF Frame
<1>4. Depth(Top.dir) = Len(stack)
  BY <1>1, <1>2 DEF Shape, StackInv
<1>5. Top.dir \notin touched => kind[Top.dir] = kind0[Top.dir]
  BY <1>3 DEF IInv, FsInv
<1>6. Top.dir \in Anc[Top.dir]
  BY <1>3, TreeAssumption
<1>7. QED
  BY <1>1, <1>2, <1>3, <1>4, <1>5, <1>6

LEMMA FsKept ==
  ASSUME IInv, UNCHANGED fsVars
  PROVE  FsInv' /\ UNCHANGED <<kind, kind0, touched, changes>>
BY DEF IInv, FsInv, fsVars, WellFormed

LEMMA StatFailsKeeps ==
  ASSUME IInv, LengthInv, StatFails
  PROVE  IInv'
<1>1. /\ stack # <<>> /\ Top.at = "stat" /\ (kind[Top.dir] = "absent" \/ ~ Fits(Top.dir))
      /\ stack' = Callers /\ skipped' = skipped \cup {Top.dir}
      /\ result' = IF Len(stack) = 1 THEN "failed" ELSE result
      /\ UNCHANGED fsVars /\ UNCHANGED pathVars /\ UNCHANGED <<openDirs, calls>>
  BY DEF StatFails, Return, At
<1>2. Popped
  BY <1>1, TopFacts, CallersPop
<1>3. Shape' /\ AheadInv'
  BY <1>1, <1>2, TopFacts, FsKept, PopShape, PopAhead DEF VisitsBelowTop
<1>4. OpenDirsInv' /\ openDirs' \in Nat
  BY <1>1, <1>2, <1>3, TopFacts, PopDirs
<1>5. SkipsHaveCause'
  <2>1. ~ Fits(Top.dir) => Top.dir = Root /\ base >= PathMax
    <3>1. ~ Fits(Top.dir) => Len(stack) = 1
      BY <1>1, TopFacts DEF LengthInv
    <3>2. Len(stack) = 1 => Top.dir = Root
      BY <1>1, TopFacts DEF Shape, StackInv
    <3>3. ~ Fits(Root) => base >= PathMax
      <4>1. base \in Nat /\ PathMax \in Nat /\ Suffix[Root] = 0
        BY LengthAssumption DEF IInv, TypeOK
      <4>2. QED
        BY <4>1 DEF Fits, Length
    <3>4. QED
      BY <3>1, <3>2, <3>3
  <2>2. \/ Top.dir \in touched \/ kind0[Top.dir] \notin Openable
        \/ Top.dir = Root /\ base >= PathMax
    BY <1>1, <2>1, TopFacts DEF Openable
  <2>3. QED
    BY <1>1, <2>2, TopFacts, FsKept DEF SkipsHaveCause, pathVars
<1>6. AtMostOnce' /\ VisitsAreFiles'
  BY <1>1, TopFacts, FsKept DEF AtMostOnce, VisitsAreFiles
<1>7. TypeOK'
  BY <1>1, <1>2, <1>4, TopFacts, FsKept DEF TypeOK, Popped, pathVars
<1>8. QED
  BY <1>1, <1>3, <1>4, <1>5, <1>6, <1>7, FsKept DEF IInv, Shape, Causes, Visiting

LEMMA OpenFailsKeeps ==
  ASSUME IInv, OpenFails
  PROVE  IInv'
<1>1. /\ stack # <<>> /\ Top.at = "open" /\ Refused(Top.dir)
      /\ stack' = Callers /\ skipped' = skipped \cup {Top.dir}
      /\ result' = IF Len(stack) = 1 THEN "failed" ELSE result
      /\ UNCHANGED fsVars /\ UNCHANGED pathVars /\ UNCHANGED <<openDirs, calls>>
  BY DEF OpenFails, Return, At
<1>2. Popped
  BY <1>1, TopFacts, CallersPop
<1>3. Shape' /\ AheadInv'
  BY <1>1, <1>2, TopFacts, FsKept, PopShape, PopAhead DEF VisitsBelowTop
<1>4. OpenDirsInv' /\ openDirs' \in Nat
  BY <1>1, <1>2, <1>3, TopFacts, PopDirs
<1>5. SkipsHaveCause'
  <2>1. \/ Top.dir \in touched \/ Top.dir \in Denied
        \/ kind0[Top.dir] \notin Openable \/ Depth(Top.dir) > MaxOpen
    BY <1>1, TopFacts, StreamCount DEF Refused
  <2>2. QED
    BY <1>1, <2>1, TopFacts, FsKept DEF SkipsHaveCause, pathVars
<1>6. AtMostOnce' /\ VisitsAreFiles'
  BY <1>1, TopFacts, FsKept DEF AtMostOnce, VisitsAreFiles
<1>7. TypeOK'
  BY <1>1, <1>2, <1>4, TopFacts, FsKept DEF TypeOK, Popped, pathVars
<1>8. QED
  BY <1>1, <1>3, <1>4, <1>5, <1>6, <1>7, FsKept DEF IInv, Shape, Causes, Visiting

LEMMA StatFileKeeps ==
  ASSUME IInv, StatFile
  PROVE  IInv'
<1>1. /\ stack # <<>> /\ Top.at = "stat" /\ kind[Top.dir] \in Regular
      /\ stack' = Callers /\ Visit(Top.dir)
      /\ result' = IF Len(stack) = 1 THEN "ok" ELSE result
      /\ UNCHANGED fsVars /\ UNCHANGED pathVars /\ UNCHANGED <<openDirs, skipped>>
  BY DEF StatFile, Return, At
<1>2. Popped
  BY <1>1, TopFacts, CallersPop
<1>3. VisitsBelowTop
  BY <1>1, TopFacts DEF VisitsBelowTop, Visit, TypeOK
<1>4. Shape' /\ AheadInv'
  BY <1>1, <1>2, <1>3, TopFacts, FsKept, PopShape, PopAhead
<1>5. OpenDirsInv' /\ openDirs' \in Nat
  BY <1>1, <1>2, <1>4, TopFacts, PopDirs
<1>6. SkipsHaveCause'
  BY <1>1, TopFacts, FsKept DEF SkipsHaveCause, pathVars
<1>7. AtMostOnce' /\ VisitsAreFiles' /\ calls' \in [Path -> Nat]
  <2>1. Live(Top.dir) => calls[Top.dir] = 0
    BY <1>1, TopFacts DEF AheadInv, Ahead
  <2>2. Top.dir = Root \/ Top.dir \in touched \/ kind0[Top.dir] = "dir"
    <3>1. Len(stack) = 1 \/ Len(stack) \in 2..Len(stack)
      BY TopFacts, <1>1
    <3>2. QED
      BY <1>1, <3>1, TopFacts DEF Shape, StackInv
  <2>3. Top.dir \in touched \/ kind0[Top.dir] = "reg" \/ (Top.dir = Root /\ kind0[Top.dir] = "reglink")
    BY <1>1, <2>2, TopFacts DEF Regular
  <2>4. QED
    BY <1>1, <2>1, <2>3, TopFacts, FsKept, OneVisit
<1>8. TypeOK'
  BY <1>1, <1>2, <1>5, <1>7, TopFacts, FsKept DEF TypeOK, Popped, pathVars
<1>9. QED
  BY <1>1, <1>4, <1>5, <1>6, <1>7, <1>8, FsKept DEF IInv, Shape, Causes, Visiting

LEMMA ReadEndKeeps ==
  ASSUME IInv, ReadEnd
  PROVE  IInv'
<1>1. /\ stack # <<>> /\ Top.at = "read" /\ openDirs' = openDirs - 1
      /\ stack' = Callers
      /\ result' = IF Len(stack) = 1 THEN "ok" ELSE result
      /\ UNCHANGED fsVars /\ UNCHANGED pathVars /\ UNCHANGED <<calls, skipped>>
  BY DEF ReadEnd, Return, At
<1>2. Popped
  BY <1>1, TopFacts, CallersPop
<1>3. Shape' /\ AheadInv'
  BY <1>1, <1>2, TopFacts, FsKept, PopShape, PopAhead DEF VisitsBelowTop
<1>4. OpenDirsInv' /\ openDirs' \in Nat
  BY <1>1, <1>2, <1>3, TopFacts, PopDirs
<1>5. SkipsHaveCause' /\ AtMostOnce' /\ VisitsAreFiles'
  BY <1>1, TopFacts, FsKept DEF SkipsHaveCause, AtMostOnce, VisitsAreFiles, pathVars
<1>6. TypeOK'
  BY <1>1, <1>2, <1>4, TopFacts, FsKept DEF TypeOK, Popped, pathVars
<1>7. QED
  BY <1>1, <1>3, <1>4, <1>5, <1>6, FsKept DEF IInv, Shape, Causes, Visiting

LEMMA StatDirKeeps ==
  ASSUME IInv, StatDir
  PROVE  IInv'
<1> DEFINE f == [dir |-> Top.dir, at |-> "open", snap |-> Top.snap, done |-> Top.done]
<1>1. /\ stack # <<>> /\ Top.at = "stat"
      /\ stack' = [stack EXCEPT ![Len(stack)].at = "open"]
      /\ UNCHANGED fsVars /\ UNCHANGED pathVars /\ UNCHANGED <<openDirs, calls, skipped, result>>
  BY DEF StatDir, At
<1>2. f \in Frame /\ stack' = [stack EXCEPT ![Len(stack)] = f]
  <2>1. Top \in FrameRecord
    BY <1>1, TopFacts DEF Frame, FrameRecord
  <2>2. [Top EXCEPT !.at = "open"] = f
    BY <2>1, AtUpdate, Zenon
  <2>3. f \in Frame
    BY <1>1, <2>1, TopFacts DEF Frame, FrameRecord
  <2>4. QED
    BY <1>1, <2>2, <2>3, TopFacts
<1>3. Moved(f)
  <2>1. f.dir = Top.dir
    OBVIOUS
  <2>2. QED
    BY <1>1, <1>2, <2>1, TopFacts, TopMoves, Zenon
<1>4. Shape'
  <2>1. f.at # "read"
    OBVIOUS
  <2>2. QED
    BY <1>1, <1>3, <2>1, TopFacts, FsKept, MoveShape, Zenon
<1>5. AheadInv'
  <2>1. ASSUME NEW p \in Path, Ahead(Len(stack), p)'
        PROVE  Ahead(Len(stack), p)
    BY <1>1, <1>3, <2>1, TopFacts DEF Ahead, Moved
  <2>2. QED
    BY <1>1, <1>3, <2>1, TopFacts, FsKept, MoveAhead DEF VisitsBelowTop
<1>6. OpenDirsInv' /\ openDirs' \in Nat
  BY <1>1, <1>3, TopFacts, StreamCount, MoveDirs
<1>7. SkipsHaveCause' /\ AtMostOnce' /\ VisitsAreFiles'
  BY <1>1, TopFacts, FsKept DEF SkipsHaveCause, AtMostOnce, VisitsAreFiles, pathVars
<1>8. TypeOK'
  BY <1>1, <1>3, <1>6, TopFacts, FsKept DEF TypeOK, Moved, pathVars
<1>9. QED
  BY <1>1, <1>4, <1>5, <1>6, <1>7, <1>8, FsKept DEF IInv, Shape, Causes, Visiting

LEMMA OpenDirKeeps ==
  ASSUME IInv, OpenDir
  PROVE  IInv'
<1> DEFINE f == Opened(Top.dir)
<1>1. /\ stack # <<>> /\ Top.at = "open" /\ openDirs' = openDirs + 1
      /\ stack' = [stack EXCEPT ![Len(stack)] = f]
      /\ UNCHANGED fsVars /\ UNCHANGED pathVars /\ UNCHANGED <<calls, skipped, result>>
  BY DEF OpenDir, At
<1>2. f \in Frame /\ f.dir = Top.dir /\ f.at = "read" /\ f.done = {}
  BY <1>1, TopFacts DEF Opened, Frame, TypeOK, Kinds
<1>3. Moved(f)
  BY <1>1, <1>2, TopFacts, TopMoves, Zenon
<1>4. \A c \in Children(f.dir) \ touched : f.snap[c] = kind0[c]
  BY <1>2, TopFacts DEF Opened, Children, IInv, FsInv
<1>5. Shape'
  BY <1>1, <1>3, <1>4, TopFacts, FsKept, MoveShape, Zenon
<1>6. AheadInv'
  <2>1. ASSUME NEW p \in Path, Ahead(Len(stack), p)'
        PROVE  Ahead(Len(stack), p)
    <3>1. PICK c \in Children(Top.dir) : c \in Anc[p]
      BY <1>1, <1>2, <1>3, <2>1, TopFacts DEF Ahead, Moved
    <3>2. Top.dir \in Anc[c] /\ c \in Path
      BY <3>1, TopFacts, ChildDepth, TreeAssumption DEF Children
    <3>3. QED
      BY <1>1, <3>1, <3>2, TopFacts, TreeAssumption DEF Ahead
  <2>2. QED
    BY <1>1, <1>3, <2>1, TopFacts, FsKept, MoveAhead DEF VisitsBelowTop
<1>7. OpenDirsInv' /\ openDirs' \in Nat
  BY <1>1, <1>2, <1>3, TopFacts, StreamCount, MoveDirs
<1>8. SkipsHaveCause' /\ AtMostOnce' /\ VisitsAreFiles'
  BY <1>1, TopFacts, FsKept DEF SkipsHaveCause, AtMostOnce, VisitsAreFiles, pathVars
<1>9. TypeOK'
  BY <1>1, <1>3, <1>7, TopFacts, FsKept DEF TypeOK, Moved, pathVars
<1>10. QED
  BY <1>1, <1>5, <1>6, <1>7, <1>8, <1>9, FsKept DEF IInv, Shape, Causes, Visiting

(***************************************************************************)
(* What readdir says of an entry nobody touched is what it was from the    *)
(* start.                                                                  *)
(***************************************************************************)
LEMMA EntryKind ==
  ASSUME IInv, At("read"), NEW c \in Children(Top.dir), NEW d_type \in Entry(c)
  PROVE  c \in touched \/ (kind0[c] = d_type /\ d_type # "absent")
<1>1. stack # <<>> /\ Top.at = "read"
  BY DEF At
<1>2. c \notin touched => Top.snap[c] = kind0[c] /\ kind[c] = kind0[c]
  BY <1>1, TopFacts DEF Shape, SnapInv, IInv, FsInv, Children
<1>3. QED
  BY <1>2 DEF Entry

LEMMA ReadEntryKeeps ==
  ASSUME IInv, NEW c \in Path, ReadEntry(c)
  PROVE  IInv'
<1>1. /\ stack # <<>> /\ At("read") /\ Top.at = "read" /\ c \in Children(Top.dir) \ Top.done
      /\ UNCHANGED fsVars /\ UNCHANGED pathVars /\ UNCHANGED <<openDirs, skipped, result>>
  BY DEF ReadEntry, At
<1>2. PICK d_type \in Entry(c) :
        \/ d_type = "reg" /\ Visit(c) /\ stack' = Taken(c)
        \/ d_type = "dir" /\ stack' = Append(Taken(c), Called(c)) /\ UNCHANGED calls
        \/ d_type \notin {"reg", "dir"} /\ stack' = Taken(c) /\ UNCHANGED calls
  BY DEF ReadEntry
<1>3. c \in touched \/ (kind0[c] = d_type /\ d_type # "absent")
  BY <1>1, EntryKind
<1>4. Live(c) => calls[c] = 0
  <2>1. c \in Anc[c]
    BY TreeAssumption DEF Children
  <2>2. Len(stack) \in 1..Len(stack) /\ stack[Len(stack)] = Top /\ AheadInv
    BY <1>1, TopFacts
  <2>3. Ahead(Len(stack), c)
    BY <1>1, <2>1, <2>2, Zenon DEF Ahead
  <2>4. QED
    BY <2>2, <2>3, Zenon DEF AheadInv
<1>5. Top.dir \in Anc[c]
  BY <1>1, TopFacts, ChildDepth
<1>6. SkipsHaveCause'
  BY <1>1, TopFacts, FsKept DEF SkipsHaveCause, pathVars
<1>7. CASE stack' = Taken(c) /\ ((Visit(c) /\ d_type = "reg") \/ UNCHANGED calls)
  <2> DEFINE f == TakenFrame(c)
  <2>1. (Visit(c) /\ d_type = "reg") \/ UNCHANGED calls
    BY <1>7
  <2>2. Moved(f)
    <3>1. f \in Frame /\ Taken(c) = [stack EXCEPT ![Len(stack)] = f]
      BY <1>1, TopFacts, TakenTop
    <3>2. f.dir = Top.dir
      BY DEF TakenFrame
    <3>3. QED
      BY <1>1, <1>7, <3>1, <3>2, TopFacts, TopMoves, Zenon
  <2>3. f.at = "read" /\ f.snap = Top.snap /\ f.dir = Top.dir /\ f.done = Top.done \cup {c}
    BY DEF TakenFrame
  <2>4. Shape'
    <3>1. \A d \in Children(f.dir) \ touched : f.snap[d] = kind0[d]
      BY <1>1, <2>3, TopFacts DEF Shape, SnapInv
    <3>2. QED
      BY <1>1, <2>2, <3>1, TopFacts, FsKept, MoveShape, Zenon
  <2>5. VisitsBelowTop
    BY <1>5, <2>1, TopFacts, <1>1 DEF VisitsBelowTop, Visit, TypeOK
  <2>6. AheadInv'
    <3>1. ASSUME NEW p \in Path, Ahead(Len(stack), p)'
          PROVE  Ahead(Len(stack), p) /\ calls'[p] = calls[p]
      <4>1. PICK d \in Children(Top.dir) \ (Top.done \cup {c}) : d \in Anc[p]
        BY <1>1, <2>2, <2>3, <3>1, TopFacts DEF Ahead, Moved
      <4>2. Ahead(Len(stack), p)
        BY <1>1, <4>1, TopFacts DEF Ahead
      <4>3. p # c
        BY <1>1, <4>1, TreeAssumption DEF Children
      <4>4. QED
        BY <1>1, <2>1, <4>2, <4>3, TopFacts DEF Visit, TypeOK
    <3>2. QED
      BY <1>1, <2>2, <2>5, <3>1, TopFacts, FsKept, MoveAhead
  <2>7. OpenDirsInv' /\ openDirs' \in Nat
    BY <1>1, <2>2, <2>3, TopFacts, StreamCount, MoveDirs
  <2>8. AtMostOnce' /\ VisitsAreFiles' /\ calls' \in [Path -> Nat]
    <3>1. CASE UNCHANGED calls
      BY <1>1, <3>1, TopFacts, FsKept DEF AtMostOnce, VisitsAreFiles, TypeOK
    <3>2. CASE Visit(c) /\ d_type = "reg"
      BY <1>1, <1>3, <1>4, <3>2, TopFacts, FsKept, OneVisit
    <3>3. QED
      BY <2>1, <3>1, <3>2
  <2>9. TypeOK'
    BY <1>1, <2>2, <2>7, <2>8, TopFacts, FsKept DEF TypeOK, Moved, pathVars
  <2>10. QED
    BY <1>1, <1>6, <2>4, <2>6, <2>7, <2>8, <2>9, FsKept DEF IInv, Shape, Causes, Visiting
<1>8. CASE d_type = "dir" /\ stack' = Append(Taken(c), Called(c)) /\ UNCHANGED calls
  <2>1. Pushed(c)
    BY <1>1, <1>8, TopFacts, EntryPushes
  <2>2. Shape'
    BY <1>1, <1>3, <1>8, <2>1, TopFacts, FsKept, PushShape
  <2>3. AheadInv'
    BY <1>1, <1>8, <2>1, TopFacts, FsKept, PushAhead
  <2>4. OpenDirsInv' /\ openDirs' \in Nat
    BY <1>1, <2>1, TopFacts, PushDirs
  <2>5. AtMostOnce' /\ VisitsAreFiles'
    BY <1>1, <1>8, TopFacts, FsKept DEF AtMostOnce, VisitsAreFiles
  <2>6. TypeOK'
    BY <1>1, <1>8, <2>1, <2>4, TopFacts, FsKept DEF TypeOK, Pushed, pathVars
  <2>7. QED
    BY <1>1, <1>6, <2>2, <2>3, <2>4, <2>5, <2>6, FsKept DEF IInv, Shape, Causes, Visiting
<1>9. QED
  BY <1>2, <1>7, <1>8

\* How far an entry's path is too long.
LEMMA EntryLength ==
  ASSUME base \in Nat, NEW d \in Path, NEW c \in Children(d)
  PROVE  /\ Length(c) \in Nat /\ Length(d) \in Nat
         /\ Length(d) + 2 <= Length(c) /\ Length(c) <= Length(d) + 1 + NameMax
<1>1. c \in Path \ {Root} /\ Parent[c] = d
  BY DEF Children
<1>2. PICK d_name \in 1..NameMax : Suffix[c] = Suffix[d] + 1 + d_name
  BY <1>1, LengthAssumption
<1>3. Suffix[c] \in Nat /\ Suffix[d] \in Nat /\ NameMax \in Nat
  BY <1>1, LengthAssumption
<1>4. QED
  BY <1>2, <1>3 DEF Length

LEMMA EntryOverrunsKeeps ==
  ASSUME IInv, LengthInv, NEW c \in Path, EntryOverruns(c)
  PROVE  IInv' /\ beyond' <= NameMax + 1
<1>1. /\ stack # <<>> /\ Top.at = "read" /\ c \in Children(Top.dir) /\ ~ Fits(c)
      /\ beyond' = Length(c) + 1 - PathMax
      /\ UNCHANGED fsVars /\ UNCHANGED <<stack, openDirs, calls, skipped, result, base>>
  BY DEF EntryOverruns, At
<1>2. base \in Nat /\ PathMax \in Nat /\ NameMax \in Nat
  BY <1>1, TopFacts, LengthAssumption DEF TypeOK
<1>3. /\ Length(c) \in Nat /\ Length(Top.dir) \in Nat
      /\ Length(c) <= Length(Top.dir) + 1 + NameMax
  BY <1>1, <1>2, TopFacts, EntryLength
<1>4. Fits(Top.dir)
  BY <1>1, TopFacts DEF LengthInv
<1>5. beyond' \in Nat /\ beyond' <= NameMax + 1
  BY <1>1, <1>2, <1>3, <1>4 DEF Fits
<1>6. TypeOK'
  BY <1>1, <1>5, FsKept, TopFacts DEF TypeOK
<1>7. Causes' /\ Visiting'
  BY <1>1, FsKept DEF IInv, Causes, Visiting, OpenDirsInv, Top, SkipsHaveCause, AtMostOnce,
     VisitsAreFiles, AheadInv, Ahead, Live
<1>8. QED
  BY <1>1, <1>5, <1>6, <1>7, FsKept DEF IInv, StackInv, SnapInv, ReadOnInv, Live

(***************************************************************************)
(* What other processes do to the file system keeps it a tree, and what    *)
(* they did not touch is what it was.                                      *)
(***************************************************************************)
LEMMA RemoveFs ==
  ASSUME IInv, NEW q \in Path, Remove(q), UNCHANGED kind0
  PROVE  FsInv' /\ touched \subseteq touched' /\ kind' \in [Path -> Kinds] /\ touched' \subseteq Path
<1>1. /\ kind' = [p \in Path |-> IF q \in Anc[p] THEN "absent" ELSE kind[p]]
      /\ touched' = touched \cup {p \in Path : q \in Anc[p]}
      /\ kind \in [Path -> Kinds] /\ touched \subseteq Path
  BY DEF Remove, IInv, TypeOK
<1>2. ASSUME NEW p \in Path, kind'[p] # "absent", NEW a \in Anc[p] \ {p}
      PROVE  kind'[a] \in Openable
  <2>1. q \notin Anc[p] /\ kind[p] # "absent"
    BY <1>1, <1>2
  <2>2. a \in Path /\ q \notin Anc[a]
    BY <1>2, <2>1, TreeAssumption
  <2>3. QED
    BY <1>1, <1>2, <2>1, <2>2 DEF IInv, FsInv, WellFormed
<1>3. QED
  BY <1>1, <1>2 DEF IInv, FsInv, WellFormed, Kinds

LEMMA CreateFs ==
  ASSUME IInv, NEW q \in Path, Create(q), UNCHANGED kind0
  PROVE  FsInv' /\ touched \subseteq touched' /\ kind' \in [Path -> Kinds] /\ touched' \subseteq Path
<1>1. PICK new \in Kinds \ {"absent"} : kind' = [kind EXCEPT ![q] = new]
  BY DEF Create
<1>2. /\ kind[q] = "absent"
      /\ q # Root => kind[Parent[q]] \in Openable
      /\ touched' = touched \cup {q}
      /\ kind \in [Path -> Kinds] /\ touched \subseteq Path
  BY DEF Create, IInv, TypeOK
<1>3. ASSUME NEW p \in Path, kind'[p] # "absent", NEW a \in Anc[p] \ {p}
      PROVE  kind'[a] \in Openable
  <2>1. CASE p = q
    <3>1. q # Root /\ a \in Anc[Parent[q]] /\ a # q /\ Parent[q] \in Path
      BY <1>3, <2>1, TreeAssumption
    <3>2. kind[Parent[q]] \in Openable /\ kind[Parent[q]] # "absent"
      BY <1>2, <3>1 DEF Openable
    <3>3. kind[a] \in Openable
      BY <3>1, <3>2 DEF IInv, FsInv, WellFormed
    <3>4. QED
      BY <1>1, <1>2, <3>1, <3>3
  <2>2. CASE p # q
    <3>1. kind[p] # "absent" /\ kind[a] \in Openable /\ a \in Path
      BY <1>1, <1>2, <1>3, <2>2, TreeAssumption DEF IInv, FsInv, WellFormed
    <3>2. a # q
      BY <1>2, <3>1 DEF Openable
    <3>3. QED
      BY <1>1, <1>2, <3>1, <3>2
  <2>3. QED
    BY <2>1, <2>2
<1>4. kind' \in [Path -> Kinds] /\ \A p \in Path \ touched' : kind'[p] = kind0[p]
  BY <1>1, <1>2 DEF IInv, FsInv
<1>5. QED
  BY <1>2, <1>3, <1>4 DEF IInv, FsInv, WellFormed

(***************************************************************************)
(* An activation is as it was, but may have forgotten that it read q.      *)
(***************************************************************************)
Forgot(q) ==
  /\ stack' \in Seq(Frame) /\ Len(stack') = Len(stack)
  /\ \A k \in 1..Len(stack) :
       /\ stack'[k].dir = stack[k].dir /\ stack'[k].at = stack[k].at
       /\ stack'[k].snap = stack[k].snap
       /\ stack[k].done \ {q} \subseteq stack'[k].done
       /\ stack'[k].done \subseteq stack[k].done

LEMMA ForgetFrames ==
  ASSUME IInv, NEW q \in Path, stack' = stack \/ stack' = Forget(q)
  PROVE  Forgot(q)
<1>1. stack \in Seq(Frame) /\ Len(stack) \in Nat
  BY DEF IInv, TypeOK
<1>2. CASE stack' = stack
  BY <1>1, <1>2 DEF Forgot
<1>3. CASE stack' = Forget(q)
  <2> DEFINE g(k) == [dir |-> stack[k].dir, at |-> stack[k].at, snap |-> stack[k].snap,
                      done |-> stack[k].done \ {q}]
  <2>1. ASSUME NEW k \in 1..Len(stack)
        PROVE  [stack[k] EXCEPT !.done = stack[k].done \ {q}] = g(k) /\ g(k) \in Frame
    <3>1. stack[k] \in FrameRecord /\ stack[k] \in Frame
      BY <1>1 DEF Frame, FrameRecord
    <3>2. [stack[k] EXCEPT !.done = stack[k].done \ {q}] = g(k)
      BY <3>1, DoneRemoved, Zenon
    <3>3. g(k) \in Frame
      BY <3>1 DEF Frame, FrameRecord
    <3>4. QED
      BY <3>2, <3>3
  <2>2. stack' = [k \in 1..Len(stack) |-> g(k)]
    BY <1>3, <2>1, Zenon DEF Forget
  <2>3. \A k \in 1..Len(stack) : g(k) \in Frame
    BY <2>1
  <2>4. \A k \in 1..Len(stack) : stack'[k] = g(k)
    BY <2>2
  <2>5. stack' \in Seq(Frame) /\ Len(stack') = Len(stack)
    <3> HIDE DEF g
    <3>1. QED
      BY <1>1, <2>2, <2>3
  <2>6. QED
    <3>1. ASSUME NEW k \in 1..Len(stack)
          PROVE  /\ stack'[k].dir = stack[k].dir /\ stack'[k].at = stack[k].at
                 /\ stack'[k].snap = stack[k].snap
                 /\ stack[k].done \ {q} \subseteq stack'[k].done
                 /\ stack'[k].done \subseteq stack[k].done
      <4>1. stack'[k] = g(k)
        BY <2>4
      <4>2. /\ g(k).dir = stack[k].dir /\ g(k).at = stack[k].at /\ g(k).snap = stack[k].snap
            /\ stack[k].done \ {q} \subseteq g(k).done /\ g(k).done \subseteq stack[k].done
        OBVIOUS
      <4>3. QED
        BY <4>1, <4>2, Zenon
    <3>2. QED
      BY <2>5, <3>1, Zenon DEF Forgot
<1>4. QED
  BY <1>2, <1>3

LEMMA InterfereKeeps ==
  ASSUME IInv, Interfere
  PROVE  IInv'
<1>1. /\ changes < MaxChanges /\ changes' = changes + 1
      /\ UNCHANGED <<kind0, base, beyond, openDirs, calls, skipped, result>>
  BY DEF Interfere, pathVars
<1>2. PICK q \in Path : (Remove(q) /\ stack' = stack) \/ Create(q)
  BY DEF Interfere, Remove
<1>3. FsInv' /\ touched \subseteq touched' /\ kind' \in [Path -> Kinds] /\ touched' \subseteq Path
  BY <1>1, <1>2, RemoveFs, CreateFs
<1>4. /\ stack' = stack \/ (kind[q] = "absent" /\ q \in touched')
      /\ Forgot(q)
  BY <1>2, ForgetFrames DEF Create
<1>5. ASSUME NEW p \in Path, Live(p)', stack' # stack
      PROVE  q \notin Anc[p]
  <2>1. kind[p] = kind0[p] /\ kind[p] # "absent" /\ p \notin touched'
    BY <1>1, <1>3, <1>5 DEF Live, IInv, FsInv
  <2>2. q # p /\ kind[q] \notin Openable
    BY <1>4, <1>5, <2>1 DEF Openable
  <2>3. QED
    BY <2>1, <2>2 DEF IInv, FsInv, WellFormed
<1>6. \A p \in Path : Live(p)' => Live(p)
  BY <1>1, <1>3 DEF Live
<1>7. stack \in Seq(Frame) /\ Len(stack) \in Nat /\ Len(stack') = Len(stack)
  BY <1>4 DEF Forgot, IInv, TypeOK
<1>8. stack' = <<>> <=> stack = <<>>
  BY <1>4, <1>7 DEF Forgot
<1>9. StackInv'
  <2>1. \A k \in 1..Len(stack) : Depth(stack'[k].dir) = k
    BY <1>4 DEF Forgot, IInv, StackInv
  <2>2. \A k \in 1..(Len(stack) - 1) :
          stack'[k].at = "read" /\ stack'[k+1].dir \in Children(stack'[k].dir)
    BY <1>4, <1>7 DEF Forgot, IInv, StackInv
  <2>3. /\ \A j, k \in 1..Len(stack) : j <= k => stack'[j].dir \in Anc[stack'[k].dir]
        /\ \A k \in 2..Len(stack) : stack'[k].dir \in touched' \/ kind0'[stack'[k].dir] = "dir"
    <3>1. \A k \in 1..Len(stack) : stack'[k].dir = stack[k].dir
      BY <1>4 DEF Forgot
    <3>2. \A j, k \in 1..Len(stack) : j <= k => stack'[j].dir \in Anc[stack'[k].dir]
      BY <3>1 DEF IInv, StackInv
    <3>3. \A k \in 2..Len(stack) : k \in 1..Len(stack)
      BY <1>7
    <3>4. \A k \in 2..Len(stack) : stack[k].dir \in touched \/ kind0[stack[k].dir] = "dir"
      BY DEF IInv, StackInv
    <3>5. \A k \in 2..Len(stack) : stack'[k].dir \in touched' \/ kind0'[stack'[k].dir] = "dir"
      BY <1>1, <1>3, <3>1, <3>3, <3>4
    <3>6. QED
      BY <3>2, <3>5
  <2>4. stack # <<>> => stack'[1].dir = Root
    BY <1>4, <1>7 DEF Forgot, IInv, StackInv
  <2>5. QED
    BY <1>7, <1>8, <2>1, <2>2, <2>3, <2>4 DEF StackInv
<1>10. SnapInv'
  <2>1. ASSUME NEW k \in 1..Len(stack'), stack'[k].at = "read",
               NEW c \in Children(stack'[k].dir) \ touched'
        PROVE  stack'[k].snap[c] = kind0'[c]
    BY <1>1, <1>3, <1>4, <1>7, <2>1 DEF Forgot, IInv, SnapInv
  <2>2. QED
    BY <2>1 DEF SnapInv
<1>11. ReadOnInv'
  <2>1. ASSUME NEW k \in 1..(Len(stack) - 1), NEW p \in Path, Live(p)',
               stack'[k+1].dir \in Anc[p]
        PROVE  stack'[k+1].dir \in stack'[k].done
    <3>1. k \in 1..Len(stack) /\ k + 1 \in 1..Len(stack)
      BY <1>7
    <3>2. stack[k+1].dir = stack'[k+1].dir /\ stack[k+1].dir \in stack[k].done
      BY <1>4, <1>6, <2>1, <3>1 DEF Forgot, IInv, ReadOnInv
    <3>3. CASE stack' = stack
      BY <3>2, <3>3
    <3>4. CASE stack' # stack
      <4>1. q # stack'[k+1].dir
        BY <1>5, <2>1, <3>4
      <4>2. QED
        BY <1>4, <3>1, <3>2, <4>1 DEF Forgot
    <3>5. QED
      BY <3>3, <3>4
  <2>2. QED
    BY <1>7, <2>1 DEF ReadOnInv
<1>12. AheadInv'
  <2>1. ASSUME NEW k \in 1..Len(stack), NEW p \in Path, Live(p)', Ahead(k, p)'
        PROVE  Ahead(k, p)
    <3>1. CASE stack' = stack
      BY <2>1, <3>1 DEF Ahead
    <3>2. CASE stack' # stack
      BY <1>4, <1>5, <2>1, <3>2 DEF Ahead, Forgot
    <3>3. QED
      BY <3>1, <3>2
  <2>2. QED
    BY <1>1, <1>6, <1>7, <2>1 DEF AheadInv, IInv, Visiting
<1>13. OpenDirsInv'
  <2>1. CASE stack = <<>>
    BY <1>1, <1>8, <2>1 DEF OpenDirsInv, IInv, Causes
  <2>2. CASE stack # <<>>
    <3>1. Len(stack) \in 1..Len(stack) /\ Top' = stack'[Len(stack)] /\ Top = stack[Len(stack)]
      BY <1>7, <2>2 DEF Top
    <3>2. Top'.dir = Top.dir /\ Top'.at = Top.at
      BY <1>4, <3>1 DEF Forgot
    <3>3. QED
      BY <1>1, <1>8, <2>2, <3>2 DEF OpenDirsInv, IInv, Causes
  <2>3. QED
    BY <2>1, <2>2
<1>14. SkipsHaveCause' /\ AtMostOnce' /\ VisitsAreFiles'
  BY <1>1, <1>3 DEF SkipsHaveCause, AtMostOnce, VisitsAreFiles, IInv, Causes, Visiting
<1>15. TypeOK'
  BY <1>1, <1>3, <1>4, BoundAssumption DEF TypeOK, IInv, Forgot
<1>16. QED
  BY <1>3, <1>9, <1>10, <1>11, <1>12, <1>13, <1>14, <1>15 DEF IInv, Causes, Visiting

LEMMA InitHolds == Init => IInv
<1> SUFFICES ASSUME Init PROVE IInv
  OBVIOUS
<1>1. /\ stack = <<Called(Root)>> /\ kind0 = kind /\ touched = {} /\ WellFormed(kind)
      /\ calls = [p \in Path |-> 0] /\ skipped = {} /\ openDirs = 0
  BY DEF Init
<1>2. Called(Root) \in Frame /\ Called(Root).dir = Root /\ Called(Root).at = "stat"
  BY TreeAssumption DEF Called, Frame, NoEntries, Kinds
<1>3. Len(stack) = 1 /\ stack[1] = Called(Root) /\ stack # <<>> /\ stack \in Seq(Frame)
  BY <1>1, <1>2
<1>4. TypeOK
  BY <1>3, BoundAssumption DEF TypeOK, Init
<1>5. FsInv
  BY <1>1 DEF FsInv
<1>6. Depth(Root) = 1
  BY FS_Singleton, TreeAssumption DEF Depth
<1>7. StackInv
  BY <1>2, <1>3, <1>6, TreeAssumption DEF StackInv
<1>8. SnapInv /\ ReadOnInv
  BY <1>2, <1>3 DEF SnapInv, ReadOnInv
<1>9. AheadInv /\ AtMostOnce /\ VisitsAreFiles
  BY <1>1 DEF AheadInv, AtMostOnce, VisitsAreFiles
<1>10. OpenDirsInv /\ SkipsHaveCause
  BY <1>1, <1>2, <1>3, <1>6 DEF OpenDirsInv, SkipsHaveCause, Top
<1>11. QED
  BY <1>4, <1>5, <1>7, <1>8, <1>9, <1>10 DEF IInv, Causes, Visiting

LEMMA NextKeeps == IInv /\ LengthInv /\ [Next]_vars => IInv'
<1> SUFFICES ASSUME IInv, LengthInv, [Next]_vars PROVE IInv'
  OBVIOUS
<1>1. CASE UNCHANGED vars
  BY <1>1 DEF IInv, TypeOK, FsInv, WellFormed, StackInv, SnapInv, ReadOnInv, Live, AheadInv, Ahead,
       Causes, Visiting, OpenDirsInv, Top, SkipsHaveCause, AtMostOnce, VisitsAreFiles,
       vars, fsVars, opVars, pathVars
<1>2. CASE Step
  BY <1>2, StatFailsKeeps, StatFileKeeps, StatDirKeeps, OpenFailsKeeps, OpenDirKeeps,
     ReadEndKeeps, ReadEntryKeeps, EntryOverrunsKeeps DEF Step
<1>3. CASE Interfere
  BY <1>3, InterfereKeeps
<1>4. QED
  BY <1>1, <1>2, <1>3 DEF Next

(***************************************************************************)
(* Every step keeps the lengths: an activation is the same one as before,  *)
(* or the one for an entry of its caller's directory whose path fits.      *)
(***************************************************************************)
SameOrEntry ==
  \A k \in 1..Len(stack') :
    \/ /\ k \in 1..Len(stack) /\ stack'[k].dir = stack[k].dir
       /\ stack'[k].at = stack[k].at \/ Fits(stack[k].dir)
    \/ /\ k - 1 \in 1..Len(stack) /\ stack'[k].dir \in Children(stack[k - 1].dir)
       /\ Fits(stack'[k].dir)

LEMMA LengthsKept ==
  ASSUME IInv, LengthInv, SameOrEntry, Len(stack') \in Nat, UNCHANGED base,
         beyond' <= NameMax + 1, \A p \in Path : calls'[p] > 0 => calls[p] > 0 \/ Fits(p)
  PROVE  LengthInv'
<1>1. base \in Nat /\ stack \in Seq(Frame) /\ Len(stack) \in Nat
  BY LengthAssumption DEF IInv, TypeOK
<1>2. \A p : Fits(p)' <=> Fits(p)
  BY DEF Fits, Length
<1>3. ASSUME NEW k \in 1..Len(stack')
      PROVE  /\ base + 2 * (k - 1) <= Length(stack'[k].dir)
             /\ Fits(stack'[k].dir) \/ (k = 1 /\ stack'[k].at = "stat")
  <2>1. CASE /\ k \in 1..Len(stack) /\ stack'[k].dir = stack[k].dir
             /\ stack'[k].at = stack[k].at \/ Fits(stack[k].dir)
    BY <2>1 DEF LengthInv
  <2>2. CASE /\ k - 1 \in 1..Len(stack) /\ stack'[k].dir \in Children(stack[k - 1].dir)
             /\ Fits(stack'[k].dir)
    <3> DEFINE d == stack[k - 1].dir
    <3>1. d \in Path /\ base + 2 * ((k - 1) - 1) <= Length(d)
      BY <1>1, <2>2 DEF LengthInv, Frame
    <3>2. Length(stack'[k].dir) \in Nat /\ Length(d) \in Nat /\ Length(d) + 2 <= Length(stack'[k].dir)
      BY <1>1, <2>2, <3>1, EntryLength
    <3> HIDE DEF d
    <3>3. QED
      BY <1>1, <2>2, <3>1, <3>2
  <2>3. QED
    BY <2>1, <2>2 DEF SameOrEntry
<1>4. \A p : Length(p)' = Length(p)
  BY DEF Length
<1>5. QED
  BY <1>2, <1>3, <1>4 DEF LengthInv

LEMMA StepLengths ==
  ASSUME IInv, LengthInv, Step
  PROVE  LengthInv'
<1>1. stack # <<>> /\ base' = base
  BY DEF Step, StatFails, StatFile, StatDir, OpenFails, OpenDir, ReadEnd, ReadEntry, EntryOverruns,
     At, pathVars
<1>2. /\ stack \in Seq(Frame) /\ Len(stack) \in Nat \ {0} /\ stack[Len(stack)] = Top
      /\ calls \in [Path -> Nat] /\ beyond <= NameMax + 1 /\ Top.dir \in Path
  BY <1>1, TopFacts DEF LengthInv, TypeOK
<1>3. CASE stack' = Callers /\ beyond' = beyond /\ (calls' = calls \/ (Fits(Top.dir) /\ Visit(Top.dir)))
  <2>1. Popped
    BY <1>1, <1>2, <1>3, CallersPop
  <2>2. SameOrEntry /\ Len(stack') \in Nat
    BY <1>2, <2>1 DEF Popped, SameOrEntry
  <2>3. \A p \in Path : calls'[p] > 0 => calls[p] > 0 \/ Fits(p)
    BY <1>2, <1>3 DEF Visit
  <2>4. QED
    BY <1>1, <1>2, <1>3, <2>2, <2>3, LengthsKept
<1>4. ASSUME NEW f \in Frame, stack' = [stack EXCEPT ![Len(stack)] = f], f.dir = Top.dir,
             f.at = Top.at \/ Fits(Top.dir), beyond' = beyond,
             \A p \in Path : calls'[p] > 0 => calls[p] > 0 \/ Fits(p)
      PROVE  LengthInv'
  <2>1. Moved(f)
    BY <1>1, <1>2, <1>4, TopMoves
  <2>2. SameOrEntry /\ Len(stack') \in Nat
    BY <1>2, <1>4, <2>1 DEF Moved, SameOrEntry
  <2>3. QED
    BY <1>1, <1>2, <1>4, <2>2, LengthsKept
<1>5. CASE StatFails \/ StatFile \/ OpenFails \/ ReadEnd
  BY <1>3, <1>5 DEF StatFails, StatFile, OpenFails, ReadEnd, Return, pathVars
<1>6. CASE StatDir
  <2> DEFINE f == [dir |-> Top.dir, at |-> "open", snap |-> Top.snap, done |-> Top.done]
  <2>1. /\ stack' = [stack EXCEPT ![Len(stack)].at = "open"] /\ Fits(Top.dir) /\ Top.at = "stat"
        /\ UNCHANGED <<calls, beyond>>
    BY <1>6 DEF StatDir, pathVars, At
  <2>2. Top \in FrameRecord
    BY <1>1, TopFacts DEF Frame, FrameRecord
  <2>3. [Top EXCEPT !.at = "open"] = f
    BY <2>2, AtUpdate, Zenon
  <2>4. f \in Frame /\ f.dir = Top.dir
    BY <1>1, <2>1, <2>2, TopFacts DEF Frame, FrameRecord
  <2>5. stack' = [stack EXCEPT ![Len(stack)] = f]
    BY <1>2, <2>1, <2>3
  <2> HIDE DEF f
  <2>6. QED
    BY <1>4, <2>1, <2>4, <2>5
<1>7. CASE OpenDir
  <2> DEFINE f == Opened(Top.dir)
  <2>1. /\ stack' = [stack EXCEPT ![Len(stack)] = f] /\ Top.at = "open" /\ UNCHANGED <<calls, beyond>>
    BY <1>7 DEF OpenDir, At, pathVars
  <2>2. f \in Frame /\ f.dir = Top.dir
    BY <1>1, TopFacts DEF Opened, Frame, TypeOK, Kinds
  <2>3. Fits(Top.dir)
    BY <1>1, <2>1, TopFacts DEF LengthInv
  <2> HIDE DEF f
  <2>4. QED
    BY <1>4, <2>1, <2>2, <2>3
<1>8. ASSUME NEW c \in Path, ReadEntry(c)
      PROVE  LengthInv'
  <2>1. /\ At("read") /\ Top.at = "read" /\ c \in Children(Top.dir) /\ Fits(c) /\ beyond' = beyond
        /\ \/ stack' = Taken(c) /\ (Visit(c) \/ UNCHANGED calls)
           \/ stack' = Append(Taken(c), Called(c)) /\ UNCHANGED calls
    BY <1>8 DEF ReadEntry, At, pathVars
  <2>2. \A p \in Path : calls'[p] > 0 => calls[p] > 0 \/ Fits(p)
    BY <1>2, <2>1 DEF Visit
  <2>3. CASE stack' = Taken(c)
    <3>1. TakenFrame(c) \in Frame /\ Taken(c) = [stack EXCEPT ![Len(stack)] = TakenFrame(c)]
      BY <1>2, <2>1, TakenTop
    <3>2. TakenFrame(c).dir = Top.dir /\ TakenFrame(c).at = Top.at
      BY <2>1 DEF TakenFrame
    <3>3. QED
      BY <1>4, <2>1, <2>2, <2>3, <3>1, <3>2
  <2>4. CASE stack' = Append(Taken(c), Called(c))
    <3>1. Pushed(c)
      BY <1>2, <2>1, <2>4, EntryPushes
    <3>2. /\ Len(stack') = Len(stack) + 1
          /\ \A k \in 1..(Len(stack) - 1) : stack'[k] = stack[k]
          /\ stack'[Len(stack)].dir = Top.dir /\ stack'[Len(stack)].at = Top.at
          /\ stack'[Len(stack) + 1].dir = c
      BY <2>1, <3>1 DEF Pushed, TakenFrame, Called
    <3>3. SameOrEntry
      <4>1. ASSUME NEW k \in 1..Len(stack')
            PROVE  \/ k \in 1..(Len(stack) - 1) \/ k = Len(stack) \/ k = Len(stack) + 1
        BY <1>2, <3>2
      <4>2. QED
        BY <1>2, <2>1, <3>2, <4>1 DEF SameOrEntry
    <3>4. QED
      BY <1>1, <1>2, <2>1, <2>2, <3>2, <3>3, LengthsKept
  <2>5. QED
    BY <2>1, <2>3, <2>4
<1>9. ASSUME NEW c \in Path, EntryOverruns(c)
      PROVE  LengthInv'
  <2>1. UNCHANGED <<stack, calls>> /\ beyond' <= NameMax + 1
    BY <1>9, EntryOverrunsKeeps DEF EntryOverruns
  <2>2. SameOrEntry /\ Len(stack') \in Nat
    BY <1>2, <2>1 DEF SameOrEntry
  <2>3. QED
    BY <1>1, <2>1, <2>2, LengthsKept
<1>10. QED
  BY <1>5, <1>6, <1>7, <1>8, <1>9 DEF Step

LEMMA NextLengths == IInv /\ LengthInv /\ [Next]_vars => LengthInv'
<1> SUFFICES ASSUME IInv, LengthInv, [Next]_vars PROVE LengthInv'
  OBVIOUS
<1>1. CASE UNCHANGED vars
  BY <1>1 DEF LengthInv, Fits, Length, vars, opVars, pathVars
<1>2. CASE Step
  BY <1>2, StepLengths
<1>3. CASE Interfere
  <2>1. UNCHANGED <<base, beyond, calls>>
    BY <1>3 DEF Interfere, pathVars
  <2>2. PICK q \in Path : (Remove(q) /\ stack' = stack) \/ Create(q)
    BY <1>3 DEF Interfere, Remove
  <2>3. Forgot(q) /\ Len(stack) \in Nat
    BY <2>2, ForgetFrames DEF Create, IInv, TypeOK
  <2>4. SameOrEntry /\ Len(stack') \in Nat
    BY <2>3 DEF SameOrEntry, Forgot
  <2>5. beyond' <= NameMax + 1
    BY <2>1 DEF LengthInv
  <2>6. QED
    BY <2>1, <2>4, <2>5, LengthsKept
<1>4. QED
  BY <1>1, <1>2, <1>3 DEF Next

LEMMA InitLengths == Init => LengthInv
<1> SUFFICES ASSUME Init PROVE LengthInv
  OBVIOUS
<1>1. /\ stack = <<Called(Root)>> /\ calls = [p \in Path |-> 0] /\ base \in Nat /\ beyond = 0
  BY LengthAssumption DEF Init
<1>2. Len(stack) = 1 /\ stack[1].dir = Root /\ stack[1].at = "stat"
  BY <1>1 DEF Called
<1>3. base + 2 * (1 - 1) <= Length(Root) /\ beyond <= NameMax + 1
  BY <1>1, LengthAssumption DEF Length
<1>4. QED
  BY <1>1, <1>2, <1>3 DEF LengthInv

LEMMA Reachable == Spec => [](IInv /\ LengthInv)
BY InitHolds, InitLengths, NextKeeps, NextLengths, PTL DEF Spec

(***************************************************************************)
(* For every tree and all lengths of names: no callback gets a path that   *)
(* is too long, what does not fit the buffer is one name too long, and the *)
(* activations nest no deeper than the lengths allow.                      *)
(***************************************************************************)
THEOREM PathLengths == Spec => []PathsFit
<1>1. IInv /\ LengthInv => PathsFit
  <2> SUFFICES ASSUME IInv, LengthInv PROVE PathsFit
    OBVIOUS
  <2>1. \A p \in Path : calls[p] > 0 => Length(p) < PathMax
    BY DEF LengthInv, Fits
  <2>2. ASSUME stack # <<>>, base < PathMax
        PROVE  base + 2 * (Len(stack) - 1) < PathMax
    <3>1. /\ Len(stack) \in 1..Len(stack) /\ Len(stack) \in Nat \ {0} /\ base \in Nat /\ PathMax \in Nat
          /\ stack[Len(stack)].dir \in Path
      <4>1. base \in Nat /\ PathMax \in Nat
        BY LengthAssumption DEF IInv, TypeOK
      <4>2. QED
        BY <2>2, <4>1, TopFacts
    <3>2. CASE Len(stack) = 1
      BY <2>2, <3>1, <3>2
    <3>3. CASE Len(stack) # 1
      <4> DEFINE d == stack[Len(stack)].dir
      <4>1. Length(d) < PathMax /\ base + 2 * (Len(stack) - 1) <= Length(d)
        BY <3>1, <3>3 DEF LengthInv, Fits
      <4>2. Length(d) \in Nat
        BY <3>1, LengthAssumption DEF Length
      <4> HIDE DEF d
      <4>3. QED
        BY <3>1, <4>1, <4>2
    <3>4. QED
      BY <3>2, <3>3
  <2>3. QED
    BY <2>1, <2>2 DEF PathsFit, LengthInv
<1>2. QED
  BY Reachable, <1>1, PTL

(***************************************************************************)
(* For every tree and whatever other processes do to it meanwhile, the     *)
(* callback runs at most once on a path left alone, and only on what is a  *)
(* regular file.                                                           *)
(***************************************************************************)
THEOREM VisitsOnce == Spec => [](TypeOK /\ AtMostOnce /\ VisitsAreFiles)
<1>1. IInv => TypeOK /\ AtMostOnce /\ VisitsAreFiles
  BY DEF IInv, Visiting
<1>2. QED
  BY Reachable, <1>1, PTL

(***************************************************************************)
(* The open streams are those of the directories being read, so recurse_op *)
(* leaves none open, and a directory is left out only for a reason.        *)
(***************************************************************************)
THEOREM StreamsAndSkips == Spec => [](OpenDirsInv /\ SkipsHaveCause)
<1>1. IInv => OpenDirsInv /\ SkipsHaveCause
  BY DEF IInv, Causes
<1>2. QED
  BY Reachable, <1>1, PTL

-------------------------------------------------------------------------------
(***************************************************************************)
(* recurse_op implements TreeVisit: an owed file no callback has run on is *)
(* ahead of some activation, and an outermost activation that has not      *)
(* opened its directory has run no callback.                               *)
(***************************************************************************)
ResultInv == result = "none" <=> stack # <<>>

FreshInv ==
  Len(stack) = 1 /\ stack[1].at # "read" => \A p \in Path : calls[p] = 0

OwedInv ==
  \A p \in Owed : calls[p] > 0 \/ \E k \in 1..Len(stack) : Ahead(k, p)

RInv == IInv /\ LengthInv /\ ResultInv /\ FreshInv /\ OwedInv

LEMMA OwedPaths ==
  ASSUME IInv, NEW p \in Owed
  PROVE  /\ p \in Path /\ p \notin touched /\ kind0[p] \in Regular
         /\ p # Root => kind0[p] = "reg"
         /\ \A a \in Anc[p] : a \in Path \ (touched \cup skipped) /\ kind0[a] # "absent"
         /\ \A a \in Anc[p] \ {p} : kind0[a] \in Openable
         /\ \A a \in Anc[p] \ {p, Root} : kind0[a] = "dir"
<1>1. /\ p \in Path /\ kind0[p] \in Regular
      /\ p # Root => kind0[p] = "reg"
  BY DEF Owed, Regular
<1>2. \A a \in Anc[p] : a \in Path \ (touched \cup skipped)
  BY <1>1, TreeAssumption DEF Owed
<1>3. kind0[p] # "absent" /\ p \in Anc[p]
  BY <1>1, TreeAssumption DEF Regular
<1>4. \A a \in Anc[p] \ {p} : kind0[a] \in Openable
  BY <1>1, <1>3 DEF IInv, FsInv, WellFormed
<1>5. QED
  BY <1>1, <1>2, <1>3, <1>4 DEF Owed, Openable

LEMMA OwedShrinks ==
  ASSUME UNCHANGED kind0, touched \subseteq touched', skipped \subseteq skipped'
  PROVE  Owed' \subseteq Owed
BY DEF Owed

LEMMA OwedKept ==
  ASSUME UNCHANGED <<kind0, touched, skipped>>
  PROVE  Owed' = Owed
BY DEF Owed

LEMMA StepOwed ==
  ASSUME IInv, Step
  PROVE  /\ Owed' \subseteq Owed /\ stack # <<>>
         /\ kind0' = kind0 /\ touched' = touched
         /\ ~ (StatFails \/ OpenFails) => Owed' = Owed
<1>1. kind0' = kind0 /\ touched' = touched /\ skipped \subseteq skipped' /\ stack # <<>>
  BY DEF Step, StatFails, StatFile, StatDir, OpenFails, OpenDir, ReadEnd, ReadEntry, EntryOverruns,
     fsVars, At
<1>2. ~ (StatFails \/ OpenFails) => skipped' = skipped
  BY DEF Step, StatFile, StatDir, OpenDir, ReadEnd, ReadEntry, EntryOverruns
<1>3. QED
  BY <1>1, <1>2, OwedShrinks, OwedKept

LEMMA OwedPop ==
  ASSUME IInv, OwedInv, Popped, Owed' \subseteq Owed,
         \A p \in Path : calls[p] > 0 => calls'[p] > 0,
         \A p \in Owed' : Ahead(Len(stack), p) => calls'[p] > 0
  PROVE  OwedInv'
<1>1. ASSUME NEW p \in Owed', ~ (calls'[p] > 0)
      PROVE  \E k \in 1..Len(stack') : Ahead(k, p)'
  <2>1. p \in Owed /\ p \in Path
    BY OwedPaths
  <2>2. PICK k \in 1..Len(stack) : Ahead(k, p)
    BY <1>1, <2>1 DEF OwedInv
  <2>3. k # Len(stack)
    BY <1>1, <2>2
  <2>4. k \in 1..Len(stack') /\ stack'[k] = stack[k]
    BY <2>3 DEF Popped, IInv, TypeOK
  <2>5. QED
    BY <2>2, <2>4 DEF Ahead
<1>2. QED
  BY <1>1 DEF OwedInv

LEMMA OwedMove ==
  ASSUME IInv, OwedInv, NEW f, Moved(f), Owed' \subseteq Owed,
         \A p \in Path : calls[p] > 0 => calls'[p] > 0,
         \A p \in Owed' : Ahead(Len(stack), p) => calls'[p] > 0 \/ Ahead(Len(stack), p)'
  PROVE  OwedInv'
<1>1. ASSUME NEW p \in Owed', ~ (calls'[p] > 0)
      PROVE  \E k \in 1..Len(stack') : Ahead(k, p)'
  <2>1. p \in Owed /\ p \in Path
    BY OwedPaths
  <2>2. PICK k \in 1..Len(stack) : Ahead(k, p)
    BY <1>1, <2>1 DEF OwedInv
  <2>3. Len(stack') = Len(stack) /\ Len(stack) \in Nat
    BY DEF Moved, IInv, TypeOK
  <2>4. CASE k = Len(stack)
    BY <1>1, <2>2, <2>3, <2>4 DEF Ahead
  <2>5. CASE k # Len(stack)
    <3>1. stack'[k] = stack[k]
      BY <2>5 DEF Moved
    <3>2. QED
      BY <2>2, <2>3, <3>1 DEF Ahead
  <2>6. QED
    BY <2>4, <2>5
<1>2. QED
  BY <1>1 DEF OwedInv

(***************************************************************************)
(* Each step keeps RInv and is a step of TreeVisit or leaves its variables *)
(* alone.                                                                  *)
(***************************************************************************)
MapsStep == [Visits!Next]_(Visits!vars)

RStep == ResultInv' /\ FreshInv' /\ OwedInv' /\ MapsStep

LEMMA Monotone ==
  ASSUME TypeOK, NEW p \in Path, Visit(p)
  PROVE  /\ Visited' = Visited \cup {p}
         /\ \A q \in Path : calls[q] > 0 => calls'[q] > 0
         /\ calls'[p] > 0
BY DEF TypeOK, Visit, Visited

LEMMA SameVisited ==
  ASSUME UNCHANGED calls
  PROVE  Visited' = Visited
BY DEF Visited

LEMMA PopResult ==
  ASSUME IInv, ResultInv, FreshInv, Popped, NEW r \in {"ok", "failed"},
         result' = IF Len(stack) = 1 THEN r ELSE result
  PROVE  ResultInv' /\ FreshInv' /\ result = "none"
<1>1. Len(stack) \in Nat \ {0} /\ Len(stack') = Len(stack) - 1 /\ stack # <<>>
  BY DEF Popped, IInv, TypeOK
<1>2. ResultInv' /\ result = "none"
  <2>1. stack' = <<>> <=> Len(stack) = 1
    BY <1>1 DEF Popped
  <2>2. QED
    BY <1>1, <2>1 DEF ResultInv
<1>3. ASSUME Len(stack') = 1
      PROVE  stack'[1].at = "read"
  <2>1. 1 \in 1..Len(stack') /\ 1 \in 1..(Len(stack) - 1)
    <3>1. \A m, n \in Int : m = n - 1 /\ m = 1 => 1 \in 1..m /\ 1 \in 1..(n - 1)
      OBVIOUS
    <3>2. QED
      BY <1>1, <1>3, <3>1
  <2>2. stack'[1] = stack[1] /\ stack[1].at = "read"
    BY <2>1 DEF Popped, IInv, StackInv
  <2>3. QED
    BY <2>2
<1>4. QED
  BY <1>2, <1>3 DEF FreshInv

LEMMA FailRefines ==
  ASSUME RInv, StatFails \/ OpenFails
  PROVE  RStep
<1>1. /\ stack # <<>> /\ Top.at # "read" /\ stack' = Callers /\ skipped' = skipped \cup {Top.dir}
      /\ result' = IF Len(stack) = 1 THEN "failed" ELSE result
      /\ UNCHANGED <<kind0, touched, calls>>
  BY DEF StatFails, OpenFails, Return, At, fsVars
<1>2. Popped /\ Visited' = Visited /\ Owed' \subseteq Owed
  BY <1>1, TopFacts, CallersPop, SameVisited, OwedShrinks DEF RInv
<1>3. ResultInv' /\ FreshInv' /\ result = "none"
  BY <1>1, <1>2, PopResult DEF RInv
<1>4. OwedInv'
  <2>1. ASSUME NEW p \in Owed', Ahead(Len(stack), p)
        PROVE  FALSE
    <3>1. Top.dir \in Anc[p] /\ Top.dir \in skipped'
      BY <1>1, <2>1, TopFacts DEF Ahead, RInv
    <3>2. QED
      BY <2>1, <3>1 DEF Owed
  <2>2. QED
    BY <1>1, <1>2, <2>1, OwedPop DEF RInv
<1>5. MapsStep
  <2>1. CASE Len(stack) = 1
    <3>1. Visited = {}
      BY <1>1, <2>1, TopFacts DEF RInv, FreshInv, Visited, TypeOK
    <3>2. Visits!Fail
      BY <1>1, <1>2, <1>3, <2>1, <3>1 DEF Visits!Fail
    <3>3. QED
      BY <3>2 DEF MapsStep, Visits!Next
  <2>2. CASE Len(stack) # 1
    BY <1>1, <1>2, <2>2 DEF MapsStep, Visits!Next, Visits!Waive
  <2>3. QED
    BY <2>1, <2>2
<1>6. QED
  BY <1>3, <1>4, <1>5 DEF RStep

LEMMA StatFileRefines ==
  ASSUME RInv, StatFile
  PROVE  RStep
<1>1. /\ stack # <<>> /\ Top.at = "stat" /\ kind[Top.dir] \in Regular
      /\ stack' = Callers /\ Visit(Top.dir)
      /\ result' = IF Len(stack) = 1 THEN "ok" ELSE result
      /\ UNCHANGED <<kind0, touched, skipped>>
  BY DEF StatFile, Return, At, fsVars
<1>2. Popped /\ Owed' = Owed /\ IInv
  BY <1>1, TopFacts, CallersPop, OwedKept DEF RInv
<1>3. /\ Visited' = Visited \cup {Top.dir}
      /\ \A q \in Path : calls[q] > 0 => calls'[q] > 0
      /\ calls'[Top.dir] > 0
  BY <1>1, <1>2, TopFacts, Monotone
<1>4. ResultInv' /\ FreshInv' /\ result = "none"
  BY <1>1, <1>2, PopResult DEF RInv
<1>5. ASSUME NEW p \in Owed, Top.dir \in Anc[p]
      PROVE  p = Top.dir
  <2>1. kind[Top.dir] = kind0[Top.dir]
    BY <1>1, <1>2, <1>5, TopFacts, OwedPaths
  <2>2. p # Top.dir => kind0[Top.dir] \in Openable
    BY <1>2, <1>5, OwedPaths
  <2>3. QED
    BY <1>1, <2>1, <2>2 DEF Openable, Regular
<1>6. OwedInv'
  <2>1. ASSUME NEW p \in Owed', Ahead(Len(stack), p)
        PROVE  calls'[p] > 0
    BY <1>1, <1>2, <1>3, <1>5, <2>1, TopFacts DEF Ahead
  <2>2. QED
    BY <1>2, <1>3, <2>1, OwedPop DEF RInv
<1>7. MapsStep
  <2>1. CASE Len(stack) = 1
    <3>1. Top.dir = Root
      BY <1>1, <1>2, <2>1, TopFacts DEF Shape, StackInv
    <3>2. Owed \subseteq {Top.dir}
      BY <1>2, <1>5, <3>1, OwedPaths, TreeAssumption
    <3>3. Visits!VisitOnly(Top.dir)
      BY <1>1, <1>2, <1>3, <1>4, <2>1, <3>2 DEF Visits!VisitOnly
    <3>4. QED
      BY <1>1, <1>2, <3>3, TopFacts DEF MapsStep, Visits!Next
  <2>2. CASE Len(stack) # 1
    <3>1. Visits!Visit(Top.dir)
      BY <1>1, <1>2, <1>3, <1>4, <2>2 DEF Visits!Visit
    <3>2. QED
      BY <1>1, <1>2, <3>1, TopFacts DEF MapsStep, Visits!Next
  <2>3. QED
    BY <2>1, <2>2
<1>8. QED
  BY <1>4, <1>6, <1>7 DEF RStep

LEMMA ReadEndRefines ==
  ASSUME RInv, ReadEnd
  PROVE  RStep
<1>1. /\ stack # <<>> /\ Top.at = "read" /\ stack' = Callers
      /\ result' = IF Len(stack) = 1 THEN "ok" ELSE result
      /\ UNCHANGED <<kind0, touched, skipped, calls>>
      /\ \A c \in Children(Top.dir) \ Top.done : Top.snap[c] = "absent" \/ c \in touched
  BY DEF ReadEnd, Return, At, fsVars
<1>2. Popped /\ Owed' = Owed /\ Visited' = Visited /\ IInv
  BY <1>1, TopFacts, CallersPop, OwedKept, SameVisited DEF RInv
<1>3. ResultInv' /\ FreshInv' /\ result = "none"
  BY <1>1, <1>2, PopResult DEF RInv
<1>4. OwedInv'
  <2>1. ASSUME NEW p \in Owed', Ahead(Len(stack), p)
        PROVE  FALSE
    <3>1. PICK c \in Children(Top.dir) \ Top.done : c \in Anc[p]
      BY <1>1, <1>2, <2>1, TopFacts DEF Ahead
    <3>2. c \notin touched /\ kind0[c] # "absent"
      BY <1>2, <2>1, <3>1, OwedPaths
    <3>3. Top.snap[c] = kind0[c]
      BY <1>1, <1>2, <3>1, <3>2, TopFacts DEF Shape, SnapInv
    <3>4. QED
      BY <1>1, <3>1, <3>2, <3>3
  <2>2. QED
    BY <1>1, <1>2, <2>1, OwedPop DEF RInv
<1>5. MapsStep
  <2>1. CASE Len(stack) = 1
    <3>1. stack' = <<>> /\ Len(stack') = 0
      BY <1>2, <2>1 DEF Popped
    <3>2. Owed' \subseteq Visited'
      BY <1>2, <1>4, <3>1, OwedPaths DEF OwedInv, Visited
    <3>3. Visits!Succeed
      BY <1>1, <1>2, <1>3, <2>1, <3>2 DEF Visits!Succeed
    <3>4. QED
      BY <3>3 DEF MapsStep, Visits!Next
  <2>2. CASE Len(stack) # 1
    BY <1>1, <1>2, <2>2 DEF MapsStep, Visits!vars
  <2>3. QED
    BY <2>1, <2>2
<1>6. QED
  BY <1>3, <1>4, <1>5 DEF RStep

LEMMA StatDirRefines ==
  ASSUME RInv, StatDir
  PROVE  RStep
<1> DEFINE f == [dir |-> Top.dir, at |-> "open", snap |-> Top.snap, done |-> Top.done]
<1>1. /\ stack # <<>> /\ Top.at = "stat"
      /\ stack' = [stack EXCEPT ![Len(stack)].at = "open"]
      /\ UNCHANGED <<kind0, touched, calls, skipped, result>>
  BY DEF StatDir, At, fsVars
<1>2. Moved(f)
  <2>1. Top \in FrameRecord
    BY <1>1, TopFacts DEF Frame, FrameRecord, RInv
  <2>2. [Top EXCEPT !.at = "open"] = f
    BY <2>1, AtUpdate, Zenon
  <2>3. f \in Frame
    BY <1>1, <2>1, TopFacts DEF Frame, FrameRecord, RInv
  <2>4. stack' = [stack EXCEPT ![Len(stack)] = f]
    BY <1>1, <2>2, <2>3, TopFacts DEF RInv
  <2>5. f.dir = Top.dir
    OBVIOUS
  <2>6. QED
    BY <1>1, <2>3, <2>4, <2>5, TopFacts, TopMoves, Zenon DEF RInv
<1>3. Owed' = Owed /\ Visited' = Visited /\ IInv
  BY <1>1, OwedKept, SameVisited DEF RInv
<1>4. Len(stack') = Len(stack) /\ Len(stack) \in Nat \ {0} /\ stack' # <<>>
  BY <1>1, <1>2, <1>3, TopFacts DEF Moved
<1>5. ResultInv' /\ FreshInv'
  BY <1>1, <1>3, <1>4, TopFacts DEF RInv, ResultInv, FreshInv
<1>6. OwedInv'
  <2>1. ASSUME NEW p \in Owed', Ahead(Len(stack), p)
        PROVE  Ahead(Len(stack), p)'
    BY <1>1, <1>2, <1>3, <1>4, <2>1, TopFacts DEF Ahead, Moved
  <2>2. QED
    BY <1>1, <1>2, <1>3, <2>1, OwedMove DEF RInv
<1>7. QED
  BY <1>1, <1>3, <1>5, <1>6 DEF RStep, MapsStep, Visits!vars

LEMMA OpenDirRefines ==
  ASSUME RInv, OpenDir
  PROVE  RStep
<1> DEFINE f == Opened(Top.dir)
<1>1. /\ stack # <<>> /\ Top.at = "open" /\ ~ Refused(Top.dir)
      /\ stack' = [stack EXCEPT ![Len(stack)] = f]
      /\ UNCHANGED <<kind0, touched, calls, skipped, result>>
  BY DEF OpenDir, At, fsVars
<1>2. f \in Frame /\ f.dir = Top.dir /\ f.at = "read" /\ f.done = {}
  BY <1>1, TopFacts DEF Opened, Frame, TypeOK, Kinds, RInv
<1>3. Moved(f) /\ IInv
  BY <1>1, <1>2, TopFacts, TopMoves, Zenon DEF RInv
<1>4. Owed' = Owed /\ Visited' = Visited
  BY <1>1, OwedKept, SameVisited
<1>5. Len(stack') = Len(stack) /\ Len(stack) \in Nat \ {0} /\ stack' # <<>> /\ stack'[Len(stack)] = f
  BY <1>1, <1>3, TopFacts DEF Moved
<1>6. ResultInv' /\ FreshInv'
  BY <1>1, <1>2, <1>5 DEF RInv, ResultInv, FreshInv
<1>7. OwedInv'
  <2>1. ASSUME NEW p \in Owed', Ahead(Len(stack), p)
        PROVE  Ahead(Len(stack), p)'
    <3>1. Top.dir \in Anc[p] /\ p \in Owed /\ p \in Path
      BY <1>1, <1>3, <1>4, <2>1, TopFacts, OwedPaths DEF Ahead
    <3>2. kind[Top.dir] = kind0[Top.dir] /\ kind[Top.dir] \in Openable
      BY <1>1, <1>3, <3>1, TopFacts, OwedPaths DEF Refused
    <3>3. p # Top.dir
      BY <1>3, <3>1, <3>2, OwedPaths DEF Openable, Regular
    <3>4. PICK c \in Anc[p] \ {Root} : Parent[c] = Top.dir
      BY <3>1, <3>3, PathAssumption
    <3>5. c \in Children(f.dir) \ f.done
      BY <1>2, <3>1, <3>4, TreeAssumption DEF Children
    <3>6. QED
      BY <1>2, <1>5, <3>4, <3>5 DEF Ahead
  <2>2. QED
    BY <1>1, <1>3, <1>4, <2>1, OwedMove DEF RInv
<1>8. QED
  BY <1>1, <1>4, <1>6, <1>7 DEF RStep, MapsStep, Visits!vars

LEMMA ReadEntryRefines ==
  ASSUME RInv, NEW c \in Path, ReadEntry(c)
  PROVE  RStep
<1>1. /\ stack # <<>> /\ At("read") /\ Top.at = "read" /\ c \in Children(Top.dir) \ Top.done
      /\ UNCHANGED <<kind0, touched, skipped, result>>
  BY DEF ReadEntry, At, fsVars
<1>2. PICK d_type \in Entry(c) :
        \/ d_type = "reg" /\ Visit(c) /\ stack' = Taken(c)
        \/ d_type = "dir" /\ stack' = Append(Taken(c), Called(c)) /\ UNCHANGED calls
        \/ d_type \notin {"reg", "dir"} /\ stack' = Taken(c) /\ UNCHANGED calls
  BY DEF ReadEntry
<1>3. IInv /\ Owed' = Owed /\ result = "none"
  BY <1>1, OwedKept DEF RInv, ResultInv
<1>4. ASSUME NEW p \in Owed, c \in Anc[p]
      PROVE  d_type = kind0[c] /\ (IF p = c THEN d_type = "reg" ELSE d_type = "dir")
  <2>1. c \notin touched /\ c # Root
    BY <1>1, <1>3, <1>4, OwedPaths DEF Children
  <2>2. d_type = kind0[c]
    BY <1>1, <1>3, <2>1, EntryKind
  <2>3. QED
    BY <1>3, <1>4, <2>1, <2>2, OwedPaths
<1>5. CASE stack' = Taken(c) /\ \/ d_type = "reg" /\ Visit(c)
                                \/ d_type \notin {"reg", "dir"} /\ UNCHANGED calls
  <2> DEFINE f == TakenFrame(c)
  <2>1. Moved(f)
    <3>1. f \in Frame /\ Taken(c) = [stack EXCEPT ![Len(stack)] = f]
      BY <1>1, <1>3, TopFacts, TakenTop
    <3>2. f.dir = Top.dir
      BY DEF TakenFrame
    <3>3. QED
      BY <1>1, <1>3, <1>5, <3>1, <3>2, TopFacts, TopMoves, Zenon
  <2>2. f.at = "read" /\ f.dir = Top.dir /\ f.done = Top.done \cup {c}
    BY DEF TakenFrame
  <2>3. Len(stack') = Len(stack) /\ Len(stack) \in Nat \ {0} /\ stack' # <<>> /\ stack'[Len(stack)] = f
    BY <1>1, <1>3, <2>1, TopFacts DEF Moved
  <2>4. ResultInv' /\ FreshInv'
    BY <1>1, <1>3, <2>2, <2>3 DEF ResultInv, FreshInv
  <2>5. \A p \in Path : calls[p] > 0 => calls'[p] > 0
    BY <1>1, <1>3, <1>5, TopFacts, Monotone
  <2>6. OwedInv'
    <3>1. ASSUME NEW p \in Owed', Ahead(Len(stack), p)
          PROVE  calls'[p] > 0 \/ Ahead(Len(stack), p)'
      <4>1. PICK d \in Children(Top.dir) \ Top.done : d \in Anc[p]
        BY <1>1, <1>3, <3>1, TopFacts DEF Ahead
      <4>2. CASE d # c
        BY <2>2, <2>3, <4>1, <4>2 DEF Ahead
      <4>3. CASE d = c
        <5>1. p = c /\ d_type = "reg"
          BY <1>3, <1>4, <1>5, <3>1, <4>1, <4>3
        <5>2. Visit(c)
          BY <1>5, <5>1
        <5>3. QED
          BY <1>1, <1>3, <5>1, <5>2, TopFacts, Monotone
      <4>4. QED
        BY <4>2, <4>3
    <3>2. QED
      BY <1>3, <2>1, <2>5, <3>1, OwedMove DEF RInv
  <2>7. MapsStep
    <3>1. CASE Visit(c)
      <4>1. Visited' = Visited \cup {c}
        BY <1>1, <1>3, <3>1, TopFacts, Monotone
      <4>2. Visits!Visit(c)
        BY <1>1, <1>3, <4>1 DEF Visits!Visit
      <4>3. QED
        BY <4>2 DEF MapsStep, Visits!Next
    <3>2. CASE UNCHANGED calls
      BY <1>1, <1>3, <3>2, SameVisited DEF MapsStep, Visits!vars
    <3>3. QED
      BY <1>5, <3>1, <3>2
  <2>8. QED
    BY <2>4, <2>6, <2>7 DEF RStep
<1>6. CASE d_type = "dir" /\ stack' = Append(Taken(c), Called(c)) /\ UNCHANGED calls
  <2>1. Pushed(c)
    BY <1>1, <1>3, <1>6, TopFacts, EntryPushes
  <2>2. PICK n \in Nat \ {0} : n = Len(stack)
    BY <1>1, <1>3, TopFacts
  <2>3. /\ n \in Nat \ {0} /\ Len(stack') = n + 1 /\ stack' # <<>>
        /\ stack[n] = Top
    BY <1>1, <1>3, <2>1, <2>2, TopFacts DEF Pushed
  <2>4. /\ \A k \in 1..(n - 1) : stack'[k] = stack[k]
        /\ stack'[n] = TakenFrame(c) /\ stack'[n+1] = Called(c)
    BY <2>1, <2>2 DEF Pushed
  <2>5. ResultInv' /\ FreshInv'
    BY <1>1, <1>3, <2>3 DEF ResultInv, FreshInv
  <2>6. ASSUME NEW p \in Owed', NEW k \in 1..n, Ahead(k, p)
        PROVE  \E j \in 1..(n + 1) : Ahead(j, p)'
    <3>1. CASE k \in 1..(n - 1)
      <4>1. Ahead(k, p)' /\ k \in 1..(n + 1)
        BY <2>3, <2>4, <2>6, <3>1 DEF Ahead
      <4>2. QED
        BY <4>1
    <3>2. CASE k = n
      <4>1. PICK d \in Children(Top.dir) \ Top.done : d \in Anc[p]
        BY <1>1, <2>3, <2>6, <3>2 DEF Ahead
      <4>2. CASE d = c
        <5>1. Ahead(n + 1, p)'
          BY <2>4, <4>1, <4>2 DEF Ahead, Called
        <5>2. QED
          BY <2>3, <5>1
      <4>3. CASE d # c
        <5>1. Ahead(n, p)'
          BY <2>4, <4>1, <4>3 DEF Ahead, TakenFrame
        <5>2. QED
          BY <2>3, <5>1
      <4>4. QED
        BY <4>2, <4>3
    <3>3. QED
      BY <2>3, <3>1, <3>2
  <2>7. OwedInv'
    <3>1. ASSUME NEW p \in Owed', ~ (calls'[p] > 0)
          PROVE  \E k \in 1..Len(stack') : Ahead(k, p)'
      <4>1. PICK k \in 1..n : Ahead(k, p)
        BY <1>3, <1>6, <2>2, <3>1 DEF RInv, OwedInv
      <4>2. QED
        BY <2>3, <2>6, <4>1
    <3>2. QED
      BY <3>1 DEF OwedInv
  <2>8. QED
    BY <1>1, <1>3, <1>6, <2>5, <2>7, SameVisited DEF RStep, MapsStep, Visits!vars
<1>7. QED
  BY <1>2, <1>5, <1>6

LEMMA InterfereRefines ==
  ASSUME RInv, Interfere
  PROVE  RStep
<1>1. UNCHANGED <<kind0, calls, skipped, result>>
  BY DEF Interfere
<1>2. PICK q \in Path : (Remove(q) /\ stack' = stack) \/ Create(q)
  BY DEF Interfere, Remove
<1>3. touched \subseteq touched' /\ IInv
  BY <1>1, <1>2, RemoveFs, CreateFs DEF RInv
<1>4. Forgot(q)
  BY <1>2, <1>3, ForgetFrames DEF Create
<1>5. Owed' \subseteq Owed /\ Visited' = Visited
  BY <1>1, <1>3, OwedShrinks, SameVisited
<1>6. Len(stack') = Len(stack) /\ Len(stack) \in Nat /\ (stack' = <<>> <=> stack = <<>>)
  BY <1>3, <1>4 DEF Forgot, IInv, TypeOK
<1>7. ResultInv' /\ FreshInv'
  BY <1>1, <1>4, <1>6 DEF RInv, ResultInv, FreshInv, Forgot
<1>8. OwedInv'
  <2>1. ASSUME NEW p \in Owed', NEW k \in 1..Len(stack), Ahead(k, p)
        PROVE  Ahead(k, p)'
    BY <1>4, <2>1 DEF Ahead, Forgot
  <2>2. QED
    BY <1>1, <1>5, <1>6, <2>1 DEF RInv, OwedInv
<1>9. QED
  BY <1>1, <1>5, <1>7, <1>8 DEF RStep, MapsStep, Visits!Next, Visits!Waive

LEMMA NextRefines == RInv /\ [Next]_vars => RInv' /\ MapsStep
<1> SUFFICES ASSUME RInv, [Next]_vars PROVE RInv' /\ MapsStep
  OBVIOUS
<1>1. IInv' /\ LengthInv'
  BY NextKeeps, NextLengths DEF RInv
<1>2. CASE UNCHANGED vars \/ \E c \in Path : EntryOverruns(c)
  <2>1. UNCHANGED <<kind0, touched, skipped, calls, result, stack>>
    BY <1>2 DEF vars, fsVars, opVars, EntryOverruns
  <2>2. Owed' = Owed /\ Visited' = Visited
    BY <2>1, OwedKept, SameVisited
  <2>3. ResultInv' /\ FreshInv' /\ OwedInv'
    BY <2>1, <2>2 DEF RInv, ResultInv, FreshInv, OwedInv, Ahead
  <2>4. QED
    BY <1>1, <2>1, <2>2, <2>3 DEF RInv, MapsStep, Visits!vars
<1>3. CASE Next /\ ~ \E c \in Path : EntryOverruns(c)
  <2>1. RStep
    BY <1>3, FailRefines, StatFileRefines, StatDirRefines, OpenDirRefines, ReadEndRefines,
       ReadEntryRefines, InterfereRefines DEF Next, Step
  <2>2. QED
    BY <1>1, <2>1 DEF RStep, RInv
<1>4. QED
  BY <1>2, <1>3

LEMMA InitRefines == Init => RInv /\ Visits!Init
<1> SUFFICES ASSUME Init PROVE RInv /\ Visits!Init
  OBVIOUS
<1>1. /\ stack = <<Called(Root)>> /\ calls = [p \in Path |-> 0] /\ result = "none"
  BY DEF Init
<1>2. Len(stack) = 1 /\ stack[1].dir = Root /\ stack[1].at = "stat" /\ stack # <<>>
  BY <1>1 DEF Called
<1>3. ResultInv /\ FreshInv
  BY <1>1, <1>2 DEF ResultInv, FreshInv
<1>4. OwedInv
  <2>1. ASSUME NEW p \in Owed
        PROVE  Ahead(1, p)
    BY <1>2, <2>1, TreeAssumption DEF Owed, Ahead
  <2>2. QED
    BY <1>2, <2>1 DEF OwedInv
<1>5. Visited = {} /\ Owed \in SUBSET Path
  BY <1>1 DEF Visited, Owed
<1>6. QED
  BY <1>1, <1>3, <1>4, <1>5, InitHolds, InitLengths DEF RInv, Visits!Init

(***************************************************************************)
(* recurse_op implements TreeVisit: it returns 0 only after the callback   *)
(* ran on every regular file below untouched, openable directories, and -1 *)
(* only when no callback ran.                                              *)
(***************************************************************************)
THEOREM RecurseOpImplements == Spec => VisitSpec
<1>1. Init => Visits!Init
  BY InitRefines
<1>2. RInv /\ [Next]_vars => [Visits!Next]_(Visits!vars)
  BY NextRefines DEF MapsStep
<1>3. QED
  BY InitRefines, NextRefines, <1>1, <1>2, PTL DEF Spec, VisitSpec, Visits!Spec
================================================================================

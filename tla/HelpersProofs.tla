----------------------------- MODULE HelpersProofs -----------------------------
(***************************************************************************)
(* Proofs about the helpers: the region macros for words of every width,   *)
(* the string helpers on every piece of memory, the hashes of every name,  *)
(* the vector of pairs of every size, the dumps of every length, and the   *)
(* JSON walk through every document.                                       *)
(***************************************************************************)
EXTENDS Helpers, SequenceTheorems, WellFoundedInduction, TLAPS

USE WAssumption

\* Additions that do not wrap are additions.
LEMMA EndOfProper ==
  ASSUME NEW reg \in Word, NEW regsz \in Word, reg + regsz < W
  PROVE  End(reg, regsz) = reg + regsz
BY DEF End, Word

\* An addition of two words wraps at most once.
LEMMA EndWraps ==
  ASSUME NEW reg \in Word, NEW regsz \in Word, reg + regsz >= W
  PROVE  End(reg, regsz) = reg + regsz - W
BY DEF End, Word

LEMMA Typing == Spec => []TypeOK
<1>1. Init => TypeOK
  BY DEF Init, TypeOK
<1>2. TypeOK /\ [Next]_vars => TypeOK'
  BY DEF TypeOK, Next, Evaluate, Verdict, vars
<1>3. QED
  BY <1>1, <1>2, PTL DEF Spec

(***************************************************************************)
(* OVERLAP_REGIONS on proper regions is "they share an address and do not  *)
(* merely share their end".                                                *)
(***************************************************************************)
LEMMA OverlapMeaning ==
  ASSUME TypeOK, Proper(reg1, reg1sz), Proper(reg2, reg2sz)
  PROVE  OVERLAP_REGIONS(reg1, reg1sz, reg2, reg2sz) <=> Share /\ ~ SameEnd
<1> DEFINE e1 == reg1 + reg1sz
           e2 == reg2 + reg2sz
<1>1. /\ reg1 \in Nat /\ reg1sz \in Nat /\ reg2 \in Nat /\ reg2sz \in Nat
      /\ reg1 < e1 /\ reg2 < e2 /\ e1 < W /\ e2 < W
  BY DEF TypeOK, Word, Proper
<1>2. End(reg1, reg1sz) = e1 /\ End(reg2, reg2sz) = e2
  BY EndOfProper DEF TypeOK, Proper
<1>3. OVERLAP_REGIONS(reg1, reg1sz, reg2, reg2sz) <=>
        \/ reg1 >= reg2 /\ reg1 < e2
        \/ e1 > reg2 /\ e1 < e2
        \/ reg1 < reg2 /\ e1 > e2
  BY <1>2 DEF OVERLAP_REGIONS, CASE_OVERLAP_R1_IN_R2, CASE_OVERLAP_R1_ENDS_R2,
              CASE_OVERLAP_R1_EATS_R2
<1>4. Share <=> reg1 < e2 /\ reg2 < e1
  <2>1. Share => reg1 < e2 /\ reg2 < e1
    BY <1>1 DEF Share, Word
  <2>2. ASSUME reg1 < e2, reg2 < e1
        PROVE  Share
    <3>1. CASE reg1 <= reg2
      <4>1. /\ reg2 \in Word
           /\ reg2 \in reg1 .. (reg1 + reg1sz - 1) /\ reg2 \in reg2 .. (reg2 + reg2sz - 1)
        BY <1>1, <2>2, <3>1 DEF Word
      <4>2. QED
        BY <4>1, Zenon DEF Share
    <3>2. CASE reg2 < reg1
      <4>1. /\ reg1 \in Word
           /\ reg1 \in reg1 .. (reg1 + reg1sz - 1) /\ reg1 \in reg2 .. (reg2 + reg2sz - 1)
        BY <1>1, <2>2, <3>2 DEF Word
      <4>2. QED
        BY <4>1, Zenon DEF Share
    <3>3. QED
      BY <1>1, <3>1, <3>2
  <2>3. QED
    BY <2>1, <2>2
<1>5. QED
  BY <1>1, <1>3, <1>4 DEF SameEnd

(***************************************************************************)
(* REGION_CONTAINS is membership, but for regions that reach the top of    *)
(* the address space, of which it may deny a member.                       *)
(***************************************************************************)
LEMMA ContainsMeaning ==
  ASSUME TypeOK
  PROVE  /\ REGION_CONTAINS(reg1, reg1sz, addr) => addr \in reg1 .. (reg1 + reg1sz - 1)
         /\ ~ REGION_CONTAINS(reg1, reg1sz, addr) =>
              addr \notin reg1 .. (reg1 + reg1sz - 1) \/ reg1 + reg1sz >= W
<1>1. reg1 \in Nat /\ reg1sz \in Nat /\ addr \in Nat /\ reg1 < W /\ reg1sz < W
  BY DEF TypeOK, Word
<1>2. CASE reg1 + reg1sz < W
  <2>1. End(reg1, reg1sz) = reg1 + reg1sz
    BY <1>2, EndOfProper DEF TypeOK
  <2>2. QED
    BY <1>1, <2>1 DEF REGION_CONTAINS, CASE_OVERLAP_R1_IN_R2
<1>3. CASE reg1 + reg1sz >= W
  <2>1. End(reg1, reg1sz) = reg1 + reg1sz - W
    BY <1>3, EndWraps DEF TypeOK
  <2>2. QED
    BY <1>1, <1>3, <2>1 DEF REGION_CONTAINS, CASE_OVERLAP_R1_IN_R2
<1>4. QED
  BY <1>1, <1>2, <1>3

(***************************************************************************)
(* The two macros decide what MacrosDecide says, on words of every width.  *)
(***************************************************************************)
THEOREM RegionMacros == Spec => []MacrosDecide
<1>1. Init => MacrosDecide
  BY DEF Init, MacrosDecide, OverlapDecides, ContainsExact
<1>2. TypeOK /\ MacrosDecide /\ [Next]_vars => MacrosDecide'
  <2> SUFFICES ASSUME TypeOK, OverlapDecides, ContainsExact, [Next]_vars
               PROVE  OverlapDecides' /\ ContainsExact'
    BY DEF MacrosDecide
  <2>1. CASE UNCHANGED vars
    BY <2>1 DEF vars, OverlapDecides, ContainsExact, Proper, Share, SameEnd
  <2>2. CASE Evaluate
    <3>1. UNCHANGED <<reg1, reg1sz, reg2, reg2sz, addr>>
      BY <2>2 DEF Evaluate
    <3>2. /\ overlap' = Verdict(OVERLAP_REGIONS(reg1, reg1sz, reg2, reg2sz))
          /\ contained' = Verdict(REGION_CONTAINS(reg1, reg1sz, addr))
      BY <2>2 DEF Evaluate
    <3>3. OverlapDecides'
      <4> SUFFICES ASSUME Proper(reg1, reg1sz), Proper(reg2, reg2sz)
                   PROVE  /\ overlap' = "yes" => Share /\ ~ SameEnd
                          /\ overlap' = "no" => ~ Share \/ SameEnd
        BY <3>1 DEF OverlapDecides, Proper, Share, SameEnd
      <4>1. OVERLAP_REGIONS(reg1, reg1sz, reg2, reg2sz) <=> Share /\ ~ SameEnd
        BY OverlapMeaning
      <4>2. QED
        BY <3>2, <4>1 DEF Verdict
    <3>4. ContainsExact'
      BY <3>1, <3>2, ContainsMeaning DEF ContainsExact, Verdict
    <3>5. QED
      BY <3>3, <3>4
  <2>3. QED
    BY <2>1, <2>2 DEF Next
<1>3. QED
  BY <1>1, <1>2, Typing, PTL DEF Spec

-------------------------------------------------------------------------------
(***************************************************************************)
(* The string helpers.  A loop has passed only places that are inside the  *)
(* memory and at which its string does not stop; if a place is inside, so  *)
(* is every one before it.                                                 *)
(***************************************************************************)
TextArgs ==
  /\ helper \in Text!Lengths \cup {"rfindnn", "rstrncmp", "subint"}
  /\ mem \in [0..(Room - 1) -> 0..255] /\ charSigned \in BOOLEAN
  /\ s1 \in 0..(Room - 1) /\ s2 \in 0..(Room - 1) /\ maxlen \in 0..SizeMax

TextInv ==
  /\ TextArgs /\ distance \in 0..maxlen /\ block \in Nat
  /\ textPc \in {"calloc", "null", "loop", "done", "undefined"}
  /\ textPc = "calloc" => helper = "subint" /\ distance = 0
  /\ textPc = "loop" => \A k \in 0..(distance - 1) : k \in Text!Ahead /\ k \notin Text!Stops
  /\ textPc = "loop" /\ helper = "subint" => maxlen < block
  /\ StringsExact

LEMMA RoomIs == Room \in Nat /\ SizeMax \in Nat /\ Room < SizeMax /\ Byte \subseteq 0..255
BY TextAssumption DEF Text!RoomAssumption

LEMMA InsidePrefix ==
  ASSUME TextArgs, NEW k \in Nat, NEW n \in Nat, k <= n, Text!Inside(n)
  PROVE  Text!Inside(k)
<1>1. DOMAIN mem = 0..(Room - 1) /\ Room \in Nat /\ s1 \in 0..(Room - 1) /\ s2 \in 0..(Room - 1)
  BY RoomIs DEF TextArgs
<1>2. CASE helper \in {"strnlenu", "subint"}
  <2>1. s1 + n \in 0..(Room - 1) /\ s2 + n \in 0..(Room - 1)
    BY <1>1, <1>2 DEF Text!Inside, Text!Place
  <2>2. s1 + k \in 0..(Room - 1) /\ s2 + k \in 0..(Room - 1)
    BY <1>1, <2>1
  <2>3. QED
    BY <1>1, <1>2, <2>2 DEF Text!Inside, Text!Place
<1>3. CASE helper \notin {"strnlenu", "subint"}
  <2>1. s1 - n \in 0..(Room - 1) /\ s2 - n \in 0..(Room - 1)
    BY <1>1, <1>3 DEF Text!Inside, Text!Place
  <2>2. s1 - k \in 0..(Room - 1) /\ s2 - k \in 0..(Room - 1)
    BY <1>1, <2>1
  <2>3. QED
    BY <1>1, <1>3, <2>2 DEF Text!Inside, Text!Place
<1>4. QED
  BY <1>2, <1>3

LEMMA StopsInside ==
  ASSUME TextArgs
  PROVE  Text!Stops \subseteq Text!Ahead /\ Text!Ahead \subseteq Text!Field /\ Text!Field \subseteq Nat /\ maxlen \in Nat
<1>1. maxlen \in Nat
  BY RoomIs DEF TextArgs
<1>2. Text!Stops \subseteq Text!Ahead
  BY DEF TextArgs, Text!Stops, Text!Lengths, Text!Zeros, Text!Foreign, Text!Differences
<1>3. QED
  BY <1>1, <1>2 DEF Text!Ahead, Text!Field

\* A character after 0x7f is seen where char is unsigned.
LEMMA AsCharIs ==
  ASSUME NEW b \in 0..255, charSigned \in BOOLEAN
  PROVE  Text!AsChar(b) > 127 <=> b > 127 /\ ~ charSigned
BY DEF Text!AsChar

\* The place an iteration is at.
LEMMA AtPlace ==
  ASSUME TextInv, Text!Iterates
  PROVE  /\ distance \in Text!Ahead /\ distance \in Nat /\ distance < maxlen
         /\ Text!Here \in 0..255 /\ Text!There \in 0..255
         /\ distance \in Text!Zeros <=> Text!Here = 0
         /\ distance \in Text!Foreign <=> Text!Here > 127 /\ ~ charSigned
         /\ distance \in Text!Differences <=> Text!Here # Text!There
         /\ Text!AsChar(Text!Here) > 127 <=> Text!Here > 127 /\ ~ charSigned
<1>1. TextArgs /\ distance \in Nat /\ distance < maxlen /\ maxlen \in Nat /\ Text!Inside(distance)
  BY RoomIs DEF TextInv, TextArgs, Text!Iterates
<1>2. distance \in Text!Ahead
  BY <1>1 DEF Text!Ahead, Text!Field
<1>3. Text!Here \in 0..255 /\ Text!There \in 0..255 /\ charSigned \in BOOLEAN
  BY <1>1 DEF TextArgs, Text!Inside, Text!Here, Text!There
<1>4. /\ distance \in Text!Zeros <=> Text!Here = 0
      /\ distance \in Text!Foreign <=> Text!Here > 127 /\ ~ charSigned
      /\ distance \in Text!Differences <=> Text!Here # Text!There
  BY <1>2 DEF Text!Zeros, Text!Foreign, Text!Differences, Text!Here, Text!There
<1>5. QED
  BY <1>1, <1>2, <1>3, <1>4, AsCharIs

LEMMA FoundStops ==
  ASSUME TextInv, Text!Found
  PROVE  /\ distance \in Text!Stops /\ textResult' = Text!Answer(distance) /\ textPc' = "done"
         /\ UNCHANGED Text!args /\ distance' = distance /\ block' = block
         /\ helper = "subint" => textResult' = distance
<1>1. /\ Text!Iterates /\ helper \in Text!Lengths \cup {"rfindnn", "rstrncmp", "subint"}
      /\ distance \in Text!Ahead
      /\ distance \in Text!Zeros <=> Text!Here = 0
      /\ distance \in Text!Foreign <=> Text!Here > 127 /\ ~ charSigned
      /\ distance \in Text!Differences <=> Text!Here # Text!There
      /\ Text!AsChar(Text!Here) > 127 <=> Text!Here > 127 /\ ~ charSigned
      /\ Text!Here \in 0..255
  BY AtPlace DEF Text!Found, TextInv, TextArgs
<1>2. textPc' = "done" /\ UNCHANGED Text!args /\ distance' = distance /\ block' = block
  BY DEF Text!Found, Text!Return
<1>3. distance \in Text!Stops
  BY <1>1 DEF Text!Found, Text!Stops, Text!Lengths, Text!Ends
<1>4. textResult' = Text!Answer(distance)
  BY <1>1 DEF Text!Found, Text!Return, Text!Answer, Text!Lengths, Text!Ends
<1>5. helper = "subint" => textResult' = distance
  BY <1>4 DEF Text!Answer, Text!Lengths
<1>6. QED
  BY <1>2, <1>3, <1>4, <1>5

LEMMA GoesOnPasses ==
  ASSUME TextInv, Text!GoesOn
  PROVE  distance \notin Text!Stops
<1>1. /\ Text!Iterates /\ helper \in Text!Lengths \cup {"rfindnn", "rstrncmp", "subint"}
      /\ distance \in Text!Zeros <=> Text!Here = 0
      /\ distance \in Text!Foreign <=> Text!Here > 127 /\ ~ charSigned
      /\ distance \in Text!Differences <=> Text!Here # Text!There
      /\ Text!AsChar(Text!Here) > 127 <=> Text!Here > 127 /\ ~ charSigned
      /\ Text!Here \in 0..255
  BY AtPlace DEF Text!GoesOn, TextInv, TextArgs
<1>2. Text!AsChar(Text!Here) <= 127 => ~ (Text!AsChar(Text!Here) > 127)
  <2>1. Text!AsChar(Text!Here) \in Int
    BY <1>1 DEF Text!AsChar
  <2>2. QED
    BY <2>1
<1>3. QED
  BY <1>1, <1>2 DEF Text!GoesOn, Text!Stops, Text!Lengths, Text!Ends

\* What the steps leave alone.
LEMMA SameText ==
  ASSUME UNCHANGED Text!args
  PROVE  /\ Text!Stops' = Text!Stops /\ Text!Ahead' = Text!Ahead /\ Text!Field' = Text!Field
         /\ TextArgs' <=> TextArgs
         /\ \A n : Text!Answer(n)' = Text!Answer(n)
         /\ helper' = helper /\ maxlen' = maxlen
<1>1. /\ helper' = helper /\ mem' = mem /\ charSigned' = charSigned /\ s1' = s1 /\ s2' = s2 /\ maxlen' = maxlen
  BY DEF Text!args
<1>2. Text!Ahead' = Text!Ahead /\ Text!Field' = Text!Field
  BY <1>1 DEF Text!Ahead, Text!Field, Text!Inside, Text!Place
<1>3. Text!Zeros' = Text!Zeros /\ Text!Foreign' = Text!Foreign /\ Text!Differences' = Text!Differences
  BY <1>1, <1>2 DEF Text!Zeros, Text!Foreign, Text!Differences, Text!Place
<1>4. Text!Stops' = Text!Stops
  BY <1>1, <1>2, <1>3 DEF Text!Stops, Text!Lengths
<1>5. \A n : Text!Answer(n)' = Text!Answer(n)
  BY <1>1, <1>3 DEF Text!Answer, Text!Lengths
<1>6. TextArgs' <=> TextArgs
  BY <1>1 DEF TextArgs, Text!Lengths
<1>7. QED
  BY <1>1, <1>2, <1>4, <1>5, <1>6

LEMMA ExactNext ==
  ASSUME UNCHANGED Text!args,
         textPc' = "done" =>
           \/ \E n \in Text!Stops : (\A k \in Text!Stops : n <= k) /\ textResult' = Text!Answer(n)
           \/ Text!Stops = {} /\ Text!Ahead = Text!Field /\ textResult' = IF helper = "rstrncmp" THEN 0 ELSE maxlen,
         textPc' = "done" /\ helper = "subint" => textResult' < block',
         textPc' = "undefined" => (Text!Stops = {} /\ Text!Ahead # Text!Field) \/ (helper = "subint" /\ maxlen = SizeMax)
  PROVE  StringsExact'
<1>1. /\ Text!Stops' = Text!Stops /\ Text!Ahead' = Text!Ahead /\ Text!Field' = Text!Field
      /\ \A n : Text!Answer(n)' = Text!Answer(n)
      /\ helper' = helper /\ maxlen' = maxlen
  BY SameText
<1>2. QED
  BY <1>1 DEF StringsExact, Text!Exact

LEMMA TextInit ==
  ASSUME Text!Init
  PROVE  TextInv
<1>1. Room \in Nat /\ SizeMax \in Nat /\ Room < SizeMax /\ Byte \subseteq 0..255
  BY RoomIs
<1>2. /\ helper \in Text!Lengths \cup {"rfindnn", "rstrncmp", "subint"} /\ charSigned \in BOOLEAN
      /\ s1 \in 0..(Room - 1) /\ s2 \in 0..(Room - 1) /\ maxlen \in 0..(Room + 1) \cup {SizeMax}
      /\ textPc = (IF helper = "subint" THEN "calloc" ELSE "loop") /\ distance = 0 /\ block = 0
  BY DEF Text!Init
<1>3. mem \in [0..(Room - 1) -> 0..255]
  BY <1>1 DEF Text!Init
<1>4. maxlen \in 0..SizeMax
  BY <1>1, <1>2
<1>5. TextArgs
  BY <1>2, <1>3, <1>4 DEF TextArgs
<1>6. StringsExact
  BY <1>2 DEF StringsExact, Text!Exact
<1>7. QED
  BY <1>1, <1>2, <1>4, <1>5, <1>6 DEF TextInv

LEMMA TextStep ==
  ASSUME TextInv, [Text!Next]_(Text!vars)
  PROVE  TextInv'
<1>1. /\ TextArgs /\ distance \in Nat /\ distance <= maxlen /\ maxlen \in Nat /\ maxlen <= SizeMax
      /\ SizeMax \in Nat /\ Room \in Nat /\ Room < SizeMax
      /\ StringsExact
      /\ textPc \in {"calloc", "null", "loop", "done", "undefined"}
      /\ textPc = "calloc" => helper = "subint" /\ distance = 0
      /\ textPc = "loop" => \A k \in 0..(distance - 1) : k \in Text!Ahead /\ k \notin Text!Stops
      /\ (textPc = "loop" /\ helper = "subint" => maxlen < block) /\ block \in Nat
  BY RoomIs DEF TextInv, TextArgs
<1>2. Text!Stops \subseteq Text!Ahead /\ Text!Ahead \subseteq Text!Field /\ Text!Field = 0..(maxlen - 1)
  BY <1>1, StopsInside DEF Text!Field
<1>3. SUFFICES /\ UNCHANGED Text!args /\ distance' \in 0..maxlen /\ block' \in Nat
               /\ textPc' \in {"calloc", "null", "loop", "done", "undefined"}
               /\ textPc' = "calloc" => helper = "subint" /\ distance' = 0
               /\ textPc' = "loop" => \A k \in 0..(distance' - 1) : k \in Text!Ahead /\ k \notin Text!Stops
               /\ textPc' = "loop" /\ helper = "subint" => maxlen < block'
               /\ StringsExact'
  <2>1. ASSUME UNCHANGED Text!args
        PROVE  /\ Text!Stops' = Text!Stops /\ Text!Ahead' = Text!Ahead /\ TextArgs'
               /\ helper' = helper /\ maxlen' = maxlen
    BY <1>1, <2>1, SameText
  <2>2. QED
    BY <2>1 DEF TextInv
<1>4. CASE Text!NoBlock
  <2>1. /\ UNCHANGED Text!args /\ distance' = distance /\ block' = block /\ textPc' = "null"
    BY <1>4 DEF Text!NoBlock
  <2>2. QED
    BY <1>1, <2>1, ExactNext
<1>5. CASE Text!Calloc
  <2>1. /\ UNCHANGED Text!args /\ distance' = 0 /\ helper = "subint" /\ block' = Text!FieldAndEnd
        /\ textPc' = IF maxlen > Text!FieldAndEnd THEN "undefined" ELSE "loop"
    BY <1>1, <1>5 DEF Text!Calloc
  <2>2. CASE maxlen = SizeMax
    <3>1. Text!FieldAndEnd = 0
      BY <1>1, <2>2 DEF Text!FieldAndEnd
    <3>2. textPc' = "undefined"
      BY <1>1, <2>1, <2>2, <3>1
    <3>3. StringsExact'
      BY <2>1, <2>2, <3>2, ExactNext
    <3>4. QED
      BY <1>1, <2>1, <3>1, <3>2, <3>3
  <2>3. CASE maxlen # SizeMax
    <3>1. Text!FieldAndEnd = maxlen + 1
      BY <1>1, <2>3 DEF Text!FieldAndEnd
    <3>2. textPc' = "loop" /\ maxlen < block'
      BY <1>1, <2>1, <3>1
    <3>3. StringsExact'
      BY <2>1, <3>2, ExactNext
    <3>4. QED
      BY <1>1, <2>1, <3>1, <3>2, <3>3
  <2>4. QED
    BY <2>2, <2>3
<1>6. CASE Text!LoopEnds
  <2>1. /\ UNCHANGED Text!args /\ distance' = distance /\ block' = block /\ textPc' = "done"
        /\ textPc = "loop" /\ distance = maxlen
        /\ textResult' = IF helper = "rstrncmp" THEN 0 ELSE maxlen
    BY <1>6 DEF Text!LoopEnds, Text!Return
  <2>2. Text!Stops = {} /\ Text!Ahead = Text!Field
    BY <1>1, <1>2, <2>1
  <2>3. helper = "subint" => textResult' < block'
    BY <1>1, <2>1
  <2>4. StringsExact'
    BY <2>1, <2>2, <2>3, ExactNext
  <2>5. QED
    BY <1>1, <2>1, <2>4
<1>7. CASE Text!OutOfMemory
  <2>1. /\ UNCHANGED Text!args /\ distance' = distance /\ block' = block /\ textPc' = "undefined"
        /\ textPc = "loop" /\ distance < maxlen /\ ~ Text!Inside(distance)
    BY <1>7 DEF Text!OutOfMemory
  <2>2. \A k \in Text!Ahead : k < distance
    <3> SUFFICES ASSUME NEW k \in Text!Ahead, ~ (k < distance)
                 PROVE  FALSE
      OBVIOUS
    <3>1. k \in Nat /\ distance <= k /\ Text!Inside(k)
      BY <1>1, <1>2 DEF Text!Ahead
    <3>2. QED
      BY <1>1, <2>1, <3>1, InsidePrefix
  <2>3. Text!Stops = {}
    BY <1>1, <1>2, <2>1, <2>2
  <2>4. Text!Ahead # Text!Field
    BY <1>1, <1>2, <2>1, <2>2
  <2>5. StringsExact'
    BY <2>1, <2>3, <2>4, ExactNext
  <2>6. QED
    BY <1>1, <2>1, <2>5
<1>8. CASE Text!Found
  <2>1. /\ distance \in Text!Stops /\ textResult' = Text!Answer(distance) /\ textPc' = "done"
        /\ UNCHANGED Text!args /\ distance' = distance /\ block' = block
        /\ helper = "subint" => textResult' = distance
    BY <1>8, FoundStops
  <2>2. textPc = "loop" /\ distance < maxlen
    BY <1>8 DEF Text!Found, Text!Iterates
  <2>3. \A k \in Text!Stops : distance <= k
    BY <1>1, <1>2, <2>2
  <2>4. helper = "subint" => textResult' < block'
    <3>1. ASSUME helper = "subint"
          PROVE  maxlen < block' /\ textResult' = distance
      BY <1>1, <2>1, <2>2, <3>1
    <3>2. QED
      BY <1>1, <2>1, <2>2, <3>1
  <2>5. StringsExact'
    BY <2>1, <2>3, <2>4, ExactNext
  <2>6. QED
    BY <1>1, <2>1, <2>5
<1>9. CASE Text!GoesOn
  <2>1. /\ UNCHANGED Text!args /\ distance' = distance + 1 /\ textPc' = "loop" /\ textPc = "loop"
        /\ block' = block /\ distance < maxlen
    BY <1>9 DEF Text!GoesOn, Text!Iterates
  <2>2. distance \in Text!Ahead /\ distance \notin Text!Stops
    BY <1>9, GoesOnPasses, AtPlace DEF Text!GoesOn
  <2>3. StringsExact'
    BY <2>1, ExactNext
  <2>4. QED
    BY <1>1, <2>1, <2>2, <2>3
<1>10. CASE UNCHANGED Text!vars
  <2>1. UNCHANGED Text!args /\ textPc' = textPc /\ distance' = distance /\ block' = block /\ textResult' = textResult
    BY <1>10 DEF Text!vars
  <2>2. StringsExact'
    BY <1>1, <2>1, ExactNext DEF StringsExact, Text!Exact
  <2>3. QED
    BY <1>1, <2>1, <2>2
<1>11. QED
  BY <1>4, <1>5, <1>6, <1>7, <1>8, <1>9, <1>10 DEF Text!Next

(***************************************************************************)
(* The string helpers, on every piece of memory and for every length: they *)
(* answer for the first place their string stops at, and leave the memory  *)
(* only where there is none in it.                                         *)
(***************************************************************************)
THEOREM StringsHold == Text!Spec => []StringsExact
<1>1. Text!Init => TextInv
  BY TextInit
<1>2. TextInv /\ [Text!Next]_(Text!vars) => TextInv'
  BY TextStep
<1>3. TextInv => StringsExact
  BY DEF TextInv
<1>4. QED
  BY <1>1, <1>2, <1>3, PTL DEF Text!Spec

-------------------------------------------------------------------------------
(***************************************************************************)
(* The hashes.                                                             *)
(***************************************************************************)
IsHalf(x) == x \in Nat /\ x < Hash!Half

IsWord(w) == w = [hi |-> w.hi, lo |-> w.lo] /\ IsHalf(w.hi) /\ IsHalf(w.lo)

IsChar(c) == c \in Nat /\ c < 256

Bits == 0..15

LEMMA HalfOf ==
  ASSUME NEW n \in Nat
  PROVE  /\ IsHalf(n % Hash!Half) /\ n \div Hash!Half \in Nat
         /\ n = Hash!Half * (n \div Hash!Half) + (n % Hash!Half)
BY SMT DEF IsHalf, Hash!Half

LEMMA WordIs ==
  ASSUME NEW hi \in Nat, NEW lo \in Nat
  PROVE  /\ IsWord(Hash!Word(hi, lo))
         /\ Hash!Word(hi, lo).hi = (hi + (lo \div Hash!Half)) % Hash!Half
         /\ Hash!Word(hi, lo).lo = lo % Hash!Half
<1> DEFINE w == Hash!Word(hi, lo)
<1>1. w = [hi |-> (hi + (lo \div Hash!Half)) % Hash!Half, lo |-> lo % Hash!Half]
  BY DEF Hash!Word
<1>2. IsHalf((hi + (lo \div Hash!Half)) % Hash!Half) /\ IsHalf(lo % Hash!Half)
  <2>1. hi + (lo \div Hash!Half) \in Nat
    BY HalfOf, SMT
  <2>2. QED
    BY <2>1, HalfOf, Zenon
<1> HIDE DEF w
<1>3. w.hi = (hi + (lo \div Hash!Half)) % Hash!Half /\ w.lo = lo % Hash!Half /\ w = [hi |-> w.hi, lo |-> w.lo]
  BY <1>1
<1>4. QED
  BY <1>2, <1>3, Zenon DEF IsWord, w

\* All but the lowest byte.
High(n) == 256 * (n \div 256)

LEMMA HighOf ==
  ASSUME NEW n \in Nat
  PROVE  High(n) \in Nat /\ High(n) <= n /\ n < High(n) + 256
BY SMT DEF High

\* Four bits as a number.
LEMMA FourBits ==
  ASSUME NEW a \in Bits
  PROVE  \E b1, b2, b4, b8 \in 0..1 : /\ a = b1 + 2 * b2 + 4 * b4 + 8 * b8
                                      /\ b1 = (a \div 1) % 2 /\ b2 = (a \div 2) % 2
                                      /\ b4 = (a \div 4) % 2 /\ b8 = (a \div 8) % 2
<1> DEFINE b1 == (a \div 1) % 2  b2 == (a \div 2) % 2
           b4 == (a \div 4) % 2  b8 == (a \div 8) % 2
<1>1. b1 \in 0..1 /\ b2 \in 0..1 /\ b4 \in 0..1 /\ b8 \in 0..1
  BY DEF Bits
<1>2. a = b1 + 2 * b2 + 4 * b4 + 8 * b8
  BY DEF Bits
<1>3. QED
  BY <1>1, <1>2

\* Exclusive or with the same bits can be undone.
LEMMA XorTells ==
  ASSUME NEW a \in Bits, NEW b \in Bits, NEW bits \in Bits
  PROVE  /\ Hash!Xor(a, bits) \in Bits
         /\ Hash!Xor(a, bits) = Hash!Xor(b, bits) => a = b
<1>1. PICK a1, a2, a4, a8 \in 0..1 : /\ a = a1 + 2 * a2 + 4 * a4 + 8 * a8
                                     /\ a1 = (a \div 1) % 2 /\ a2 = (a \div 2) % 2
                                     /\ a4 = (a \div 4) % 2 /\ a8 = (a \div 8) % 2
  BY FourBits
<1>2. PICK b1, b2, b4, b8 \in 0..1 : /\ b = b1 + 2 * b2 + 4 * b4 + 8 * b8
                                     /\ b1 = (b \div 1) % 2 /\ b2 = (b \div 2) % 2
                                     /\ b4 = (b \div 4) % 2 /\ b8 = (b \div 8) % 2
  BY FourBits
<1>3. PICK m1, m2, m4, m8 \in 0..1 : /\ m1 = (bits \div 1) % 2 /\ m2 = (bits \div 2) % 2
                                     /\ m4 = (bits \div 4) % 2 /\ m8 = (bits \div 8) % 2
  BY FourBits
<1> DEFINE D(x, y, bit) == IF x = y THEN 0 ELSE bit
<1>4. Hash!Xor(a, bits) = D(a1, m1, 1) + D(a2, m2, 2) + D(a4, m4, 4) + D(a8, m8, 8)
  BY <1>1, <1>3 DEF Hash!Xor, Hash!Differ
<1>5. Hash!Xor(b, bits) = D(b1, m1, 1) + D(b2, m2, 2) + D(b4, m4, 4) + D(b8, m8, 8)
  BY <1>2, <1>3 DEF Hash!Xor, Hash!Differ
<1>6. Hash!Xor(a, bits) \in Bits
  BY <1>4 DEF Bits
<1>7. ASSUME Hash!Xor(a, bits) = Hash!Xor(b, bits)
      PROVE  a = b
  <2>1. /\ D(a1, m1, 1) = D(b1, m1, 1) /\ D(a2, m2, 2) = D(b2, m2, 2)
        /\ D(a4, m4, 4) = D(b4, m4, 4) /\ D(a8, m8, 8) = D(b8, m8, 8)
    BY <1>4, <1>5, <1>7
  <2>2. a1 = b1 /\ a2 = b2 /\ a4 = b4 /\ a8 = b8
    BY <2>1
  <2>3. a = a1 + 2 * a2 + 4 * a4 + 8 * a8 /\ b = b1 + 2 * b2 + 4 * b4 + 8 * b8
    BY <1>1, <1>2, Zenon
  <2>4. QED
    BY <2>2, <2>3, Zenon
<1>8. QED
  BY <1>6, <1>7

\* Flipping the bits 4 to 7 keeps those below and above.
LEMMA FlipIs ==
  ASSUME NEW lo, IsHalf(lo), NEW bits \in Bits
  PROVE  /\ IsHalf(Hash!Flip(lo, 16, bits))
         /\ Hash!Flip(lo, 16, bits) = 256 * (lo \div 256) + 16 * Hash!Xor((lo \div 16) % 16, bits) + (lo % 16)
<1> DEFINE there == (lo \div 16) % 16
<1>1. there \in Bits /\ lo = 256 * (lo \div 256) + 16 * there + (lo % 16)
  BY DEF Bits, IsHalf
<1>2. Hash!Xor(there, bits) \in Bits
  BY <1>1, XorTells
<1>3. lo % 16 \in Bits /\ lo \div 256 \in Nat /\ lo \div 256 < 256
  BY SMT DEF Bits, IsHalf, Hash!Half
<1>4. Hash!Flip(lo, 16, bits) = lo + 16 * (Hash!Xor(there, bits) - there)
  BY DEF Hash!Flip
<1>5. Hash!Flip(lo, 16, bits) = 256 * (lo \div 256) + 16 * Hash!Xor(there, bits) + (lo % 16)
  <2> DEFINE high == lo \div 256  low == lo % 16  new == Hash!Xor(there, bits)
  <2>1. new \in Int /\ there \in Int
    BY <1>1, <1>2 DEF Bits
  <2>2. high \in Int /\ low \in Int
    BY <1>3 DEF Bits
  <2>3. lo = 256 * high + 16 * there + low
    BY <1>1, Zenon
  <2>4. Hash!Flip(lo, 16, bits) = lo + 16 * (new - there)
    BY <1>4, Zenon
  <2> HIDE DEF high, low, new, there
  <2>5. Hash!Flip(lo, 16, bits) = 256 * high + 16 * new + low
    BY <2>1, <2>2, <2>3, <2>4
  <2>6. QED
    BY <2>5, Zenon DEF high, low, new
<1> HIDE DEF there
<1>6. IsHalf(Hash!Flip(lo, 16, bits))
  BY <1>2, <1>3, <1>5, SMT DEF Bits, IsHalf, Hash!Half
<1>7. QED
  BY <1>5, <1>6 DEF there

LEMMA FlipTells ==
  ASSUME NEW x, NEW y, IsHalf(x), IsHalf(y), NEW m \in Bits, NEW n \in Bits,
         Hash!Flip(x, 16, m) = Hash!Flip(y, 16, n)
  PROVE  High(x) = High(y) /\ (m = n => x = y)
<1> DEFINE xHigh == x \div 256  xMid == (x \div 16) % 16  xLow == x % 16
           yHigh == y \div 256  yMid == (y \div 16) % 16  yLow == y % 16
<1>1. /\ xHigh \in Nat /\ xMid \in Bits /\ xLow \in Bits /\ x = 256 * xHigh + 16 * xMid + xLow
      /\ yHigh \in Nat /\ yMid \in Bits /\ yLow \in Bits /\ y = 256 * yHigh + 16 * yMid + yLow
  BY DEF Bits, IsHalf
<1>2. Hash!Xor(xMid, m) \in Bits /\ Hash!Xor(yMid, n) \in Bits
  BY <1>1, XorTells
<1>3. 256 * xHigh + 16 * Hash!Xor(xMid, m) + xLow = 256 * yHigh + 16 * Hash!Xor(yMid, n) + yLow
  <2>1. Hash!Flip(x, 16, m) = 256 * xHigh + 16 * Hash!Xor(xMid, m) + xLow
    BY FlipIs, Zenon
  <2>2. Hash!Flip(y, 16, n) = 256 * yHigh + 16 * Hash!Xor(yMid, n) + yLow
    BY FlipIs, Zenon
  <2>3. QED
    BY <2>1, <2>2
<1> HIDE DEF xHigh, xMid, xLow, yHigh, yMid, yLow
<1>4. xHigh = yHigh /\ Hash!Xor(xMid, m) = Hash!Xor(yMid, n) /\ xLow = yLow
  BY <1>1, <1>2, <1>3 DEF Bits
<1>5. m = n => xMid = yMid
  BY <1>1, <1>4, XorTells
<1>6. QED
  BY <1>1, <1>4, <1>5 DEF xHigh, yHigh, High

\* The product and the sum of the hashes, before they are cut to 32 bits.
LEMMA TimesPlusIs ==
  ASSUME NEW w, IsWord(w), NEW c, IsChar(c), NEW m \in {16, 33}
  PROVE  /\ w.hi * m \in Nat /\ w.lo * m + c \in Nat /\ (w.lo * m + c) \div Hash!Half \in Nat
         /\ IsWord(Hash!TimesPlus(w, m, c))
         /\ Hash!TimesPlus(w, m, c).hi = (w.hi * m + ((w.lo * m + c) \div Hash!Half)) % Hash!Half
         /\ Hash!TimesPlus(w, m, c).lo = (w.lo * m + c) % Hash!Half
<1> DEFINE hi == w.hi * m
           lo == w.lo * m + c
<1>1. w.hi \in Nat /\ w.lo \in Nat /\ c \in Nat
  BY DEF IsWord, IsHalf, IsChar
<1>2. hi \in Nat /\ lo \in Nat
  BY <1>1
<1>3. Hash!TimesPlus(w, m, c) = Hash!Word(hi, lo)
  BY DEF Hash!TimesPlus
<1> HIDE DEF hi, lo
<1>4. lo \div Hash!Half \in Nat
  BY <1>2, HalfOf, Zenon
<1>5. /\ IsWord(Hash!Word(hi, lo))
      /\ Hash!Word(hi, lo).hi = (hi + (lo \div Hash!Half)) % Hash!Half
      /\ Hash!Word(hi, lo).lo = lo % Hash!Half
  BY <1>2, WordIs, Zenon
<1>6. QED
  BY <1>2, <1>3, <1>4, <1>5, Zenon DEF hi, lo

\* elf_hash: the four bits that come back are the same for both characters,
\* unless the lower half was carried into the upper one for one of them; then
\* it is near 0 for that one and near Hash!Half for the other.
LEMMA ElfTells ==
  ASSUME NEW w, IsWord(w), NEW c, NEW e, IsChar(c), IsChar(e), c # e
  PROVE  Hash!ElfStep(w, c) # Hash!ElfStep(w, e)
<1> DEFINE U == Hash!TimesPlus(w, 16, c)
           V == Hash!TimesPlus(w, 16, e)
           high == w.hi * 16
           p == (w.lo * 16 + c) \div Hash!Half
           q == (w.lo * 16 + e) \div Hash!Half
<1>1. /\ w.lo * 16 \in Nat /\ c \in Nat /\ e \in Nat /\ c < 256 /\ e < 256
      /\ high \in Nat /\ p \in Nat /\ q \in Nat
  BY TimesPlusIs, SMT DEF IsWord, IsHalf, IsChar
<1>2. /\ IsWord(U) /\ U.hi = (high + p) % Hash!Half /\ U.lo = (w.lo * 16 + c) % Hash!Half
  BY TimesPlusIs
<1>3. /\ IsWord(V) /\ V.hi = (high + q) % Hash!Half /\ V.lo = (w.lo * 16 + e) % Hash!Half
  BY TimesPlusIs
<1>4. w.lo * 16 + c = Hash!Half * p + U.lo /\ w.lo * 16 + e = Hash!Half * q + V.lo
  <2>1. w.lo * 16 + c \in Nat /\ w.lo * 16 + e \in Nat
    BY <1>1
  <2>2. QED
    BY <1>2, <1>3, <2>1, HalfOf, Zenon
<1> HIDE DEF U, V, p, q, high
<1>5. SUFFICES ASSUME Hash!Fold(U) = Hash!Fold(V)
               PROVE  FALSE
  BY DEF Hash!ElfStep, U, V
<1>6. /\ IsHalf(U.lo) /\ IsHalf(V.lo)
      /\ U.hi \div 4096 \in Bits /\ V.hi \div 4096 \in Bits
  BY <1>2, <1>3, SMT DEF IsWord, IsHalf, Bits, Hash!Half
<1>7. Hash!Flip(U.lo, 16, U.hi \div 4096) = Hash!Flip(V.lo, 16, V.hi \div 4096)
  BY <1>5 DEF Hash!Fold
<1>8. High(U.lo) = High(V.lo) /\ (U.hi = V.hi => U.lo = V.lo)
  BY <1>6, <1>7, FlipTells
<1>9. CASE p = q
  BY <1>1, <1>2, <1>3, <1>4, <1>8, <1>9
<1>10. CASE p # q
  <2>1. U.lo \in Nat /\ V.lo \in Nat
    BY <1>6 DEF IsHalf
  <2>2. High(U.lo) <= U.lo /\ U.lo < High(U.lo) + 256 /\ High(U.lo) \in Nat
    BY <2>1, HighOf
  <2>3. High(U.lo) <= V.lo /\ V.lo < High(U.lo) + 256
    BY <1>8, <2>1, HighOf
  <2>4. QED
    BY <1>1, <1>4, <1>10, <2>1, <2>2, <2>3, SMT DEF Hash!Half
<1>11. QED
  BY <1>9, <1>10

LEMMA GnuTells ==
  ASSUME NEW w, IsWord(w), NEW c, NEW e, IsChar(c), IsChar(e), c # e
  PROVE  Hash!GnuStep(w, c) # Hash!GnuStep(w, e)
<1>1. w.lo * 33 \in Nat /\ c \in Nat /\ e \in Nat /\ c < 256 /\ e < 256
  BY DEF IsWord, IsHalf, IsChar
<1>2. Hash!GnuStep(w, c).lo = (w.lo * 33 + c) % Hash!Half
  BY TimesPlusIs DEF Hash!GnuStep
<1>3. Hash!GnuStep(w, e).lo = (w.lo * 33 + e) % Hash!Half
  BY TimesPlusIs DEF Hash!GnuStep
<1>4. (w.lo * 33 + c) % Hash!Half # (w.lo * 33 + e) % Hash!Half
  BY <1>1, SMT DEF Hash!Half
<1>5. QED
  BY <1>2, <1>3, <1>4

LEMMA StepsAreWords ==
  ASSUME NEW w, IsWord(w), NEW c, IsChar(c)
  PROVE  /\ IsWord(Hash!ElfStep(w, c)) /\ Hash!ElfStep(w, c).hi < 4096
         /\ IsWord(Hash!GnuStep(w, c))
<1>1. IsWord(Hash!TimesPlus(w, 16, c)) /\ IsWord(Hash!TimesPlus(w, 33, c))
  BY TimesPlusIs
<1>2. ASSUME NEW v, IsWord(v)
      PROVE  IsWord(Hash!Fold(v)) /\ Hash!Fold(v).hi < 4096
  <2>1. IsHalf(v.hi) /\ IsHalf(v.lo) /\ v.hi \div 4096 \in Bits
    BY <1>2, SMT DEF IsWord, IsHalf, Bits, Hash!Half
  <2>2. IsHalf(Hash!Flip(v.lo, 16, v.hi \div 4096))
    <3> DEFINE bits == v.hi \div 4096
    <3>1. IsHalf(v.lo) /\ bits \in Bits
      BY <2>1
    <3> HIDE DEF bits
    <3>2. IsHalf(Hash!Flip(v.lo, 16, bits))
      BY <3>1, FlipIs, Zenon
    <3>3. QED
      BY <3>2 DEF bits
  <2>3. IsHalf(v.hi % 4096) /\ v.hi % 4096 < 4096
    BY <2>1, SMT DEF IsHalf, Hash!Half
  <2>4. QED
    BY <2>2, <2>3 DEF Hash!Fold, IsWord
<1>3. QED
  BY <1>1, <1>2 DEF Hash!ElfStep, Hash!GnuStep

(***************************************************************************)
(* The halves of a word are exact: on the number a word stands for, a step *)
(* of either hash is what the C code computes in a uint32_t.               *)
(***************************************************************************)
TwoTo28 == 268435456

TwoTo32 == 4294967296

Number(w) == Hash!Half * w.hi + w.lo

\* (h << 5) + h + c
GnuNumber(h, c) == (33 * h + c) % TwoTo32

\* (h << 4) + c, of which the four highest bits are moved on to bits 4 to 7.
ElfNumber(h, c) ==
  LET sum == (16 * h + c) % TwoTo32
      g == sum \div TwoTo28
      there == ((sum % TwoTo28) \div 16) % 16
  IN  (sum % TwoTo28) + 16 * (Hash!Xor(there, g) - there)

LEMMA TimesPlusNumber ==
  ASSUME NEW w, IsWord(w), NEW c, IsChar(c), NEW m \in {16, 33}
  PROVE  Number(Hash!TimesPlus(w, m, c)) = (m * Number(w) + c) % TwoTo32
<1> DEFINE a == w.hi * m
           x == w.lo * m + c
           q == x \div Hash!Half
           y == a + q
           Q == y \div Hash!Half
           t == Hash!TimesPlus(w, m, c)
<1>1. /\ a \in Nat /\ x \in Nat /\ q \in Nat
      /\ t.hi = y % Hash!Half /\ t.lo = x % Hash!Half
  <2>1. /\ w.hi * m \in Nat /\ w.lo * m + c \in Nat /\ (w.lo * m + c) \div Hash!Half \in Nat
        /\ Hash!TimesPlus(w, m, c).hi = (w.hi * m + ((w.lo * m + c) \div Hash!Half)) % Hash!Half
        /\ Hash!TimesPlus(w, m, c).lo = (w.lo * m + c) % Hash!Half
    BY TimesPlusIs
  <2>2. QED
    BY <2>1, Zenon
<1>2. m * Number(w) + c = Hash!Half * a + x
  <2>1. w.hi \in Nat /\ w.lo \in Nat /\ c \in Nat
    BY DEF IsWord, IsHalf, IsChar
  <2>2. CASE m = 16
    BY <2>1, <2>2, SMT DEF Number, Hash!Half
  <2>3. CASE m = 33
    BY <2>1, <2>3, SMT DEF Number, Hash!Half
  <2>4. QED
    BY <2>2, <2>3
<1> HIDE DEF a, x, t
<1>3. x = Hash!Half * q + t.lo /\ IsHalf(t.lo)
  BY <1>1, HalfOf, Zenon
<1> HIDE DEF q
<1>4. y \in Nat
  BY <1>1
<1>5. y = Hash!Half * Q + t.hi /\ IsHalf(t.hi) /\ Q \in Nat
  <2> HIDE DEF y
  <2>1. QED
    BY <1>1, <1>4, HalfOf, Zenon
<1> HIDE DEF Q
<1>6. m * Number(w) + c = TwoTo32 * Q + Number(t)
  BY <1>1, <1>2, <1>3, <1>5, SMT DEF Number, Hash!Half, TwoTo32, IsHalf
<1>7. Number(t) \in Nat /\ Number(t) < TwoTo32
  BY <1>3, <1>5, SMT DEF Number, Hash!Half, TwoTo32, IsHalf
<1>8. ASSUME NEW n \in Nat, NEW v \in Nat, v < TwoTo32, n = TwoTo32 * Q + v
      PROVE  n % TwoTo32 = v
  BY <1>5, <1>8, SMT DEF TwoTo32
<1>9. m * Number(w) + c \in Nat
  BY <1>5, <1>6, <1>7, SMT DEF TwoTo32
<1>10. QED
  BY <1>6, <1>7, <1>8, <1>9, Zenon DEF t

LEMMA FoldNumber ==
  ASSUME NEW w, IsWord(w)
  PROVE  LET g == Number(w) \div TwoTo28
             there == ((Number(w) % TwoTo28) \div 16) % 16
         IN  Number(Hash!Fold(w)) = (Number(w) % TwoTo28) + 16 * (Hash!Xor(there, g) - there)
<1> DEFINE g == w.hi \div 4096
           there == (w.lo \div 16) % 16
           high == Hash!Half * (w.hi % 4096)
           new == Hash!Xor(there, g)
           e == high + w.lo
<1>1. IsHalf(w.hi) /\ IsHalf(w.lo)
  BY DEF IsWord
<1>2. Number(w) \div TwoTo28 = g /\ Number(w) % TwoTo28 = e
  BY <1>1, SMT DEF Number, IsHalf, Hash!Half, TwoTo28
<1>3. (e \div 16) % 16 = there
  BY <1>1, SMT DEF IsHalf, Hash!Half
<1>4. g \in Bits /\ there \in Bits
  BY <1>1, SMT DEF Bits, IsHalf, Hash!Half
<1>5. new \in Bits
  BY <1>4, XorTells
<1>6. high \in Nat /\ w.lo \in Nat /\ e = high + w.lo
  BY <1>1, SMT DEF IsHalf, Hash!Half
<1>7. Number(Hash!Fold(w)) = high + (w.lo + 16 * (new - there))
  BY DEF Number, Hash!Fold, Hash!Flip
<1> DEFINE N == Number(w)
<1>8. new = Hash!Xor(there, g) /\ Number(w) = N
  OBVIOUS
<1> HIDE DEF g, there, high, new, e, N
<1>9. Number(Hash!Fold(w)) = e + 16 * (Hash!Xor(there, g) - there)
  BY <1>4, <1>5, <1>6, <1>7, <1>8, SMT DEF Bits
<1>10. Number(Hash!Fold(w)) = (N % TwoTo28) + 16 * (Hash!Xor(((N % TwoTo28) \div 16) % 16, N \div TwoTo28)
                                                   - (((N % TwoTo28) \div 16) % 16))
  <2>1. N \div TwoTo28 = g /\ N % TwoTo28 = e
    BY <1>2, <1>8
  <2> DEFINE m == N % TwoTo28
             t == N \div TwoTo28
  <2>2. m = e /\ t = g
    BY <2>1
  <2> HIDE DEF m, t
  <2>3. Number(Hash!Fold(w)) = m + 16 * (Hash!Xor((m \div 16) % 16, t) - ((m \div 16) % 16))
    BY <1>3, <1>9, <2>2
  <2>4. QED
    BY <2>3 DEF m, t
<1>11. QED
  BY <1>8, <1>10

LEMMA StepNumbers ==
  ASSUME NEW w, IsWord(w), NEW c, IsChar(c)
  PROVE  /\ Number(Hash!ElfStep(w, c)) = ElfNumber(Number(w), c)
         /\ Number(Hash!GnuStep(w, c)) = GnuNumber(Number(w), c)
<1>1. /\ Number(Hash!TimesPlus(w, 16, c)) = (16 * Number(w) + c) % TwoTo32
      /\ Number(Hash!TimesPlus(w, 33, c)) = (33 * Number(w) + c) % TwoTo32
      /\ IsWord(Hash!TimesPlus(w, 16, c))
  BY TimesPlusNumber, TimesPlusIs
<1>2. QED
  BY <1>1, FoldNumber, Zenon DEF Hash!ElfStep, Hash!GnuStep, ElfNumber, GnuNumber

HashInv ==
  /\ name \in Names /\ at \in Nat \ {0}
  /\ IsWord(elf) /\ elf.hi < 4096 /\ IsWord(gnu)

LEMMA CharsOf ==
  /\ \A n \in Names : \A k \in 1..Len(n) : IsChar(n[k])
  /\ \A c \in Last : IsChar(c)
<1>1. \A c \in 1..255 : IsChar(c)
  BY DEF IsChar
<1>2. QED
  BY <1>1, HashAssumption, Zenon DEF Hash!NamesAssumption

LEMMA HashInit == Hash!Init => HashInv /\ Number(elf) = 0 /\ Number(gnu) = 5381
<1>1. ASSUME NEW n, IsHalf(n)
      PROVE  /\ IsWord(Hash!Word(0, n)) /\ Hash!Word(0, n).hi = 0
             /\ Hash!Word(0, n).lo = n /\ Number(Hash!Word(0, n)) = n
  <2>1. /\ n \in Nat /\ (0 + (n \div Hash!Half)) % Hash!Half = 0 /\ n % Hash!Half = n
        /\ 0 \in Nat
    BY <1>1, SMT DEF IsHalf, Hash!Half
  <2>2. /\ IsWord(Hash!Word(0, n))
        /\ Hash!Word(0, n).hi = (0 + (n \div Hash!Half)) % Hash!Half
        /\ Hash!Word(0, n).lo = n % Hash!Half
    BY <2>1, WordIs
  <2>3. Hash!Word(0, n).hi = 0 /\ Hash!Word(0, n).lo = n
    BY <2>1, <2>2
  <2>4. Number(Hash!Word(0, n)) = n
    BY <2>1, <2>3, SMT DEF Number, Hash!Half
  <2>5. QED
    BY <2>2, <2>3, <2>4
<1>2. IsHalf(0) /\ IsHalf(5381)
  BY SMT DEF IsHalf, Hash!Half
<1>3. /\ IsWord(Hash!Word(0, 0)) /\ Hash!Word(0, 0).hi = 0 /\ Number(Hash!Word(0, 0)) = 0
      /\ IsWord(Hash!Word(0, 5381)) /\ Number(Hash!Word(0, 5381)) = 5381
  BY <1>1, <1>2
<1>4. QED
  BY <1>3, SMT DEF Hash!Init, HashInv

LEMMA CharSteps ==
  ASSUME HashInv, Hash!Char
  PROVE  /\ IsChar(name[at])
         /\ elf' = Hash!ElfStep(elf, name[at]) /\ gnu' = Hash!GnuStep(gnu, name[at])
         /\ at' = at + 1 /\ name' = name
BY CharsOf DEF HashInv, Hash!Char

LEMMA HashKept == HashInv /\ [Hash!Next]_(Hash!vars) => HashInv'
<1> SUFFICES ASSUME HashInv, [Hash!Next]_(Hash!vars)
             PROVE  HashInv'
  OBVIOUS
<1>1. CASE Hash!Char
  BY <1>1, CharSteps, StepsAreWords DEF HashInv
<1>2. CASE UNCHANGED Hash!vars
  BY <1>2 DEF HashInv, Hash!vars
<1>3. QED
  BY <1>1, <1>2 DEF Hash!Next

(***************************************************************************)
(* The hashes, of every name: elf_hash has 28 bits, and names that differ  *)
(* in their last character only do not collide, in either hash.            *)
(***************************************************************************)
THEOREM HashesTell == Hash!Spec => []Hash!LastTells
<1>1. HashInv => Hash!LastTells
  BY CharsOf, ElfTells, GnuTells, SMT DEF HashInv, Hash!LastTells
<1>2. QED
  BY HashInit, HashKept, <1>1, PTL DEF Hash!Spec

(***************************************************************************)
(* The hashes, of every name: at every character both are what the C code  *)
(* computes in 32 bits, so Hashes loses nothing by its halves.             *)
(***************************************************************************)
StepsOfC ==
  /\ Number(elf') = ElfNumber(Number(elf), name[at])
  /\ Number(gnu') = GnuNumber(Number(gnu), name[at])

THEOREM HashesAreNumbers ==
  Hash!Spec => /\ Number(elf) = 0 /\ Number(gnu) = 5381
               /\ [][StepsOfC]_(Hash!vars)
<1>1. HashInv /\ [Hash!Next]_(Hash!vars) => [StepsOfC]_(Hash!vars)
  <2> SUFFICES ASSUME HashInv, Hash!Char
               PROVE  StepsOfC
    BY DEF Hash!Next
  <2>1. IsWord(elf) /\ IsWord(gnu)
    BY DEF HashInv
  <2>2. QED
    BY <2>1, CharSteps, StepNumbers, Zenon DEF StepsOfC
<1>2. QED
  BY HashInit, HashKept, <1>1, PTL DEF Hash!Spec

-------------------------------------------------------------------------------
(***************************************************************************)
(* The vector of pairs.  While a search goes on the vector stays, and no   *)
(* position it has passed holds the key; between searches pairs are only   *)
(* appended, so positions before the end keep their pairs, until a sort    *)
(* moves the pairs and loses none.                                         *)
(***************************************************************************)
PairsTyped ==
  /\ vector \in Seq(Key \X PairValue)
  /\ sought \in Int /\ position \in Nat
  /\ pairPc \in {"idle", "search"}

SearchInv ==
  pairPc = "search" =>
    /\ position <= Len(vector)
    /\ \A n \in 1..position : vector[n][1] # sought

HeldInv == held.index # -1 => held.index \in 0..(Len(vector) - 1)

PairsInv == PairsTyped /\ SearchInv /\ HeldInv /\ FindHolds

\* A value of a key is where a pair of the key is.
LEMMA ValueIsHeld ==
  ASSUME NEW k, NEW v
  PROVE  v \in PairVector!Values(k) <=> \E n \in 1..Len(vector) : vector[n][1] = k /\ vector[n][2] = v
BY DEF PairVector!Values, PairVector!Positions

LEMMA PairsPushBack ==
  ASSUME PairsInv, NEW k \in Key, NEW v \in PairValue, PairVector!PushBack(k, v)
  PROVE  PairsInv'
<1>1. /\ vector' = Append(vector, <<k, v>>) /\ pairPc = "idle"
      /\ UNCHANGED <<sought, position, pairPc, held, sorted>>
  BY DEF PairVector!PushBack
<1>2. vector \in Seq(Key \X PairValue) /\ Len(vector) \in Nat
  BY DEF PairsInv, PairsTyped
<1>3. <<k, v>> \in Key \X PairValue
  OBVIOUS
<1>4. /\ vector' \in Seq(Key \X PairValue) /\ Len(vector') = Len(vector) + 1
      /\ \A n \in 1..Len(vector) : vector'[n] = vector[n]
  BY <1>1, <1>2, <1>3
<1>5. PairsTyped' /\ SearchInv' /\ HeldInv'
  BY <1>1, <1>2, <1>4 DEF PairsInv, PairsTyped, SearchInv, HeldInv
<1>6. FindHolds'
  <2> SUFFICES ASSUME held.index # -1
               PROVE  /\ held.value \in PairVector!Values(held.key)'
                      /\ ~ sorted => /\ vector'[held.index + 1] = <<held.key, held.value>>
                                     /\ \A n \in 1..held.index : vector'[n][1] # held.key
    BY <1>1 DEF FindHolds, PairVector!FindHolds
  <2>1. /\ held.value \in PairVector!Values(held.key)
        /\ ~ sorted => /\ vector[held.index + 1] = <<held.key, held.value>>
                       /\ \A n \in 1..held.index : vector[n][1] # held.key
        /\ held.index \in 0..(Len(vector) - 1)
    BY DEF PairsInv, HeldInv, FindHolds, PairVector!FindHolds
  <2>2. PICK n \in 1..Len(vector) : vector[n][1] = held.key /\ vector[n][2] = held.value
    BY <2>1, ValueIsHeld
  <2>3. n \in 1..Len(vector') /\ vector'[n][1] = held.key /\ vector'[n][2] = held.value
    BY <1>2, <1>4, <2>2
  <2>4. held.value \in PairVector!Values(held.key)'
    BY <1>1, <2>3 DEF PairVector!Values, PairVector!Positions
  <2>5. held.index + 1 \in 1..Len(vector) /\ \A m \in 1..held.index : m \in 1..Len(vector)
    BY <1>2, <2>1
  <2>6. QED
    BY <1>4, <2>1, <2>4, <2>5
<1>7. QED
  BY <1>5, <1>6 DEF PairsInv

LEMMA PairsSort ==
  ASSUME PairsInv, PairVector!vector_pair_sort
  PROVE  PairsInv'
<1> DEFINE P == 1..Len(vector)
<1>1. PICK p \in [P -> P] : /\ \A n \in P : \E m \in P : p[m] = n
                            /\ vector' = [n \in P |-> vector[p[n]]]
  BY DEF PairVector!vector_pair_sort, PairVector!Permutation, PairVector!Positions, PairVector!Arranged
<1>2. sorted' = TRUE /\ pairPc = "idle" /\ UNCHANGED <<sought, position, pairPc, held>>
  BY DEF PairVector!vector_pair_sort
<1>3. vector \in Seq(Key \X PairValue) /\ Len(vector) \in Nat
  BY DEF PairsInv, PairsTyped
<1>4. vector' \in Seq(Key \X PairValue) /\ Len(vector') = Len(vector)
  <2>1. \A n \in P : vector[p[n]] \in Key \X PairValue
    BY <1>1, <1>3
  <2>2. vector' \in [1..Len(vector) -> Key \X PairValue]
    BY <1>1, <2>1
  <2>3. ASSUME NEW k \in Nat, NEW v \in [1..k -> Key \X PairValue]
        PROVE  v \in Seq(Key \X PairValue) /\ Len(v) = k
    OBVIOUS
  <2>4. QED
    BY <1>3, <2>2, <2>3, Zenon
<1>5. PairsTyped' /\ SearchInv' /\ HeldInv'
  BY <1>2, <1>4 DEF PairsInv, PairsTyped, SearchInv, HeldInv
<1>6. FindHolds'
  <2> SUFFICES ASSUME held.index # -1
               PROVE  held.value \in PairVector!Values(held.key)'
    BY <1>2 DEF FindHolds, PairVector!FindHolds
  <2>1. held.value \in PairVector!Values(held.key)
    BY DEF PairsInv, FindHolds, PairVector!FindHolds
  <2>2. PICK n \in P : vector[n][1] = held.key /\ vector[n][2] = held.value
    BY <2>1, ValueIsHeld
  <2>3. PICK m \in P : p[m] = n
    BY <1>1
  <2>4. vector'[m] = vector[n]
    BY <1>1, <2>3
  <2>5. m \in 1..Len(vector') /\ vector'[m][1] = held.key /\ vector'[m][2] = held.value
    BY <1>4, <2>2, <2>4
  <2>6. QED
    BY <1>2, <2>5 DEF PairVector!Values, PairVector!Positions
<1>7. QED
  BY <1>5, <1>6 DEF PairsInv

LEMMA PairsAnswer ==
  ASSUME PairsInv, PairVector!Same \/ PairVector!NotThere
  PROVE  PairsInv'
<1>1. UNCHANGED <<vector, sought, position>> /\ pairPc' = "idle" /\ sorted' = FALSE
  BY DEF PairVector!Same, PairVector!NotThere, PairVector!Answer
<1>2. /\ vector \in Seq(Key \X PairValue) /\ Len(vector) \in Nat /\ position \in Nat
  BY DEF PairsInv, PairsTyped
<1>3. CASE PairVector!NotThere
  <2>1. held' = [key |-> sought, index |-> -1, value |-> 0]
    BY <1>3 DEF PairVector!NotThere, PairVector!Answer
  <2>2. held'.index = -1
    BY <2>1
  <2>3. QED
    BY <1>1, <1>2, <2>2 DEF PairsInv, PairsTyped, SearchInv, HeldInv, FindHolds, PairVector!FindHolds
<1>4. CASE PairVector!Same
  <2>1. /\ position < Len(vector) /\ vector[position + 1][1] = sought /\ pairPc = "search"
        /\ held' = [key |-> sought, index |-> position, value |-> vector[position + 1][2]]
    BY <1>4 DEF PairVector!Same, PairVector!Answer, PairVector!Pair
  <2>2. vector[position + 1] \in Key \X PairValue /\ position + 1 \in 1..Len(vector)
    BY <1>2, <2>1
  <2>3. vector[position + 1] = <<sought, vector[position + 1][2]>>
    BY <2>1, <2>2
  <2>4. PairsTyped' /\ SearchInv' /\ HeldInv'
    BY <1>1, <1>2, <2>1 DEF PairsInv, PairsTyped, SearchInv, HeldInv
  <2>5. \A n \in 1..position : vector[n][1] # sought
    BY <2>1 DEF PairsInv, SearchInv
  <2>6. vector[position + 1][2] \in PairVector!Values(sought)'
    BY <1>1, <2>1, <2>2 DEF PairVector!Values, PairVector!Positions
  <2>7. FindHolds'
    BY <1>1, <2>1, <2>5, <2>6, <2>3 DEF FindHolds, PairVector!FindHolds
  <2>8. QED
    BY <2>4, <2>7 DEF PairsInv
<1>5. QED
  BY <1>3, <1>4

(***************************************************************************)
(* What vector_pair_key_find answered holds until it is asked again, the   *)
(* index until the vector is sorted, for vectors of any size.              *)
(***************************************************************************)
THEOREM PairsFound == PairVector!Spec => []FindHolds
<1>1. PairVector!Init => PairsInv
  <2> SUFFICES ASSUME PairVector!Init
               PROVE  PairsInv
    OBVIOUS
  <2>1. held.index = -1
    BY DEF PairVector!Init, PairVector!None
  <2>2. vector \in Seq(Key \X PairValue)
    BY DEF PairVector!Init
  <2>3. PairsTyped /\ SearchInv
    BY <2>1, <2>2 DEF PairVector!Init, PairsTyped, SearchInv
  <2>4. QED
    BY <2>1, <2>3 DEF PairsInv, HeldInv, FindHolds, PairVector!FindHolds
<1>2. PairsInv /\ [PairVector!Next]_(PairVector!vars) => PairsInv'
  <2> SUFFICES ASSUME PairsInv, [PairVector!Next]_(PairVector!vars)
               PROVE  PairsInv'
    OBVIOUS
  <2>1. CASE \E k \in Key, v \in PairValue : PairVector!PushBack(k, v)
    BY <2>1, PairsPushBack
  <2>2. CASE \E k \in Key : PairVector!vector_pair_key_find(k)
    <3>1. UNCHANGED <<vector, held, sorted>> /\ sought' \in Key /\ position' = 0 /\ pairPc' = "search"
      BY <2>2 DEF PairVector!vector_pair_key_find
    <3>2. FindHolds' /\ HeldInv'
      BY <3>1 DEF PairsInv, HeldInv, FindHolds, PairVector!FindHolds, PairVector!Values,
                  PairVector!Positions
    <3>3. PairsTyped' /\ SearchInv'
      BY <3>1, PairsAssumption DEF PairsInv, PairsTyped, SearchInv, PairVector!KeysAssumption
    <3>4. QED
      BY <3>2, <3>3 DEF PairsInv
  <2>3. CASE PairVector!Differ
    <3>1. /\ UNCHANGED <<vector, sought, pairPc, held, sorted>> /\ position' = position + 1
          /\ position < Len(vector) /\ vector[position + 1][1] # sought /\ pairPc = "search"
      BY <2>3 DEF PairVector!Differ, PairVector!Pair
    <3>2. FindHolds' /\ HeldInv'
      BY <3>1 DEF PairsInv, HeldInv, FindHolds, PairVector!FindHolds, PairVector!Values,
                  PairVector!Positions
    <3>3. PairsTyped' /\ SearchInv'
      BY <3>1 DEF PairsInv, PairsTyped, SearchInv
    <3>4. QED
      BY <3>2, <3>3 DEF PairsInv
  <2>4. CASE PairVector!Same \/ PairVector!NotThere
    BY <2>4, PairsAnswer
  <2>5. CASE PairVector!vector_pair_sort
    BY <2>5, PairsSort
  <2>6. CASE UNCHANGED PairVector!vars
    BY <2>6 DEF PairVector!vars, PairsInv, PairsTyped, SearchInv, HeldInv, FindHolds,
                PairVector!FindHolds, PairVector!Values, PairVector!Positions
  <2>7. QED
    BY <2>1, <2>2, <2>3, <2>4, <2>5, <2>6 DEF PairVector!Next
<1>3. QED
  BY <1>1, <1>2, PTL DEF PairsInv, PairVector!Spec

-------------------------------------------------------------------------------
(***************************************************************************)
(* The dumps.  What is printed is a sequence of labels and units; up to    *)
(* the offset each byte is in one unit, the unit is in the row of its      *)
(* bytes, and the last row is that of the offset unless it is complete.    *)
(***************************************************************************)
Entries == [is : {"label"}, at : Nat] \cup [is : {"unit"}, bytes : SUBSET Nat]

Row(s, n, label) == \E m \in 1..n : s[m] = label /\ \A j \in (m + 1)..n : s[j].is = "unit"

Holding(s, k) == {n \in DOMAIN s : s[n].is = "unit" /\ k \in s[n].bytes}

LEMMA LabelTyped ==
  ASSUME NEW n \in Nat
  PROVE  Dumping!Label(n) \in Entries /\ Dumping!Label(n).is # "unit"
<1>1. n % LabelMod \in Nat
  BY DumpsAssumption DEF Dumping!BoundsAssumption
<1>2. QED
  BY <1>1 DEF Dumping!Label, Entries

LEMMA UnitTyped ==
  ASSUME NEW n \in Nat, Dumping!unitLen \in Nat
  PROVE  /\ Dumping!Unit(n) \in Entries /\ Dumping!Unit(n).is = "unit"
         /\ Dumping!Unit(n).bytes = n..(n + Dumping!unitLen - 1)
<1>1. n..(n + Dumping!unitLen - 1) \in SUBSET Nat
  OBVIOUS
<1>2. QED
  BY <1>1 DEF Dumping!Unit, Entries

LEMMA Appended ==
  ASSUME NEW s \in Seq(Entries), NEW e \in Entries
  PROVE  /\ Append(s, e) \in Seq(Entries) /\ Len(s) \in Nat /\ Len(Append(s, e)) = Len(s) + 1
         /\ DOMAIN s = 1..Len(s) /\ DOMAIN Append(s, e) = 1..(Len(s) + 1)
         /\ \A n \in 1..Len(s) : Append(s, e)[n] = s[n]
         /\ Append(s, e)[Len(s) + 1] = e
OBVIOUS

\* Rows that are printed stay.
LEMMA RowStays ==
  ASSUME NEW s \in Seq(Entries), NEW e \in Entries, NEW n \in DOMAIN s, NEW label, Row(s, n, label)
  PROVE  Row(Append(s, e), n, label)
<1>1. PICK m \in 1..n : s[m] = label /\ \A j \in (m + 1)..n : s[j].is = "unit"
  BY DEF Row
<1>2. n \in 1..Len(s) /\ \A j \in 1..n : j \in 1..Len(s)
  OBVIOUS
<1>3. \A j \in 1..n : Append(s, e)[j] = s[j]
  BY <1>2, Appended
<1>4. m \in 1..n /\ Append(s, e)[m] = label /\ \A j \in (m + 1)..n : Append(s, e)[j].is = "unit"
  BY <1>1, <1>2, <1>3
<1>5. QED
  BY <1>4 DEF Row

\* A label starts a row.
LEMMA LabelStarts ==
  ASSUME NEW s \in Seq(Entries), NEW e \in Entries
  PROVE  Row(Append(s, e), Len(s) + 1, e)
<1>1. Len(s) + 1 \in 1..(Len(s) + 1) /\ Append(s, e)[Len(s) + 1] = e
  BY Appended
<1>2. \A j \in (Len(s) + 1 + 1)..(Len(s) + 1) : FALSE
  BY Appended
<1>3. QED
  BY <1>1, <1>2 DEF Row

\* A unit continues the row it is printed in.
LEMMA UnitContinues ==
  ASSUME NEW s \in Seq(Entries), NEW e \in Entries, e.is = "unit", NEW label, Row(s, Len(s), label)
  PROVE  Row(Append(s, e), Len(s) + 1, label)
<1>1. PICK m \in 1..Len(s) : s[m] = label /\ \A j \in (m + 1)..Len(s) : s[j].is = "unit"
  BY DEF Row
<1>2. Append(s, e)[m] = label /\ m \in 1..(Len(s) + 1)
  BY <1>1, Appended
<1>3. ASSUME NEW j \in (m + 1)..(Len(s) + 1)
      PROVE  Append(s, e)[j].is = "unit"
  <2>1. CASE j = Len(s) + 1
    BY <2>1, Appended
  <2>2. CASE j # Len(s) + 1
    <3>1. j \in (m + 1)..Len(s) /\ j \in 1..Len(s)
      BY <2>2, Appended
    <3>2. QED
      BY <1>1, <3>1, Appended
  <2>3. QED
    BY <2>1, <2>2
<1>4. QED
  BY <1>2, <1>3 DEF Row

LEMMA HoldingAppended ==
  ASSUME NEW s \in Seq(Entries), NEW e \in Entries, NEW k
  PROVE  Holding(Append(s, e), k) =
           IF e.is = "unit" /\ k \in e.bytes THEN Holding(s, k) \cup {Len(s) + 1} ELSE Holding(s, k)
<1> DEFINE t == Append(s, e)
<1>1. /\ Len(s) \in Nat /\ DOMAIN s = 1..Len(s) /\ DOMAIN t = 1..(Len(s) + 1)
      /\ t[Len(s) + 1] = e /\ \A n \in 1..Len(s) : t[n] = s[n]
  BY Appended
<1> HIDE DEF t
<1>2. 1..(Len(s) + 1) = 1..Len(s) \cup {Len(s) + 1} /\ Len(s) + 1 \notin 1..Len(s)
  BY <1>1
<1>3. Holding(t, k) = IF e.is = "unit" /\ k \in e.bytes THEN Holding(s, k) \cup {Len(s) + 1} ELSE Holding(s, k)
  BY <1>1, <1>2 DEF Holding
<1>4. QED
  BY <1>3 DEF t

-------------------------------------------------------------------------------
DumpTyped ==
  /\ len \in Nat /\ offset \in Nat /\ out \in Seq(Entries)
  /\ dumpPc \in {"start", "loop", "done"}

Whole(n) == n % Dumping!unitLen = 0

\* A unit that was printed.
UnitSound(bytes) ==
  \E b \in Nat : /\ Whole(b) /\ b < len /\ b + Dumping!unitLen <= offset
                 /\ bytes = b..(b + Dumping!unitLen - 1)

UnitsInv == \A n \in DOMAIN out : out[n].is = "unit" => UnitSound(out[n].bytes)

RowInv == offset = 0 \/ offset % 16 # 0 => Row(out, Len(out), Dumping!Label(offset - (offset % 16)))

\* Byte k was printed once, in its row.
Shown(s, k) ==
  \E n \in DOMAIN s :
    Holding(s, k) = {n} /\ Row(s, n, [is |-> "label", at |-> (k - (k % 16)) % LabelMod])

BytesInv == \A k \in 0..(offset - 1) : Shown(out, k)

Printed == Dumping!Format \in Dumping!Formats /\ Whole(offset) /\ UnitsInv /\ RowInv /\ BytesInv

DumpInv ==
  /\ DumpTyped
  /\ dumpPc = "start" => offset = 0 /\ out = <<>>
  /\ dumpPc = "loop" => Printed
  /\ dumpPc = "done" /\ Dumping!Format \in Dumping!Formats => Printed /\ offset >= len

UnitSizes == {1, 2, 4, 8}

LEMMA UnitLens ==
  ASSUME Dumping!Format \in Dumping!Formats
  PROVE  Dumping!unitLen \in UnitSizes /\ Dumping!unitLen \in Nat /\ Dumping!unitLen > 0
BY DEF Dumping!unitLen, Dumping!Formats, UnitSizes

\* The bytes of a unit are in one row.
LEMMA SameRow ==
  ASSUME NEW u \in UnitSizes, NEW n \in Nat, n % u = 0, NEW k \in n..(n + u - 1)
  PROVE  k - (k % 16) = n - (n % 16) /\ k - (k % u) = n
<1>1. CASE u = 1
  BY <1>1
<1>2. CASE u = 2
  BY <1>2
<1>3. CASE u = 4
  BY <1>3
<1>4. CASE u = 8
  BY <1>4
<1>5. QED
  BY <1>1, <1>2, <1>3, <1>4 DEF UnitSizes

\* After a unit that does not complete its row the next one is in that row.
LEMMA NextUnit ==
  ASSUME NEW u \in UnitSizes, NEW n \in Nat, n % u = 0
  PROVE  /\ (n + u) % u = 0
         /\ (n + u) % 16 # 0 => (n + u) - ((n + u) % 16) = n - (n % 16)
<1>1. CASE u = 1
  BY <1>1
<1>2. CASE u = 2
  BY <1>2
<1>3. CASE u = 4
  BY <1>3
<1>4. CASE u = 8
  BY <1>4
<1>5. QED
  BY <1>1, <1>2, <1>3, <1>4 DEF UnitSizes

LEMMA RowOffset == ASSUME NEW n \in Nat PROVE n - (n % 16) \in Nat /\ (n % 16 = 0 => n - (n % 16) = n)
OBVIOUS

LEMMA DumpStart ==
  ASSUME DumpInv, Dumping!Start
  PROVE  DumpInv'
<1>1. /\ offset = 0 /\ out = <<>> /\ len \in Nat /\ offset' = offset /\ len' = len
      /\ Dumping!Format' = Dumping!Format /\ Dumping!unitLen' = Dumping!unitLen
  BY DEF Dumping!Start, Dumping!args, DumpInv, DumpTyped, Dumping!Format, Dumping!unitLen
<1>2. CASE Dumping!Format \in Dumping!Formats
  <2> DEFINE l == Dumping!Label(0)
  <2>1. dumpPc' = "loop" /\ out' = <<l>>
    BY <1>2 DEF Dumping!Start
  <2>2. l \in Entries /\ l.is # "unit"
    BY LabelTyped
  <2> HIDE DEF l
  <2>3. out' \in Seq(Entries) /\ Len(out') = 1 /\ DOMAIN out' = 1..1 /\ out'[1] = l
    BY <2>1, <2>2
  <2>4. DumpTyped'
    BY <1>1, <2>1, <2>3 DEF DumpTyped
  <2>5. UnitsInv' /\ BytesInv'
    BY <1>1, <2>2, <2>3 DEF UnitsInv, BytesInv
  <2>6. (0 % 16) = 0 /\ 0 - (0 % 16) = 0
    OBVIOUS
  <2>7. Row(out', 1, l)
    <3>1. 1 \in 1..1 /\ out'[1] = l /\ \A j \in 2..1 : FALSE
      BY <2>3
    <3>2. QED
      BY <3>1 DEF Row
  <2>8. Dumping!Label(0)' = l
    BY DEF Dumping!Label, l
  <2>9. RowInv'
    BY <1>1, <2>3, <2>6, <2>7 DEF RowInv, Dumping!Label, l
  <2>10. (0 % Dumping!unitLen) = 0
    BY <1>2, UnitLens
  <2>11. Whole(offset)'
    BY <1>1, <2>10 DEF Whole
  <2>12. QED
    BY <1>1, <1>2, <2>1, <2>4, <2>5, <2>9, <2>11 DEF DumpInv, Printed, Dumping!Formats
<1>3. CASE Dumping!Format \notin Dumping!Formats
  <2>1. dumpPc' = "done" /\ out' = out
    BY <1>3 DEF Dumping!Start
  <2>2. QED
    BY <1>1, <1>3, <2>1 DEF DumpInv, DumpTyped, Dumping!Formats
<1>4. QED
  BY <1>2, <1>3

\* What is printed before the unit: a label where a row starts.
Labelled == IF Dumping!RowStarts /\ offset # 0 THEN Append(out, Dumping!Label(offset)) ELSE out

LEMMA LabelledSound ==
  ASSUME DumpTyped, Printed
  PROVE  /\ Labelled \in Seq(Entries)
         /\ Row(Labelled, Len(Labelled), Dumping!Label(offset - (offset % 16)))
         /\ \A k : Holding(Labelled, k) = Holding(out, k)
         /\ \A n \in DOMAIN out : \A m : Row(out, n, Dumping!Label(m)) => Row(Labelled, n, Dumping!Label(m))
         /\ DOMAIN out \subseteq DOMAIN Labelled
         /\ \A n \in DOMAIN Labelled : Labelled[n].is = "unit" => n \in DOMAIN out /\ Labelled[n] = out[n]
<1>1. offset \in Nat /\ out \in Seq(Entries)
  BY DEF DumpTyped
<1>2. CASE Dumping!RowStarts /\ offset # 0
  <2> DEFINE l == Dumping!Label(offset)
  <2>1. Labelled = Append(out, l) /\ offset % 16 = 0
    BY <1>2 DEF Labelled, Dumping!RowStarts
  <2>2. l \in Entries /\ l.is # "unit"
    BY <1>1, LabelTyped
  <2>3. l = Dumping!Label(offset - (offset % 16))
    BY <1>1, <2>1, RowOffset
  <2> HIDE DEF l
  <2>4. /\ Append(out, l) \in Seq(Entries) /\ Len(out) \in Nat /\ Len(Append(out, l)) = Len(out) + 1
        /\ DOMAIN out = 1..Len(out) /\ DOMAIN Append(out, l) = 1..(Len(out) + 1)
        /\ \A n \in 1..Len(out) : Append(out, l)[n] = out[n]
        /\ Append(out, l)[Len(out) + 1] = l
    BY <1>1, <2>2, Appended
  <2>5. Row(Append(out, l), Len(out) + 1, l)
    BY <1>1, <2>2, LabelStarts
  <2>6. \A k : Holding(Append(out, l), k) = Holding(out, k)
    BY <1>1, <2>2, HoldingAppended
  <2>7. \A n \in DOMAIN out : \A m : Row(out, n, Dumping!Label(m)) => Row(Append(out, l), n, Dumping!Label(m))
    BY <1>1, <2>2, RowStays
  <2>8. DOMAIN out \subseteq DOMAIN Append(out, l)
    BY <2>4
  <2>9. \A n \in DOMAIN Append(out, l) :
          Append(out, l)[n].is = "unit" => n \in DOMAIN out /\ Append(out, l)[n] = out[n]
    BY <2>2, <2>4
  <2>10. QED
    BY <2>1, <2>3, <2>4, <2>5, <2>6, <2>7, <2>8, <2>9
<1>3. CASE ~ (Dumping!RowStarts /\ offset # 0)
  BY <1>1, <1>3 DEF Labelled, Dumping!RowStarts, Printed, RowInv
<1>4. QED
  BY <1>2, <1>3

LEMMA DumpUnit ==
  ASSUME DumpInv, Dumping!Dump
  PROVE  DumpInv'
<1> DEFINE u == Dumping!unitLen
           e == Dumping!Unit(offset)
           s == Labelled
           t == Append(s, e)
<1>1. /\ dumpPc = "loop" /\ dumpPc' = "loop" /\ offset < len /\ out' = t /\ offset' = offset + u
      /\ len' = len /\ Dumping!Format' = Dumping!Format /\ Dumping!unitLen' = u
  BY DEF Dumping!Dump, Dumping!args, Dumping!Format, Dumping!unitLen, Labelled
<1>2. DumpTyped /\ Printed /\ offset \in Nat /\ len \in Nat
  BY <1>1 DEF DumpInv, DumpTyped
<1>3. u \in UnitSizes /\ u \in Nat /\ u > 0 /\ offset % u = 0
  BY <1>2, UnitLens DEF Printed, Whole
<1>4. e \in Entries /\ e.is = "unit" /\ e.bytes = offset..(offset + u - 1)
  BY <1>2, <1>3, UnitTyped
<1>5. /\ s \in Seq(Entries)
      /\ Row(s, Len(s), Dumping!Label(offset - (offset % 16)))
      /\ \A k : Holding(s, k) = Holding(out, k)
      /\ \A n \in DOMAIN out : \A m : Row(out, n, Dumping!Label(m)) => Row(s, n, Dumping!Label(m))
      /\ DOMAIN out \subseteq DOMAIN s
      /\ \A n \in DOMAIN s : s[n].is = "unit" => n \in DOMAIN out /\ s[n] = out[n]
  BY <1>2, LabelledSound
<1>6. \A m : Dumping!Label(m)' = Dumping!Label(m)
  BY DEF Dumping!Label
<1> HIDE DEF u, e, s
<1>7. /\ t \in Seq(Entries) /\ Len(s) \in Nat /\ Len(t) = Len(s) + 1
      /\ DOMAIN s = 1..Len(s) /\ DOMAIN t = 1..(Len(s) + 1)
      /\ \A n \in 1..Len(s) : t[n] = s[n]
      /\ t[Len(s) + 1] = e
  BY <1>4, <1>5, Appended
<1>8. Row(t, Len(s) + 1, Dumping!Label(offset - (offset % 16)))
  BY <1>4, <1>5, UnitContinues
<1>9. \A k : Holding(t, k) = IF k \in e.bytes THEN Holding(s, k) \cup {Len(s) + 1} ELSE Holding(s, k)
  BY <1>4, <1>5, HoldingAppended
<1>10. \A n \in DOMAIN out : \A m : Row(out, n, Dumping!Label(m)) => Row(t, n, Dumping!Label(m))
  BY <1>4, <1>5, RowStays
<1> HIDE DEF t
<1>11. DumpTyped'
  BY <1>1, <1>2, <1>3, <1>7 DEF DumpTyped
<1>12. (offset + u) % u = 0
  BY <1>2, <1>3, NextUnit
<1>13. Whole(offset)'
  BY <1>1, <1>12 DEF Whole
<1>14. UnitsInv'
  <2> SUFFICES ASSUME NEW n \in DOMAIN t, t[n].is = "unit"
               PROVE  \E b \in Nat : /\ b % u = 0 /\ b < len /\ b + u <= offset + u
                                     /\ t[n].bytes = b..(b + u - 1)
    BY <1>1 DEF UnitsInv, UnitSound, Whole
  <2>1. CASE n = Len(s) + 1
    BY <1>1, <1>2, <1>3, <1>4, <1>7, <2>1
  <2>2. CASE n # Len(s) + 1
    <3>1. n \in DOMAIN s /\ t[n] = s[n]
      BY <1>7, <2>2
    <3>2. n \in DOMAIN out /\ t[n] = out[n]
      BY <1>5, <3>1
    <3>3. UnitSound(out[n].bytes)
      BY <1>2, <3>2 DEF Printed, UnitsInv
    <3>4. PICK b \in Nat : b % u = 0 /\ b < len /\ b + u <= offset /\ out[n].bytes = b..(b + u - 1)
      BY <3>3 DEF UnitSound, Whole, u
    <3>5. b + u <= offset + u
      BY <1>2, <1>3, <3>4
    <3>6. QED
      BY <3>2, <3>4, <3>5
  <2>3. QED
    BY <2>1, <2>2
<1>15. RowInv'
  <2> SUFFICES ASSUME (offset + u) % 16 # 0
               PROVE  Row(t, Len(t), Dumping!Label((offset + u) - ((offset + u) % 16)))
    <3>1. offset + u # 0
      BY <1>2, <1>3
    <3>2. QED
      BY <1>1, <1>6, <3>1 DEF RowInv
  <2>1. (offset + u) - ((offset + u) % 16) = offset - (offset % 16)
    BY <1>2, <1>3, NextUnit, Zenon
  <2>2. QED
    BY <1>7, <1>8, <2>1
<1>16. BytesInv'
  <2> SUFFICES ASSUME NEW k \in 0..(offset' - 1)
               PROVE  Shown(t, k)
    <3>1. \A k : Shown(out, k)' <=> Shown(t, k)
      BY <1>1 DEF Shown, Holding, Row
    <3>2. QED
      BY <3>1 DEF BytesInv
  <2>4. k \in 0..(offset + u - 1)
    BY <1>1, <1>2, <1>3
  <2>1. CASE k < offset
    <3>1. k \in 0..(offset - 1) /\ k \notin e.bytes
      BY <1>2, <1>3, <1>4, <2>1, <2>4
    <3>2. PICK n \in DOMAIN out : Holding(out, k) = {n} /\ Row(out, n, Dumping!Label(k - (k % 16)))
      BY <1>2, <3>1 DEF Printed, BytesInv, Shown, Dumping!Label
    <3>3. Holding(t, k) = {n}
      BY <1>5, <1>9, <3>1, <3>2
    <3>4. Row(t, n, Dumping!Label(k - (k % 16)))
      BY <1>10, <3>2
    <3>5. n \in DOMAIN t
      BY <1>5, <1>7
    <3>6. QED
      BY <3>3, <3>4, <3>5 DEF Shown, Dumping!Label
  <2>2. CASE k >= offset
    <3>1. k \in offset..(offset + u - 1) /\ k \in e.bytes
      BY <1>2, <1>3, <1>4, <2>2, <2>4
    <3>2. k - (k % 16) = offset - (offset % 16)
      <4>1. u \in UnitSizes /\ offset \in Nat /\ offset % u = 0 /\ k \in offset..(offset + u - 1)
        BY <1>2, <1>3, <3>1
      <4>2. QED
        BY <4>1, SameRow
    <3>3. Holding(out, k) = {}
      <4> SUFFICES ASSUME NEW n \in DOMAIN out, out[n].is = "unit", k \in out[n].bytes
                   PROVE  FALSE
        BY DEF Holding
      <4>1. UnitSound(out[n].bytes)
        BY <1>2 DEF Printed, UnitsInv
      <4>2. PICK b \in Nat : b + u <= offset /\ out[n].bytes = b..(b + u - 1)
        BY <4>1 DEF UnitSound, u
      <4>3. QED
        BY <1>2, <1>3, <2>2, <4>2
    <3>4. Holding(t, k) = {Len(s) + 1}
      BY <1>5, <1>9, <3>1, <3>3
    <3>5. Len(s) + 1 \in DOMAIN t
      BY <1>7
    <3>6. QED
      BY <1>8, <3>2, <3>4, <3>5 DEF Shown, Dumping!Label
  <2>3. QED
    BY <1>2, <2>1, <2>2, <2>4
<1>17. Printed'
  BY <1>1, <1>2, <1>13, <1>14, <1>15, <1>16 DEF Printed, Dumping!Formats
<1>18. QED
  BY <1>1, <1>11, <1>17 DEF DumpInv

LEMMA DumpEnd ==
  ASSUME DumpInv, Dumping!End \/ UNCHANGED Dumping!vars
  PROVE  DumpInv'
<1>1. /\ UNCHANGED <<len, offset, out>> /\ Dumping!Format' = Dumping!Format
      /\ Dumping!unitLen' = Dumping!unitLen
  BY DEF Dumping!End, Dumping!vars, Dumping!args, Dumping!Format, Dumping!unitLen
<1>2. Printed' = Printed
  BY <1>1 DEF Printed, Whole, UnitsInv, UnitSound, RowInv, BytesInv, Shown, Dumping!Label, Dumping!Formats
<1>3. QED
  BY <1>1, <1>2 DEF DumpInv, DumpTyped, Dumping!End, Dumping!vars, Dumping!Formats

(***************************************************************************)
(* hexdump and dumpMem print every byte once, in the right row, and read   *)
(* nothing past the last unit, for every length and format.                *)
(***************************************************************************)
THEOREM DumpsExact == Dumping!Spec => []DumpExact
<1>1. Dumping!Init => DumpInv
  <2> SUFFICES ASSUME Dumping!Init
               PROVE  DumpInv
    OBVIOUS
  <2>1. out = <<>> /\ offset = 0 /\ dumpPc = "start" /\ len \in Nat
    <3>1. len \in 0..MaxLen /\ out = <<>> /\ offset = 0 /\ dumpPc = "start"
      BY DEF Dumping!Init
    <3>2. QED
      BY <3>1, DumpsAssumption DEF Dumping!BoundsAssumption
  <2>2. <<>> \in Seq(Entries)
    OBVIOUS
  <2>3. QED
    BY <2>1, <2>2 DEF DumpInv, DumpTyped
<1>2. DumpInv /\ [Dumping!Next]_(Dumping!vars) => DumpInv'
  BY DumpStart, DumpUnit, DumpEnd DEF Dumping!Next
<1>3. DumpInv => DumpExact
  <2> SUFFICES ASSUME DumpInv, dumpPc = "done", Dumping!Format \in Dumping!Formats
               PROVE  DumpExact
    BY DEF DumpExact, Dumping!DumpExact
  <2>1. Printed /\ offset >= len /\ offset \in Nat /\ len \in Nat
    BY DEF DumpInv, DumpTyped
  <2>2. \A k \in 0..(len - 1) :
          \E n \in DOMAIN out : Dumping!Printing(k) = {n} /\ Dumping!InRow(n, Dumping!Label(k - (k % 16)))
    <3> TAKE k \in 0..(len - 1)
    <3>1. k \in 0..(offset - 1)
      BY <2>1
    <3>2. PICK n \in DOMAIN out : Holding(out, k) = {n} /\ Row(out, n, Dumping!Label(k - (k % 16)))
      BY <2>1, <3>1 DEF Printed, BytesInv, Shown, Dumping!Label
    <3>3. Dumping!Printing(k) = {n} /\ Dumping!InRow(n, Dumping!Label(k - (k % 16)))
      BY <3>2 DEF Dumping!Printing, Dumping!InRow, Holding, Row
    <3>4. QED
      BY <3>3
  <2>3. \A n \in DOMAIN out : out[n].is = "unit" =>
          \A k \in out[n].bytes : k - (k % Dumping!unitLen) < len
    <3> TAKE n \in DOMAIN out
    <3> SUFFICES ASSUME out[n].is = "unit", NEW k \in out[n].bytes
                 PROVE  k - (k % Dumping!unitLen) < len
      OBVIOUS
    <3>1. UnitSound(out[n].bytes)
      BY <2>1 DEF Printed, UnitsInv
    <3>2. PICK b \in Nat : /\ b % Dumping!unitLen = 0 /\ b < len
                           /\ out[n].bytes = b..(b + Dumping!unitLen - 1)
      BY <3>1 DEF UnitSound, Whole
    <3>3. Dumping!unitLen \in UnitSizes /\ k \in b..(b + Dumping!unitLen - 1)
      BY <3>2, UnitLens
    <3>4. k - (k % Dumping!unitLen) = b
      BY <3>2, <3>3, SameRow
    <3>5. QED
      BY <3>2, <3>4
  <2>4. ~ (windows /\ prefixed /\ Dumping!Format = "q") => Dumping!FormatRoom <= 10
    BY DEF Dumping!FormatRoom, Dumping!Formats
  <2>5. QED
    BY <2>2, <2>3, <2>4 DEF DumpExact, Dumping!DumpExact
<1>4. QED
  BY <1>1, <1>2, <1>3, PTL DEF Dumping!Spec

-------------------------------------------------------------------------------
(***************************************************************************)
(* The JSON walk.  The nodes are numbered in the order of the text, so     *)
(* what has been visited is always the nodes below some number F; the      *)
(* activations go through the nodes of a path c, each is at its first      *)
(* entry from F on, and whatever is left is below F's successors or an     *)
(* entry of a node of the path.                                            *)
(***************************************************************************)
Type(n) == d.type[n]

Parent(n) == d.parent[n]

Nests(type) == type \in {"object", "array"}

LEMMA DocumentNodes ==
  ASSUME Json!Document(d)
  PROVE  /\ Len(d.type) \in Nat /\ 1 \in Json!Nodes /\ Type(1) = "object" /\ Json!Nodes \subseteq Nat \ {0}
         /\ \A n \in Json!Nodes : Type(n) \in {"scalar", "null", "object", "array"}
         /\ \A n \in Json!Nodes \ {1} :
              /\ Parent(n) \in Json!Nodes /\ Parent(n) < n /\ Nests(Type(Parent(n)))
              /\ \A j \in Json!Nodes : Parent(n) < j /\ j < n => Parent(j) >= Parent(n)
<1>1. /\ d.type \in Seq({"scalar", "null", "object", "array"}) /\ d.type # <<>> /\ d.type[1] = "object"
      /\ \A n \in 2..Len(d.type) :
           /\ d.parent[n] \in 1..(n - 1) /\ d.type[d.parent[n]] \in {"object", "array"}
           /\ \A j \in (d.parent[n] + 1)..(n - 1) : d.parent[j] >= d.parent[n]
  BY DEF Json!Document
<1>2. Len(d.type) \in Nat /\ Len(d.type) >= 1
  BY <1>1
<1>3. \A n \in 1..Len(d.type) : d.type[n] \in {"scalar", "null", "object", "array"}
  BY <1>1
<1>4. ASSUME NEW n \in Json!Nodes \ {1}
      PROVE  /\ Parent(n) \in Json!Nodes /\ Parent(n) < n /\ Nests(Type(Parent(n)))
             /\ \A j \in Json!Nodes : Parent(n) < j /\ j < n => Parent(j) >= Parent(n)
  <2>1. n \in 2..Len(d.type) /\ n \in Nat
    BY <1>2 DEF Json!Nodes
  <2>2. /\ d.parent[n] \in 1..(n - 1) /\ d.type[d.parent[n]] \in {"object", "array"}
        /\ \A j \in (d.parent[n] + 1)..(n - 1) : d.parent[j] >= d.parent[n]
    BY <1>1, <2>1
  <2>3. \A j \in Json!Nodes : d.parent[n] < j /\ j < n => j \in (d.parent[n] + 1)..(n - 1)
    BY <1>2, <2>1, <2>2 DEF Json!Nodes
  <2>4. d.parent[n] \in 1..Len(d.type) /\ d.parent[n] < n
    BY <1>2, <2>1, <2>2
  <2>5. QED
    BY <2>2, <2>3, <2>4 DEF Parent, Type, Nests, Json!Nodes
<1>5. QED
  BY <1>1, <1>2, <1>3, <1>4 DEF Type, Json!Nodes

LEMMA KeysDiffer ==
  ASSUME Json!Document(d), NEW j \in Json!Nodes \ {1}, NEW n \in Json!Nodes \ {1},
         Parent(j) = Parent(n), Type(Parent(n)) = "object", d.key[j] = d.key[n]
  PROVE  j = n
<1>1. \A x, y \in 2..Len(d.type) :
        d.parent[x] = d.parent[y] /\ d.type[d.parent[y]] = "object" /\ d.key[x] = d.key[y] => x = y
  BY DEF Json!Document
<1>2. j \in 2..Len(d.type) /\ n \in 2..Len(d.type)
  BY DocumentNodes DEF Json!Nodes
<1>3. QED
  BY <1>1, <1>2 DEF Parent, Type

LEMMA LowestOf ==
  ASSUME NEW S \in SUBSET Nat
  PROVE  /\ S = {} => Json!Lowest(S) = NULL
         /\ S # {} => Json!Lowest(S) \in S /\ \A j \in S : Json!Lowest(S) <= j
         /\ Json!Lowest(S) \in Nat \cup {NULL}
<1>1. ASSUME S # {}
      PROVE  \E k \in S : \A j \in S : k <= j
  <2>1. PICK k \in S : \A j \in S : ~ (<<j, k>> \in OpToRel(<, Nat))
    BY <1>1, NatLessThanWellFounded, WFMin
  <2>2. OpToRel(<, Nat) = {x \in Nat \X Nat : x[1] < x[2]}
    BY DEF OpToRel
  <2>3. ASSUME NEW j \in S
        PROVE  k <= j
    <3>1. j \in Nat /\ k \in Nat
      OBVIOUS
    <3>2. ~ (<<j, k>> \in {x \in Nat \X Nat : x[1] < x[2]})
      BY <2>1, <2>2
    <3>3. QED
      BY <3>1, <3>2
  <2>4. QED
    BY <2>3
<1>2. S # {} => Json!Lowest(S) \in S /\ \A j \in S : Json!Lowest(S) <= j
  BY <1>1 DEF Json!Lowest
<1>3. S = {} => Json!Lowest(S) = NULL
  BY DEF Json!Lowest
<1>4. QED
  BY <1>2, <1>3

LEMMA LowestIs ==
  ASSUME NEW S \in SUBSET Nat, NEW k \in S, \A j \in S : k <= j
  PROVE  Json!Lowest(S) = k
<1>1. Json!Lowest(S) \in Nat /\ k \in Nat /\ Json!Lowest(S) <= k /\ k <= Json!Lowest(S)
  BY LowestOf
<1>2. QED
  BY <1>1

LEMMA NullIsNoNode == NULL \notin Nat
BY DocumentsAssumption DEF Json!DocsAssumption

LEMMA KidsAreNodes ==
  ASSUME Json!Document(d), NEW n
  PROVE  Json!Kids(n) \in SUBSET Nat /\ \A k \in Json!Kids(n) : k \in Json!Nodes \ {1} /\ Parent(k) = n
BY DocumentNodes DEF Json!Kids, Parent

-------------------------------------------------------------------------------
\* The entries of n from F on.
From(n, F) == {j \in Json!Kids(n) : j >= F}

\* An activation that goes through n.
Level(a, n, F) ==
  /\ n \in Json!Nodes /\ n < F /\ Nests(Type(n))
  /\ a.cur = Json!Lowest(From(n, F))
  /\ a.fn = "json_parse" <=> Type(n) = "object"
  /\ a.jobj = n \/ (Type(n) = "object" /\ \E k \in Json!Kids(n) : k < F /\ Type(k) = "object")

Path(c, F) ==
  /\ \A m, n \in 1..Len(c) : m < n => c[m] < c[n]
  /\ \A n \in Json!Nodes : n >= F => Parent(n) >= F \/ \E m \in 1..Len(c) : c[m] = Parent(n)

\* What is printed when the nodes below F have been visited.
PrintedTo(q, F) ==
  /\ {q[m] : m \in DOMAIN q} = {n \in Json!Nodes : n < F /\ Type(n) = "scalar"}
  /\ \A m, n \in DOMAIN q : m < n => q[m] < q[n]

LEMMA FromTyped ==
  ASSUME Json!Document(d), NEW n, NEW F \in Nat
  PROVE  From(n, F) \in SUBSET Nat
BY KidsAreNodes DEF From

LEMMA LevelStays ==
  ASSUME Json!Document(d), NEW F \in Json!Nodes \ {1}, NEW a, NEW n, Level(a, n, F), Parent(F) # n
  PROVE  Level(a, n, F + 1)
<1>1. F \in Nat /\ n \in Nat /\ Json!Kids(n) \in SUBSET Nat /\ \A k \in Json!Kids(n) : Parent(k) = n
  BY DocumentNodes, KidsAreNodes DEF Level
<1>2. From(n, F + 1) = From(n, F)
  BY <1>1 DEF From
<1>3. QED
  BY <1>1, <1>2 DEF Level

LEMMA LevelMoves ==
  ASSUME Json!Document(d), NEW F \in Json!Nodes \ {1}, NEW a, NEW n, Level(a, n, F), Parent(F) = n,
         NEW b, b.fn = a.fn, b.cur = Json!NextKid(F),
         b.jobj = a.jobj \/ (Type(n) = "object" /\ Type(F) = "object")
  PROVE  Level(b, n, F + 1)
<1>1. /\ F \in Nat /\ n \in Nat /\ Json!Kids(n) \in SUBSET Nat /\ F \in Json!Kids(n)
  BY DocumentNodes, KidsAreNodes DEF Level, Json!Kids, Parent
<1>2. {j \in Json!Kids(n) : j > F} = From(n, F + 1)
  BY <1>1 DEF From
<1>3. b.cur = Json!Lowest(From(n, F + 1))
  BY <1>2 DEF Json!NextKid, Parent
<1>4. b.jobj = n \/ (Type(n) = "object" /\ \E k \in Json!Kids(n) : k < F + 1 /\ Type(k) = "object")
  BY <1>1 DEF Level
<1>5. QED
  BY <1>1, <1>3, <1>4 DEF Level

LEMMA LevelNew ==
  ASSUME Json!Document(d), NEW n \in Json!Nodes, Nests(Type(n)), NEW fn_,
         fn_ = "json_parse" <=> Type(n) = "object"
  PROVE  Level(Json!Called(fn_, n), n, n + 1)
<1>1. n \in Nat /\ \A k \in Json!Kids(n) : k \in Nat /\ k > n
  BY DocumentNodes, KidsAreNodes
<1>2. From(n, n + 1) = Json!Kids(n)
  BY <1>1 DEF From
<1>3. QED
  BY <1>1, <1>2 DEF Level, Json!Called, Json!FirstKid

LEMMA PathLeaf ==
  ASSUME Json!Document(d), NEW F \in Json!Nodes \ {1}, NEW c, Path(c, F), ~ Nests(Type(F))
  PROVE  Path(c, F + 1)
<1>1. F \in Nat /\ F > 1 /\ \A n \in Json!Nodes : n \in Nat
  BY DocumentNodes
<1>2. \A n \in Json!Nodes \ {1} : Parent(n) # F /\ Parent(n) \in Nat
  BY DocumentNodes
<1>3. ASSUME NEW n \in Json!Nodes, n >= F + 1
      PROVE  Parent(n) >= F + 1 \/ \E m \in 1..Len(c) : c[m] = Parent(n)
  <2>1. n # 1 /\ n >= F
    BY <1>1, <1>3
  <2>2. Parent(n) >= F \/ \E m \in 1..Len(c) : c[m] = Parent(n)
    BY <2>1 DEF Path
  <2>3. QED
    BY <1>1, <1>2, <2>1, <2>2
<1>4. QED
  BY <1>3 DEF Path

LEMMA PathEnter ==
  ASSUME Json!Document(d), NEW F \in Json!Nodes \ {1}, NEW c \in Seq(Nat), Path(c, F),
         \A m \in 1..Len(c) : c[m] < F
  PROVE  Path(Append(c, F), F + 1)
<1> DEFINE t == Append(c, F)
<1>1. F \in Nat /\ F > 1 /\ \A n \in Json!Nodes : n \in Nat
  BY DocumentNodes
<1>2. /\ Len(c) \in Nat /\ Len(t) = Len(c) + 1 /\ t[Len(c) + 1] = F
      /\ \A m \in 1..Len(c) : t[m] = c[m] /\ c[m] \in Nat
  BY <1>1
<1> HIDE DEF t
<1>3. ASSUME NEW m \in 1..Len(t), NEW n \in 1..Len(t), m < n
      PROVE  t[m] < t[n]
  <2>1. m \in 1..Len(c)
    BY <1>2, <1>3
  <2>2. CASE n = Len(c) + 1
    BY <1>2, <2>1, <2>2
  <2>3. CASE n # Len(c) + 1
    <3>1. n \in 1..Len(c)
      BY <1>2, <2>3
    <3>2. QED
      BY <1>2, <1>3, <2>1, <3>1 DEF Path
  <2>4. QED
    BY <2>2, <2>3
<1>4. ASSUME NEW n \in Json!Nodes, n >= F + 1
      PROVE  Parent(n) >= F + 1 \/ \E m \in 1..Len(t) : t[m] = Parent(n)
  <2>1. n # 1 /\ n >= F
    BY <1>1, <1>4
  <2>2. Parent(n) \in Nat
    BY <2>1, DocumentNodes
  <2>3. CASE Parent(n) = F
    BY <1>2, <2>3
  <2>4. CASE Parent(n) # F
    <3>1. Parent(n) >= F \/ \E m \in 1..Len(c) : c[m] = Parent(n)
      BY <2>1 DEF Path
    <3>2. CASE Parent(n) >= F
      BY <1>1, <2>2, <2>4, <3>2
    <3>3. CASE \E m \in 1..Len(c) : c[m] = Parent(n)
      BY <1>2, <3>3
    <3>4. QED
      BY <3>1, <3>2, <3>3
  <2>5. QED
    BY <2>3, <2>4
<1>5. QED
  BY <1>3, <1>4 DEF Path, t

LEMMA PathReturn ==
  ASSUME Json!Document(d), NEW F \in Nat, F > 1, NEW c, NEW t, Path(c, F),
         Len(c) \in Nat \ {0}, Len(t) = Len(c) - 1, \A m \in 1..Len(t) : t[m] = c[m],
         From(c[Len(c)], F) = {}
  PROVE  Path(t, F)
<1>1. \A m \in 1..Len(t) : m \in 1..Len(c)
  OBVIOUS
<1>2. \A m, n \in 1..Len(t) : m < n => t[m] < t[n]
  BY <1>1 DEF Path
<1>3. ASSUME NEW n \in Json!Nodes, n >= F
      PROVE  Parent(n) >= F \/ \E m \in 1..Len(t) : t[m] = Parent(n)
  <2>1. n \in Nat /\ n # 1
    BY <1>3, DocumentNodes
  <2>2. Parent(n) # c[Len(c)]
    BY <1>3, <2>1 DEF From, Json!Kids, Parent
  <2>3. ASSUME NEW m \in 1..Len(c), c[m] = Parent(n)
        PROVE  m \in 1..Len(t) /\ t[m] = Parent(n)
    BY <2>2, <2>3
  <2>4. QED
    BY <1>3, <2>3 DEF Path
<1>4. QED
  BY <1>2, <1>3 DEF Path

-------------------------------------------------------------------------------
Cursors == Nat \cup {NULL}

Frames == [fn : {"json_parse", "json_parse_array"}, jobj : Nat, cur : Cursors]

WalkTyped ==
  /\ Json!Document(d) /\ stack \in Seq(Frames) /\ printed \in Seq(Nat)
  /\ jsonPc \in {"run", "done", "undefined"}
  /\ jsonPc = "run" => stack # <<>>

WalkAt(F, c) ==
  /\ F > 1 /\ Len(c) = Len(stack)
  /\ \A m \in 1..Len(c) : Level(stack[m], c[m], F)
  /\ Path(c, F) /\ PrintedTo(printed, F)

WholeInv ==
  ~ Json!Misled =>
    /\ jsonPc # "undefined" /\ (jsonPc = "done" => stack = <<>>)
    /\ \E F \in Nat : \E c \in Seq(Nat) : WalkAt(F, c)

LEMMA SameLevel ==
  ASSUME d' = d, NEW F, NEW n, NEW m, Level(stack'[m], n, F)
  PROVE  Level(stack[m], n, F)'
<1>1. Json!Nodes' = Json!Nodes /\ Json!Kids(n)' = Json!Kids(n) /\ From(n, F)' = From(n, F)
  BY DEF Json!Nodes, Json!Kids, From
<1>2. Json!Lowest(From(n, F))' = Json!Lowest(From(n, F))
  BY <1>1 DEF Json!Lowest
<1>3. Type(n)' = Type(n) /\ \A k : Type(k)' = Type(k)
  BY DEF Type
<1>4. QED
  BY <1>1, <1>2, <1>3 DEF Level, Nests

\* What holds of the next activations, along the same document.
LEMMA WalkNext ==
  ASSUME d' = d, NEW F, NEW c, F > 1, Len(c) = Len(stack'),
         \A m \in 1..Len(c) : Level(stack'[m], c[m], F), Path(c, F),
         PrintedTo(printed', F)
  PROVE  WalkAt(F, c)'
<1>1. Path(c, F)'
  BY DEF Path, Json!Nodes, Parent
<1>2. PrintedTo(printed, F)'
  BY DEF PrintedTo, Json!Nodes, Type
<1>3. ASSUME NEW m \in 1..Len(c)
      PROVE  Level(stack[m], c[m], F)'
  BY SameLevel
<1>4. QED
  BY <1>1, <1>2, <1>3 DEF WalkAt

LEMMA SameDocument ==
  ASSUME d' = d
  PROVE  /\ Json!Document(d)' <=> Json!Document(d)
         /\ Json!Misled' <=> Json!Misled
<1>1. Json!Misled' <=> Json!Misled
  BY DEF Json!Misled, Json!Nodes
<1>2. Json!Document(d)' <=> Json!Document(d)
  BY DEF Json!Document
<1>3. QED
  BY <1>1, <1>2

-------------------------------------------------------------------------------
LEMMA FrontOf ==
  ASSUME NEW s \in Seq(Frames), s # <<>>
  PROVE  /\ Json!Front(s) \in Seq(Frames) /\ Len(s) \in Nat \ {0} /\ Len(Json!Front(s)) = Len(s) - 1
         /\ \A m \in 1..(Len(s) - 1) : Json!Front(s)[m] = s[m]
<1>1. Len(s) \in Nat \ {0} /\ \A m \in 1..(Len(s) - 1) : s[m] \in Frames
  OBVIOUS
<1> DEFINE n == Len(s) - 1
<1>2. n \in Nat
  BY <1>1
<1> HIDE DEF n
<1>3. /\ SubSeq(s, 1, n) \in Seq(Frames) /\ Len(SubSeq(s, 1, n)) = IF 1 <= n THEN n - 1 + 1 ELSE 0
      /\ \A m \in 1..(n - 1 + 1) : SubSeq(s, 1, n)[m] = s[1 + m - 1]
  BY <1>1, <1>2, SubSeqProperties DEF n
<1>4. Len(SubSeq(s, 1, n)) = n
  BY <1>2, <1>3
<1>5. ASSUME NEW m \in 1..n
      PROVE  SubSeq(s, 1, n)[m] = s[m]
  <2>1. m \in 1..(n - 1 + 1) /\ 1 + m - 1 = m
    BY <1>2
  <2>2. QED
    BY <1>3, <2>1
<1>6. QED
  BY <1>1, <1>3, <1>4, <1>5 DEF Json!Front, n

LEMMA Replaced ==
  ASSUME NEW s \in Seq(Frames), s # <<>>, NEW a \in Frames
  PROVE  /\ Json!Front(s) \o <<a>> \o <<>> \in Seq(Frames)
         /\ Len(Json!Front(s) \o <<a>> \o <<>>) = Len(s)
         /\ (Json!Front(s) \o <<a>> \o <<>>)[Len(s)] = a
         /\ \A m \in 1..(Len(s) - 1) : (Json!Front(s) \o <<a>> \o <<>>)[m] = s[m]
<1> DEFINE f == Json!Front(s)
<1>1. /\ f \in Seq(Frames) /\ Len(s) \in Nat \ {0} /\ Len(f) = Len(s) - 1
      /\ \A m \in 1..(Len(s) - 1) : f[m] = s[m]
  BY FrontOf
<1> HIDE DEF f
<1>2. f \o <<a>> \o <<>> = Append(f, a)
  BY <1>1
<1>3. /\ Append(f, a) \in Seq(Frames) /\ Len(Append(f, a)) = Len(s) /\ Append(f, a)[Len(s)] = a
      /\ \A m \in 1..(Len(s) - 1) : Append(f, a)[m] = s[m]
  BY <1>1
<1>4. QED
  BY <1>2, <1>3 DEF f

Pushed(s, a, b) == Json!Front(s) \o <<a>> \o <<b>>

PushedWell(s, a, b, t) ==
  /\ t \in Seq(Frames) /\ Len(t) = Len(s) + 1 /\ t[Len(s)] = a /\ t[Len(s) + 1] = b
  /\ \A m \in 1..(Len(s) - 1) : t[m] = s[m]

LEMMA Entered ==
  ASSUME NEW s \in Seq(Frames), s # <<>>, NEW a \in Frames, NEW b \in Frames
  PROVE  PushedWell(s, a, b, Pushed(s, a, b))
<1> DEFINE f == Json!Front(s)
<1>1. /\ f \in Seq(Frames) /\ Len(s) \in Nat \ {0} /\ Len(f) = Len(s) - 1
      /\ \A m \in 1..(Len(s) - 1) : f[m] = s[m]
  BY FrontOf
<1> HIDE DEF f
<1>2. f \o <<a>> \o <<b>> = Append(Append(f, a), b)
  BY <1>1
<1>3. /\ Append(f, a) \in Seq(Frames) /\ Len(Append(f, a)) = Len(s) /\ Append(f, a)[Len(s)] = a
      /\ \A m \in 1..(Len(s) - 1) : Append(f, a)[m] = s[m]
  BY <1>1
<1> DEFINE g == Append(f, a)
<1> HIDE DEF g
<1>4. g \in Seq(Frames) /\ Len(g) = Len(s) /\ g[Len(s)] = a /\ \A m \in 1..(Len(s) - 1) : g[m] = s[m]
  BY <1>3 DEF g
<1>5. /\ Append(g, b) \in Seq(Frames) /\ Len(Append(g, b)) = Len(s) + 1
      /\ Append(g, b)[Len(s)] = a /\ Append(g, b)[Len(s) + 1] = b
      /\ \A m \in 1..(Len(s) - 1) : Append(g, b)[m] = s[m]
  BY <1>1, <1>4
<1>6. QED
  BY <1>2, <1>5 DEF f, g, Pushed, PushedWell

Moved(a, j, x) == [a EXCEPT !.jobj = j, !.cur = x]

LEMMA FrameMoved ==
  ASSUME NEW a \in Frames, NEW j \in Nat, NEW x \in Cursors
  PROVE  /\ Moved(a, j, x) \in Frames /\ Moved(a, j, x).fn = a.fn
         /\ Moved(a, j, x).jobj = j /\ Moved(a, j, x).cur = x
BY DEF Frames, Moved

LEMMA NextTyped ==
  ASSUME Json!Document(d), NEW n
  PROVE  Json!NextKid(n) \in Cursors /\ Json!FirstKid(n) \in Cursors
<1>1. {j \in Json!Kids(d.parent[n]) : j > n} \in SUBSET Nat /\ Json!Kids(n) \in SUBSET Nat
  BY KidsAreNodes
<1>2. QED
  BY <1>1, LowestOf DEF Json!NextKid, Json!FirstKid, Cursors

LEMMA CalledTyped ==
  ASSUME Json!Document(d), NEW n \in Nat, NEW f \in {"json_parse", "json_parse_array"}
  PROVE  /\ Json!Called(f, n) \in Frames /\ Json!Called(f, n).fn = f
         /\ Json!Called(f, n).jobj = n /\ Json!Called(f, n).cur = Json!FirstKid(n)
BY NextTyped DEF Json!Called, Frames

\* The activation in front.
LEMMA TopTyped ==
  ASSUME WalkTyped, jsonPc = "run"
  PROVE  /\ Json!Top = stack[Len(stack)] /\ Json!Top \in Frames /\ Len(stack) \in Nat \ {0}
         /\ Json!Top.jobj \in Nat /\ Json!Top.cur \in Cursors
         /\ Json!Top.fn \in {"json_parse", "json_parse_array"}
<1>1. stack \in Seq(Frames) /\ stack # <<>>
  BY DEF WalkTyped
<1>2. Json!Top = stack[Len(stack)]
  BY DEF Json!Top, Json!Last
<1>3. Len(stack) \in Nat \ {0} /\ stack[Len(stack)] \in Frames
  BY <1>1
<1>4. QED
  BY <1>2, <1>3 DEF Frames

\* The rest of a loop body that called nothing.
LEMMA WentOn ==
  ASSUME WalkTyped, jsonPc = "run", NEW j \in Nat, Json!Continue(j, <<>>)
  PROVE  /\ stack' \in Seq(Frames) /\ Len(stack') = Len(stack)
         /\ \A m \in 1..(Len(stack) - 1) : stack'[m] = stack[m]
         /\ stack'[Len(stack)].fn = Json!Top.fn /\ stack'[Len(stack)].jobj = j
         /\ stack'[Len(stack)].cur = Json!NextKid(Json!Top.cur)
<1> DEFINE a == Moved(Json!Top, j, Json!NextKid(Json!Top.cur))
<1>1. stack' = Json!Front(stack) \o <<a>> \o <<>>
  BY DEF Json!Continue, Moved
<1>2. Json!NextKid(Json!Top.cur) \in Cursors /\ Json!Top \in Frames
  BY NextTyped, TopTyped DEF WalkTyped
<1>3. a \in Frames /\ a.fn = Json!Top.fn /\ a.jobj = j /\ a.cur = Json!NextKid(Json!Top.cur)
  BY <1>2, FrameMoved
<1> HIDE DEF a
<1>4. stack \in Seq(Frames) /\ stack # <<>>
  BY DEF WalkTyped
<1>5. /\ stack' \in Seq(Frames) /\ Len(stack') = Len(stack) /\ stack'[Len(stack)] = a
      /\ \A m \in 1..(Len(stack) - 1) : stack'[m] = stack[m]
  BY <1>1, <1>3, <1>4, Replaced
<1>6. QED
  BY <1>3, <1>5

\* The rest of a loop body that called fn for the node n.
LEMMA WentInto ==
  ASSUME WalkTyped, jsonPc = "run", NEW j \in Nat, NEW f \in {"json_parse", "json_parse_array"},
         NEW n \in Nat, Json!Continue(j, <<Json!Called(f, n)>>)
  PROVE  /\ stack' \in Seq(Frames) /\ Len(stack') = Len(stack) + 1
         /\ \A m \in 1..(Len(stack) - 1) : stack'[m] = stack[m]
         /\ stack'[Len(stack)].fn = Json!Top.fn /\ stack'[Len(stack)].jobj = j
         /\ stack'[Len(stack)].cur = Json!NextKid(Json!Top.cur)
         /\ stack'[Len(stack) + 1] = Json!Called(f, n)
<1> DEFINE a == Moved(Json!Top, j, Json!NextKid(Json!Top.cur))
           b == Json!Called(f, n)
<1>1. stack' = Pushed(stack, a, b)
  BY DEF Json!Continue, Moved, Pushed
<1>2. Json!NextKid(Json!Top.cur) \in Cursors /\ Json!Top \in Frames
  BY NextTyped, TopTyped DEF WalkTyped
<1>3. a \in Frames /\ a.fn = Json!Top.fn /\ a.jobj = j /\ a.cur = Json!NextKid(Json!Top.cur)
  BY <1>2, FrameMoved
<1>4. b \in Frames
  BY CalledTyped DEF WalkTyped
<1> HIDE DEF a, b
<1>5. stack \in Seq(Frames) /\ stack # <<>>
  BY DEF WalkTyped
<1>6. /\ stack' \in Seq(Frames) /\ Len(stack') = Len(stack) + 1 /\ stack'[Len(stack)] = a
      /\ stack'[Len(stack) + 1] = b
      /\ \A m \in 1..(Len(stack) - 1) : stack'[m] = stack[m]
  <2>1. a \in Frames
    BY <1>3
  <2>2. PushedWell(stack, a, b, Pushed(stack, a, b))
    BY <1>4, <1>5, <2>1, Entered
  <2>3. QED
    BY <1>1, <2>2 DEF PushedWell
<1>7. QED
  BY <1>3, <1>6 DEF b

-------------------------------------------------------------------------------
\* The activation in front is at the next node of the text.
LEMMA Frontier ==
  ASSUME WalkTyped, jsonPc = "run", NEW F \in Nat, NEW c \in Seq(Nat), WalkAt(F, c), Json!Top.cur # NULL
  PROVE  /\ Json!Top.cur = F /\ F \in Json!Nodes \ {1} /\ Parent(F) = c[Len(c)]
         /\ Level(Json!Top, c[Len(c)], F)
<1> DEFINE p == c[Len(c)]
           x == Json!Top.cur
<1>1. /\ Len(c) = Len(stack) /\ Len(c) \in Nat \ {0} /\ Json!Top = stack[Len(stack)]
      /\ Json!Document(d) /\ F > 1 /\ Path(c, F)
  BY TopTyped DEF WalkAt, WalkTyped
<1>2. Level(Json!Top, p, F)
  BY <1>1 DEF WalkAt
<1>3. p \in Json!Nodes /\ p \in Nat /\ p < F /\ x = Json!Lowest(From(p, F)) /\ From(p, F) \in SUBSET Nat
  BY <1>1, <1>2, FromTyped, DocumentNodes DEF Level
<1>4. x \in From(p, F) /\ \A j \in From(p, F) : x <= j
  BY <1>3, LowestOf
<1>5. x \in Json!Nodes \ {1} /\ x \in Nat /\ Parent(x) = p /\ x >= F
  BY <1>1, <1>4, KidsAreNodes, DocumentNodes DEF From
<1> HIDE DEF p, x
<1>6. x = F
  <2> SUFFICES ASSUME x # F
               PROVE  FALSE
    OBVIOUS
  <2>1. F < x /\ F \in Json!Nodes \ {1}
    <3>1. F < x
      BY <1>5
    <3>2. QED
      BY <1>1, <1>5, <3>1 DEF Json!Nodes
  <2>2. Parent(F) < F /\ Parent(F) \in Nat /\ Parent(F) >= Parent(x)
    BY <1>1, <1>3, <1>5, <2>1, DocumentNodes
  <2>3. PICK m \in 1..Len(c) : c[m] = Parent(F)
    BY <1>1, <2>1, <2>2 DEF Path
  <2>4. m = Len(c)
    <3> SUFFICES ASSUME m # Len(c)
                 PROVE  FALSE
      OBVIOUS
    <3>1. m < Len(c) /\ Len(c) \in 1..Len(c)
      BY <1>1
    <3>2. c[m] < c[Len(c)]
      BY <1>1, <3>1 DEF Path
    <3>3. QED
      BY <1>3, <1>5, <2>2, <2>3, <3>2 DEF p
  <2>5. Parent(F) = p
    BY <2>3, <2>4 DEF p
  <2>6. F \in From(p, F)
    BY <2>1, <2>5 DEF From, Json!Kids, Parent
  <2>7. QED
    BY <1>4, <1>5, <2>1, <2>6
<1>7. QED
  BY <1>2, <1>5, <1>6 DEF p, x

\* What is printed for the node F.
LEMMA PrintedNext ==
  ASSUME Json!Document(d), NEW F \in Json!Nodes, PrintedTo(printed, F), printed \in Seq(Nat), NEW q,
         q = IF Type(F) = "scalar" THEN Append(printed, F) ELSE printed
  PROVE  PrintedTo(q, F + 1)
<1>1. F \in Nat /\ \A n \in Json!Nodes : n \in Nat
  BY DocumentNodes
<1>2. /\ {printed[m] : m \in DOMAIN printed} = {n \in Json!Nodes : n < F /\ Type(n) = "scalar"}
      /\ \A m, n \in DOMAIN printed : m < n => printed[m] < printed[n]
  BY DEF PrintedTo
<1>3. CASE Type(F) # "scalar"
  <2>1. {n \in Json!Nodes : n < F + 1 /\ Type(n) = "scalar"} = {n \in Json!Nodes : n < F /\ Type(n) = "scalar"}
    <3>1. \A n \in Json!Nodes : (n < F + 1 /\ Type(n) = "scalar") <=> (n < F /\ Type(n) = "scalar")
      <4> TAKE n \in Json!Nodes
      <4>1. Type(n) = "scalar" => n # F
        BY <1>3
      <4>2. QED
        BY <1>1, <4>1
    <3>2. QED
      BY <3>1
  <2>2. q = printed
    BY <1>3
  <2>3. QED
    BY <1>2, <2>1, <2>2 DEF PrintedTo
<1>4. CASE Type(F) = "scalar"
  <2>1. /\ Len(printed) \in Nat /\ DOMAIN printed = 1..Len(printed) /\ DOMAIN q = 1..(Len(printed) + 1)
        /\ q[Len(printed) + 1] = F /\ \A m \in 1..Len(printed) : q[m] = printed[m]
    BY <1>1, <1>4
  <2>2. \A m \in 1..Len(printed) : printed[m] \in Json!Nodes /\ printed[m] < F /\ Type(printed[m]) = "scalar"
    BY <1>2, <2>1
  <2>3. {q[m] : m \in DOMAIN q} = {n \in Json!Nodes : n < F + 1 /\ Type(n) = "scalar"}
    <3>1. ASSUME NEW m \in DOMAIN q
          PROVE  q[m] \in {n \in Json!Nodes : n < F + 1 /\ Type(n) = "scalar"}
      <4>1. CASE m = Len(printed) + 1
        BY <1>1, <1>4, <2>1, <4>1
      <4>2. CASE m # Len(printed) + 1
        <5>1. m \in 1..Len(printed)
          BY <2>1, <4>2
        <5>2. q[m] \in Json!Nodes /\ q[m] < F /\ Type(q[m]) = "scalar"
          BY <2>1, <2>2, <5>1
        <5>3. QED
          BY <1>1, <5>2
      <4>3. QED
        BY <4>1, <4>2
    <3>2. ASSUME NEW n \in Json!Nodes, n < F + 1, Type(n) = "scalar"
          PROVE  \E m \in DOMAIN q : q[m] = n
      <4>1. CASE n = F
        <5>1. Len(printed) + 1 \in DOMAIN q
          BY <2>1
        <5>2. QED
          BY <2>1, <4>1, <5>1
      <4>2. CASE n # F
        <5>1. n < F
          BY <1>1, <3>2, <4>2
        <5>2. n \in {printed[m] : m \in DOMAIN printed}
          BY <1>2, <3>2, <5>1
        <5>3. PICK m \in 1..Len(printed) : printed[m] = n
          BY <2>1, <5>2
        <5>4. m \in DOMAIN q
          BY <2>1
        <5>5. QED
          BY <2>1, <5>3, <5>4
      <4>3. QED
        BY <4>1, <4>2
    <3>3. QED
      BY <3>1, <3>2
  <2>4. ASSUME NEW m \in DOMAIN q, NEW n \in DOMAIN q, m < n
        PROVE  q[m] < q[n]
    <3>1. m \in 1..Len(printed)
      BY <2>1, <2>4
    <3>2. CASE n = Len(printed) + 1
      BY <2>1, <2>2, <3>1, <3>2
    <3>3. CASE n # Len(printed) + 1
      <4>1. n \in 1..Len(printed)
        BY <2>1, <3>3
      <4>2. QED
        BY <1>2, <2>1, <2>4, <3>1, <4>1
    <3>4. QED
      BY <3>2, <3>3
  <2>5. QED
    BY <2>3, <2>4 DEF PrintedTo
<1>5. QED
  BY <1>3, <1>4

\* A node that is no object and no array is passed.
LEMMA LeafPassed ==
  ASSUME WalkTyped, jsonPc = "run", NEW F \in Nat, NEW c \in Seq(Nat), WalkAt(F, c), Json!Top.cur # NULL,
         ~ Nests(Type(Json!Top.cur)), Json!Continue(Json!Top.jobj, <<>>), d' = d,
         printed' = IF Type(Json!Top.cur) = "scalar" THEN Append(printed, Json!Top.cur) ELSE printed
  PROVE  WalkAt(F + 1, c)'
<1>1. /\ Json!Top.cur = F /\ F \in Json!Nodes \ {1} /\ Parent(F) = c[Len(c)]
      /\ Level(Json!Top, c[Len(c)], F)
  BY Frontier
<1>2. /\ Json!Document(d) /\ Len(c) = Len(stack) /\ Len(stack) \in Nat \ {0}
      /\ Path(c, F) /\ PrintedTo(printed, F) /\ printed \in Seq(Nat) /\ Json!Top.jobj \in Nat
      /\ F > 1 /\ \A m \in 1..Len(c) : Level(stack[m], c[m], F)
  BY TopTyped DEF WalkAt, WalkTyped
<1>3. /\ Len(stack') = Len(stack) /\ \A m \in 1..(Len(stack) - 1) : stack'[m] = stack[m]
      /\ stack'[Len(stack)].fn = Json!Top.fn /\ stack'[Len(stack)].jobj = Json!Top.jobj
      /\ stack'[Len(stack)].cur = Json!NextKid(F)
  BY <1>1, <1>2, WentOn
<1>4. ASSUME NEW m \in 1..Len(c)
      PROVE  Level(stack'[m], c[m], F + 1)
  <2>1. CASE m = Len(c)
    BY <1>1, <1>2, <1>3, <2>1, LevelMoves
  <2>2. CASE m # Len(c)
    <3>1. m \in 1..(Len(stack) - 1) /\ m < Len(c) /\ Len(c) \in 1..Len(c)
      BY <1>2, <2>2
    <3>2. c[m] < c[Len(c)]
      BY <1>2, <3>1 DEF Path
    <3>3. Parent(F) # c[m]
      BY <1>1, <1>2, <3>2
    <3>4. Level(stack[m], c[m], F) /\ stack'[m] = stack[m]
      BY <1>2, <1>3, <3>1
    <3>5. QED
      BY <1>1, <1>2, <3>3, <3>4, LevelStays
  <2>3. QED
    BY <2>1, <2>2
<1>5. Path(c, F + 1)
  BY <1>1, <1>2, PathLeaf
<1>6. PrintedTo(printed', F + 1)
  BY <1>1, <1>2, PrintedNext
<1>7. F + 1 > 1 /\ Len(c) = Len(stack')
  BY <1>2, <1>3
<1>8. QED
  BY <1>4, <1>5, <1>6, <1>7, WalkNext

\* An object or array is entered.
LEMMA NodeEntered ==
  ASSUME WalkTyped, jsonPc = "run", NEW F \in Nat, NEW c \in Seq(Nat), WalkAt(F, c), Json!Top.cur = F,
         Nests(Type(F)), NEW f \in {"json_parse", "json_parse_array"}, f = "json_parse" <=> Type(F) = "object",
         NEW j \in Nat, j = Json!Top.jobj \/ (Json!Top.fn = "json_parse" /\ Type(F) = "object"),
         Json!Continue(j, <<Json!Called(f, F)>>), d' = d, printed' = printed
  PROVE  \E b \in Seq(Nat) : WalkAt(F + 1, b)'
<1> DEFINE b == Append(c, F)
<1>0. Json!Top.cur # NULL
  BY NullIsNoNode
<1>1. F \in Json!Nodes \ {1} /\ Parent(F) = c[Len(c)] /\ Level(Json!Top, c[Len(c)], F)
  BY <1>0, Frontier
<1>2. /\ Json!Document(d) /\ Len(c) = Len(stack) /\ Len(stack) \in Nat \ {0}
      /\ Path(c, F) /\ PrintedTo(printed, F) /\ printed \in Seq(Nat)
      /\ F > 1 /\ \A m \in 1..Len(c) : Level(stack[m], c[m], F)
  BY TopTyped DEF WalkAt, WalkTyped
<1>3. /\ Len(stack') = Len(stack) + 1 /\ \A m \in 1..(Len(stack) - 1) : stack'[m] = stack[m]
      /\ stack'[Len(stack)].fn = Json!Top.fn /\ stack'[Len(stack)].jobj = j
      /\ stack'[Len(stack)].cur = Json!NextKid(F)
      /\ stack'[Len(stack) + 1] = Json!Called(f, F)
  BY WentInto
<1>4. /\ b \in Seq(Nat) /\ Len(b) = Len(c) + 1 /\ b[Len(c) + 1] = F
      /\ \A m \in 1..Len(c) : b[m] = c[m]
  BY <1>2
<1> HIDE DEF b
<1>5. Level(stack'[Len(c)], c[Len(c)], F + 1)
  <2>1. stack'[Len(c)].jobj = Json!Top.jobj \/ (Type(c[Len(c)]) = "object" /\ Type(F) = "object")
    BY <1>1, <1>2, <1>3 DEF Level
  <2>2. stack'[Len(c)].fn = Json!Top.fn /\ stack'[Len(c)].cur = Json!NextKid(F)
    BY <1>2, <1>3
  <2>3. QED
    BY <1>1, <1>2, <2>1, <2>2, LevelMoves
<1>6. Level(Json!Called(f, F), F, F + 1)
  BY <1>1, <1>2, LevelNew
<1>7. ASSUME NEW m \in 1..Len(b)
      PROVE  Level(stack'[m], b[m], F + 1)
  <2>1. CASE m = Len(c) + 1
    BY <1>2, <1>3, <1>4, <1>6, <2>1
  <2>2. CASE m = Len(c)
    BY <1>2, <1>4, <1>5, <2>2
  <2>3. CASE m # Len(c) + 1 /\ m # Len(c)
    <3>1. m \in 1..(Len(stack) - 1) /\ m \in 1..Len(c) /\ m < Len(c) /\ Len(c) \in 1..Len(c)
      BY <1>2, <1>4, <2>3
    <3>2. c[m] < c[Len(c)] /\ c[m] \in Nat
      <4>1. Path(c, F) /\ c \in Seq(Nat)
        BY <1>2
      <4>2. c[m] < c[Len(c)]
        BY <3>1, <4>1 DEF Path
      <4>3. c[m] \in Nat
        BY <3>1, <4>1
      <4>4. QED
        BY <4>2, <4>3
    <3>3. Parent(F) # c[m]
      BY <1>1, <1>2, <3>2
    <3>4. Level(stack[m], c[m], F) /\ stack'[m] = stack[m] /\ b[m] = c[m]
      BY <1>2, <1>3, <1>4, <3>1
    <3>5. Level(stack[m], c[m], F + 1)
      BY <1>1, <1>2, <3>3, <3>4, LevelStays
    <3>6. QED
      BY <3>4, <3>5
  <2>4. QED
    BY <2>1, <2>2, <2>3
<1>8. Path(b, F + 1)
  <2>1. \A m \in 1..Len(c) : c[m] < F
    BY <1>2 DEF Level
  <2>2. QED
    BY <1>1, <1>2, <2>1, PathEnter DEF b
<1>9. PrintedTo(printed', F + 1)
  <2>1. Type(F) # "scalar"
    BY DEF Nests
  <2>2. QED
    BY <1>1, <1>2, <2>1, PrintedNext
<1>10. F + 1 > 1 /\ Len(b) = Len(stack')
  BY <1>2, <1>3, <1>4
<1>11. WalkAt(F + 1, b)'
  BY <1>7, <1>8, <1>9, <1>10, WalkNext
<1>12. QED
  BY <1>4, <1>11

\* An activation that is at its end returns.
LEMMA Returned ==
  ASSUME WalkTyped, jsonPc = "run", NEW F \in Nat, NEW c \in Seq(Nat), WalkAt(F, c), Json!Top.cur = NULL,
         stack' = Json!Front(stack), d' = d, printed' = printed
  PROVE  \E b \in Seq(Nat) : WalkAt(F, b)'
<1> DEFINE b == [m \in 1..(Len(c) - 1) |-> c[m]]
<1>1. /\ Json!Document(d) /\ Len(c) = Len(stack) /\ Len(stack) \in Nat \ {0}
      /\ Path(c, F) /\ PrintedTo(printed, F) /\ stack \in Seq(Frames) /\ stack # <<>>
      /\ Json!Top = stack[Len(stack)]
      /\ F > 1 /\ \A m \in 1..Len(c) : Level(stack[m], c[m], F)
  BY TopTyped DEF WalkAt, WalkTyped
<1>2. Len(stack') = Len(stack) - 1 /\ \A m \in 1..(Len(stack) - 1) : stack'[m] = stack[m]
  BY <1>1, FrontOf
<1>3. b \in Seq(Nat) /\ Len(b) = Len(c) - 1 /\ \A m \in 1..Len(b) : b[m] = c[m]
  BY <1>1
<1> HIDE DEF b
<1>4. From(c[Len(c)], F) = {}
  <2>1. Json!Lowest(From(c[Len(c)], F)) = NULL
    BY <1>1 DEF Level
  <2>2. From(c[Len(c)], F) \in SUBSET Nat
    BY <1>1, FromTyped
  <2>3. QED
    BY <2>1, <2>2, LowestOf, NullIsNoNode
<1>5. Path(b, F)
  BY <1>1, <1>3, <1>4, PathReturn
<1>6. \A m \in 1..Len(b) : Level(stack'[m], b[m], F)
  BY <1>1, <1>2, <1>3
<1>7. Len(b) = Len(stack') /\ PrintedTo(printed', F)
  BY <1>1, <1>2, <1>3
<1>8. WalkAt(F, b)'
  BY <1>1, <1>5, <1>6, <1>7, WalkNext
<1>9. QED
  BY <1>3, <1>8

\* What is looked up is the entry, unless an object before it misled.
LEMMA ValueFound ==
  ASSUME Json!Document(d), ~ Json!Misled, NEW F \in Json!Nodes \ {1}, NEW n, Parent(F) = n,
         Level(Json!Top, n, F), Json!Top.cur = F, Nests(Type(F))
  PROVE  Json!Value = F
<1>1. F \in Nat /\ n \in Json!Nodes /\ n \in Nat
  BY DocumentNodes DEF Level
<1>2. CASE Json!Top.fn # "json_parse"
  BY <1>2 DEF Json!Value
<1>3. CASE Json!Top.fn = "json_parse"
  <2>1. Type(n) = "object"
    BY <1>3 DEF Level
  <2>2. Json!Top.jobj = n
    <3> SUFFICES ASSUME NEW k \in Json!Kids(n), k < F, Type(k) = "object"
                 PROVE  FALSE
      BY DEF Level
    <3>1. k \in Json!Nodes \ {1} /\ Parent(k) = n
      BY KidsAreNodes
    <3>2. QED
      BY <2>1, <3>1 DEF Json!Misled, Type, Parent, Nests
  <2> DEFINE S == {k \in Json!Kids(n) : d.key[k] = d.key[F] /\ d.type[k] # "null"}
  <2>3. F \in S
    BY DEF Json!Kids, Parent, Type, Nests
  <2>4. \A k \in S : k = F
    <3> TAKE k \in S
    <3>1. k \in Json!Nodes \ {1} /\ Parent(k) = n /\ d.key[k] = d.key[F]
      BY KidsAreNodes
    <3>2. QED
      BY <2>1, <3>1, KeysDiffer
  <2>5. S \in SUBSET Nat /\ \A k \in S : F <= k
    BY <1>1, <2>4
  <2>6. Json!Lowest(S) = F
    BY <2>3, <2>5, LowestIs
  <2>7. Json!Is(n, "object")
    BY <1>1, <2>1, NullIsNoNode DEF Json!Is, Type
  <2>8. Json!Value = Json!Get(n, d.key[F])
    BY <1>3, <2>2 DEF Json!Value
  <2>9. QED
    BY <2>6, <2>7, <2>8 DEF Json!Get
<1>4. QED
  BY <1>2, <1>3

\* What is looked up.
LEMMA Sought ==
  ASSUME WalkTyped, jsonPc = "run"
  PROVE  /\ Json!Value \in Cursors
         /\ \A type : Json!Is(Json!Value, type) => Json!Value \in Nat
         /\ Json!Top.fn = "json_parse" => Json!Value # 1
<1>1. /\ Json!Document(d) /\ Json!Top.cur \in Cursors
  BY TopTyped DEF WalkTyped
<1> DEFINE o == Json!Top.jobj
           S == {k \in Json!Kids(o) : d.key[k] = d.key[Json!Top.cur] /\ d.type[k] # "null"}
<1>2. S \in SUBSET Nat /\ 1 \notin S
  BY <1>1, KidsAreNodes
<1>3. Json!Top.fn = "json_parse" => Json!Value = NULL \/ Json!Value = Json!Lowest(S)
  BY DEF Json!Value, Json!Get
<1>4. Json!Top.fn # "json_parse" => Json!Value = Json!Top.cur
  BY DEF Json!Value
<1> HIDE DEF S
<1>5. Json!Lowest(S) = NULL \/ Json!Lowest(S) \in S
  BY <1>2, LowestOf
<1>6. NULL # 1
  BY NullIsNoNode
<1>7. Json!Value \in Cursors /\ (Json!Top.fn = "json_parse" => Json!Value # 1)
  BY <1>1, <1>2, <1>3, <1>4, <1>5, <1>6 DEF Cursors
<1>8. \A type : Json!Is(Json!Value, type) => Json!Value \in Nat
  BY <1>7 DEF Json!Is, Cursors
<1>9. QED
  BY <1>7, <1>8

\* The steps that go on to the next entry, and call nothing.
Passes ==
  /\ Json!Top.cur # NULL /\ ~ Nests(Type(Json!Top.cur)) /\ Json!Continue(Json!Top.jobj, <<>>)
  /\ printed' = IF Type(Json!Top.cur) = "scalar" THEN Append(printed, Json!Top.cur) ELSE printed
  /\ jsonPc' = "run"

\* The steps that call f for what was looked up.
Enters(f, j) ==
  /\ Json!Top.cur # NULL /\ Nests(Type(Json!Top.cur))
  /\ Type(Json!Value) = Type(Json!Top.cur) /\ Json!Value \in Nat
  /\ f = "json_parse" <=> Type(Json!Top.cur) = "object"
  /\ \/ j = Json!Top.jobj /\ ~ (Json!Top.fn = "json_parse" /\ Type(Json!Top.cur) = "object")
     \/ j = Json!Value /\ Json!Top.fn = "json_parse" /\ Type(Json!Top.cur) = "object"
  /\ Json!Continue(j, <<Json!Called(f, Json!Value)>>)
  /\ printed' = printed /\ jsonPc' = "run"

\* The steps in which what was looked up is not what the entry is.
Fails ==
  /\ Json!Top.cur # NULL /\ Nests(Type(Json!Top.cur))
  /\ Json!Value = NULL \/ Type(Json!Value) # Type(Json!Top.cur)
  /\ stack' = stack /\ printed' = printed /\ jsonPc' = "undefined"

Returns ==
  /\ Json!Top.cur = NULL /\ stack' = Json!Front(stack) /\ printed' = printed
  /\ jsonPc' = IF Len(stack) = 1 THEN "done" ELSE "run"

LEMMA Steps ==
  ASSUME WalkTyped, Json!Next
  PROVE  /\ jsonPc = "run" /\ d' = d
         /\ \/ Passes
            \/ \E f \in {"json_parse", "json_parse_array"} : \E j \in Nat : Enters(f, j)
            \/ Fails
            \/ Returns
<1>1. CASE Json!Scalar
  <2>1. Passes /\ jsonPc = "run" /\ d' = d
    BY <1>1 DEF Json!Scalar, Json!At, Json!Is, Passes, Type, Nests
  <2>2. QED
    BY <2>1
<1>2. CASE Json!NullValue
  <2>1. Passes /\ jsonPc = "run" /\ d' = d
    BY <1>2 DEF Json!NullValue, Json!At, Json!Is, Passes, Type, Nests
  <2>2. QED
    BY <2>1
<1>3. CASE Json!Object
  <2>1. jsonPc = "run" /\ Json!Top.cur # NULL /\ Type(Json!Top.cur) = "object"
    BY <1>3 DEF Json!Object, Json!At, Json!Is, Type
  <2>2. CASE Json!Is(Json!Value, "object")
    <3> DEFINE j == IF Json!Top.fn = "json_parse" THEN Json!Value ELSE Json!Top.jobj
    <3>1. Json!Value \in Nat /\ Json!Top.jobj \in Nat
      BY <2>1, <2>2, Sought, TopTyped
    <3>2. Type(Json!Value) = "object"
      BY <2>2 DEF Json!Is, Type
    <3>3. Json!Continue(j, <<Json!Called("json_parse", Json!Value)>>) /\ d' = d /\ printed' = printed /\ jsonPc' = jsonPc
      BY <1>3, <2>2 DEF Json!Object
    <3>4. j \in Nat
      BY <3>1
    <3>5. \/ j = Json!Top.jobj /\ Json!Top.fn # "json_parse"
          \/ j = Json!Value /\ Json!Top.fn = "json_parse"
      OBVIOUS
    <3> HIDE DEF j
    <3>6. Enters("json_parse", j)
      BY <2>1, <3>1, <3>2, <3>3, <3>5 DEF Enters, Nests
    <3>7. QED
      BY <2>1, <3>3, <3>4, <3>6
  <2>3. CASE ~ Json!Is(Json!Value, "object")
    <3>1. jsonPc' = "undefined" /\ d' = d /\ stack' = stack /\ printed' = printed
      BY <1>3, <2>3 DEF Json!Object, Json!Undefined
    <3>2. Json!Value = NULL \/ Type(Json!Value) # "object"
      BY <2>3 DEF Json!Is, Type
    <3>3. Fails
      BY <2>1, <3>1, <3>2 DEF Fails, Nests
    <3>4. QED
      BY <2>1, <3>1, <3>3
  <2>4. QED
    BY <2>2, <2>3
<1>4. CASE Json!Array
  <2>1. jsonPc = "run" /\ Json!Top.cur # NULL /\ Type(Json!Top.cur) = "array"
    BY <1>4 DEF Json!Array, Json!At, Json!Is, Type
  <2>2. CASE Json!Is(Json!Value, "array")
    <3>1. Json!Value \in Nat /\ Json!Top.jobj \in Nat
      BY <2>1, <2>2, Sought, TopTyped
    <3>2. Type(Json!Value) = "array"
      BY <2>2 DEF Json!Is, Type
    <3>3. Json!Continue(Json!Top.jobj, <<Json!Called("json_parse_array", Json!Value)>>) /\ d' = d /\ printed' = printed /\ jsonPc' = jsonPc
      BY <1>4, <2>2 DEF Json!Array
    <3>4. Enters("json_parse_array", Json!Top.jobj)
      BY <2>1, <3>1, <3>2, <3>3 DEF Enters, Nests
    <3>5. QED
      BY <2>1, <3>1, <3>3, <3>4
  <2>3. CASE ~ Json!Is(Json!Value, "array")
    <3>1. jsonPc' = "undefined" /\ d' = d /\ stack' = stack /\ printed' = printed
      BY <1>4, <2>3 DEF Json!Array, Json!Undefined
    <3>2. Json!Value = NULL \/ Type(Json!Value) # "array"
      BY <2>3 DEF Json!Is, Type
    <3>3. Fails
      BY <2>1, <3>1, <3>2 DEF Fails, Nests
    <3>4. QED
      BY <2>1, <3>1, <3>3
  <2>4. QED
    BY <2>2, <2>3
<1>5. CASE Json!Return
  <2>1. Returns /\ jsonPc = "run" /\ d' = d
    BY <1>5 DEF Json!Return, Returns
  <2>2. QED
    BY <2>1
<1>6. QED
  BY <1>1, <1>2, <1>3, <1>4, <1>5 DEF Json!Next

LEMMA WalkStays ==
  ASSUME UNCHANGED Json!vars
  PROVE  d' = d /\ stack' = stack /\ printed' = printed /\ jsonPc' = jsonPc
BY DEF Json!vars

LEMMA TypedStep ==
  ASSUME WalkTyped, [Json!Next]_(Json!vars)
  PROVE  WalkTyped'
<1>1. /\ Json!Document(d) /\ stack \in Seq(Frames) /\ printed \in Seq(Nat)
      /\ jsonPc \in {"run", "done", "undefined"} /\ (jsonPc = "run" => stack # <<>>)
  BY DEF WalkTyped
<1>2. /\ d' = d
      /\ stack' \in Seq(Frames) /\ printed' \in Seq(Nat)
      /\ jsonPc' \in {"run", "done", "undefined"} /\ (jsonPc' = "run" => stack' # <<>>)
  <2>1. CASE UNCHANGED Json!vars
    BY <1>1, <2>1, WalkStays
  <2>2. CASE Json!Next
    <3>0. jsonPc = "run" /\ d' = d
      BY <2>2, Steps
    <3>1. Json!Top.jobj \in Nat /\ Len(stack) \in Nat \ {0} /\ Json!Top.cur \in Cursors
      BY <3>0, TopTyped
    <3>2. CASE Passes
      <4>1. stack' \in Seq(Frames) /\ Len(stack') = Len(stack)
        BY <3>0, <3>1, <3>2, WentOn DEF Passes
      <4>2. Json!Top.cur \in Nat
        BY <3>1, <3>2 DEF Passes, Cursors
      <4>3. printed' \in Seq(Nat) /\ jsonPc' = "run"
        BY <1>1, <3>2, <4>2 DEF Passes
      <4>4. QED
        BY <3>0, <3>1, <4>1, <4>3
    <3>3. ASSUME NEW f \in {"json_parse", "json_parse_array"}, NEW j \in Nat, Enters(f, j)
          PROVE  stack' \in Seq(Frames) /\ printed' = printed /\ jsonPc' = "run" /\ stack' # <<>>
      <4>1. Json!Value \in Nat /\ Json!Continue(j, <<Json!Called(f, Json!Value)>>)
        BY <3>3 DEF Enters
      <4>2. stack' \in Seq(Frames) /\ Len(stack') = Len(stack) + 1
        BY <3>0, <4>1, WentInto
      <4>3. QED
        BY <3>1, <3>3, <4>2 DEF Enters
    <3>4. CASE Fails
      BY <1>1, <3>0, <3>4 DEF Fails
    <3>5. CASE Returns
      <4>1. stack' \in Seq(Frames) /\ Len(stack') = Len(stack) - 1
        BY <1>1, <3>0, <3>5, FrontOf DEF Returns
      <4>2. printed' = printed /\ jsonPc' = IF Len(stack) = 1 THEN "done" ELSE "run"
        BY <3>5 DEF Returns
      <4>3. QED
        BY <1>1, <3>0, <3>1, <4>1, <4>2
    <3>6. QED
      BY <1>1, <2>2, <3>0, <3>2, <3>3, <3>4, <3>5, Steps
  <2>3. QED
    BY <2>1, <2>2
<1>3. Json!Document(d)'
  BY <1>1, <1>2, SameDocument
<1>4. QED
  BY <1>2, <1>3 DEF WalkTyped

LEMMA WholeStep ==
  ASSUME WalkTyped, WholeInv, [Json!Next]_(Json!vars)
  PROVE  WholeInv'
<1>1. d' = d
  BY WalkStays, Steps
<1> SUFFICES ASSUME ~ Json!Misled
             PROVE  /\ jsonPc' # "undefined" /\ (jsonPc' = "done" => stack' = <<>>)
                    /\ \E F \in Nat : \E b \in Seq(Nat) : WalkAt(F, b)'
  BY <1>1, SameDocument DEF WholeInv
<1>2. jsonPc # "undefined" /\ (jsonPc = "done" => stack = <<>>)
  BY DEF WholeInv
<1>3. PICK F \in Nat : \E c \in Seq(Nat) : WalkAt(F, c)
  BY DEF WholeInv
<1>4. PICK c \in Seq(Nat) : WalkAt(F, c)
  BY <1>3
<1>5. CASE UNCHANGED Json!vars
  <2>1. WalkAt(F, c)'
    <3>1. /\ F > 1 /\ Len(c) = Len(stack') /\ \A m \in 1..Len(c) : Level(stack'[m], c[m], F)
          /\ Path(c, F) /\ PrintedTo(printed', F)
      BY <1>4, <1>5, WalkStays DEF WalkAt
    <3>2. QED
      BY <1>1, <3>1, WalkNext
  <2>2. QED
    BY <1>2, <1>5, <2>1, WalkStays
<1>6. CASE Json!Next
  <2>0. jsonPc = "run" /\ Json!Document(d)
    BY <1>6, Steps DEF WalkTyped
  <2>1. CASE Passes
    <3>1. WalkAt(F + 1, c)'
      BY <1>1, <1>4, <2>0, <2>1, LeafPassed DEF Passes
    <3>2. jsonPc' = "run" /\ F + 1 \in Nat
      BY <2>1 DEF Passes
    <3>3. QED
      BY <3>1, <3>2
  <2>2. ASSUME Json!Top.cur # NULL, Nests(Type(Json!Top.cur))
        PROVE  Json!Top.cur = F /\ Json!Value = F
    <3>1. /\ Json!Top.cur = F /\ F \in Json!Nodes \ {1} /\ Parent(F) = c[Len(c)]
          /\ Level(Json!Top, c[Len(c)], F)
      BY <1>4, <2>0, <2>2, Frontier
    <3>2. QED
      BY <2>0, <2>2, <3>1, ValueFound
  <2>3. ASSUME NEW f \in {"json_parse", "json_parse_array"}, NEW j \in Nat, Enters(f, j)
        PROVE  jsonPc' = "run" /\ \E b \in Seq(Nat) : WalkAt(F + 1, b)'
    <3>1. Json!Top.cur = F /\ Json!Value = F
      BY <2>2, <2>3 DEF Enters
    <3>2. /\ Nests(Type(F)) /\ (f = "json_parse" <=> Type(F) = "object")
          /\ j = Json!Top.jobj \/ (Json!Top.fn = "json_parse" /\ Type(F) = "object")
          /\ Json!Continue(j, <<Json!Called(f, F)>>) /\ printed' = printed /\ jsonPc' = "run"
      BY <2>3, <3>1 DEF Enters
    <3>3. QED
      BY <1>1, <1>4, <2>0, <3>1, <3>2, NodeEntered
  <2>4. ~ Fails
    BY <2>2, NullIsNoNode DEF Fails
  <2>5. CASE Returns
    <3>1. \E b \in Seq(Nat) : WalkAt(F, b)'
      BY <1>1, <1>4, <2>0, <2>5, Returned DEF Returns
    <3>2. stack \in Seq(Frames) /\ stack # <<>>
      BY <2>0 DEF WalkTyped
    <3>3. stack' \in Seq(Frames) /\ Len(stack') = Len(stack) - 1
      BY <2>5, <3>2, FrontOf DEF Returns
    <3>4. jsonPc' = IF Len(stack) = 1 THEN "done" ELSE "run"
      BY <2>5 DEF Returns
    <3>5. jsonPc' # "undefined" /\ (jsonPc' = "done" => stack' = <<>>)
      BY <3>3, <3>4
    <3>6. QED
      BY <3>1, <3>5
  <2>6. CASE \E f \in {"json_parse", "json_parse_array"} : \E j \in Nat : Enters(f, j)
    <3>1. jsonPc' = "run" /\ \E b \in Seq(Nat) : WalkAt(F + 1, b)'
      BY <2>3, <2>6
    <3>2. F + 1 \in Nat
      OBVIOUS
    <3>3. QED
      BY <3>1, <3>2
  <2>7. QED
    BY <1>6, <2>1, <2>4, <2>5, <2>6, Steps
<1>7. QED
  BY <1>5, <1>6

\* When no activation is left all nodes have been visited.
LEMMA WholePrinted ==
  ASSUME Json!Document(d), stack = <<>>, NEW F \in Nat, NEW c \in Seq(Nat), WalkAt(F, c)
  PROVE  Json!Complete
<1>1. F > 1 /\ Len(c) = 0 /\ Path(c, F) /\ PrintedTo(printed, F)
  BY DEF WalkAt
<1>2. F \notin Json!Nodes
  <2> SUFFICES ASSUME F \in Json!Nodes
               PROVE  FALSE
    OBVIOUS
  <2>1. F \in Json!Nodes \ {1}
    BY <1>1
  <2>2. Parent(F) < F /\ Parent(F) \in Nat
    BY <2>1, DocumentNodes
  <2>3. Parent(F) >= F
    BY <1>1 DEF Path
  <2>4. QED
    BY <2>2, <2>3
<1>3. \A n \in Json!Nodes : n < F
  BY <1>1, <1>2, DocumentNodes DEF Json!Nodes
<1>4. {n \in Json!Nodes : n < F /\ Type(n) = "scalar"} = {n \in Json!Nodes : Type(n) = "scalar"}
  BY <1>3
<1>5. QED
  BY <1>1, <1>4 DEF PrintedTo, Json!Complete, Type

LEMMA WholeInit ==
  ASSUME Json!Init
  PROVE  WalkTyped /\ WholeInv
<1>1. /\ Json!Document(d) /\ stack = <<Json!Called("json_parse", 1)>> /\ printed = <<>> /\ jsonPc = "run"
  BY DocumentsAssumption DEF Json!Init, Json!DocsAssumption
<1>2. Json!Called("json_parse", 1) \in Frames
  BY <1>1, CalledTyped
<1>3. WalkTyped
  BY <1>1, <1>2 DEF WalkTyped
<1>4. 1 \in Json!Nodes /\ Type(1) = "object"
  BY <1>1, DocumentNodes
<1>5. Level(Json!Called("json_parse", 1), 1, 1 + 1)
  BY <1>1, <1>4, LevelNew DEF Nests
<1>6. Path(<<1>>, 2)
  <2>1. ASSUME NEW n \in Json!Nodes, n >= 2
        PROVE  Parent(n) >= 2 \/ Parent(n) = 1
    <3>1. n \in Json!Nodes \ {1}
      BY <2>1
    <3>2. Parent(n) \in Nat \ {0}
      BY <1>1, <3>1, DocumentNodes
    <3>3. QED
      BY <3>2
  <2>2. QED
    BY <2>1 DEF Path
<1>7. PrintedTo(<<>>, 2)
  <2>1. \A n \in Json!Nodes : ~ (n < 2 /\ Type(n) = "scalar")
    <3> TAKE n \in Json!Nodes
    <3>1. n \in Nat \ {0}
      BY <1>1, DocumentNodes
    <3>2. n < 2 => n = 1
      BY <3>1
    <3>3. QED
      BY <1>4, <3>2
  <2>2. QED
    BY <2>1 DEF PrintedTo
<1>8. WalkAt(2, <<1>>)
  <2>1. Len(<<1>>) = Len(stack) /\ \A m \in 1..Len(<<1>>) : Level(stack[m], <<1>>[m], 2)
    BY <1>1, <1>5
  <2>2. QED
    BY <1>1, <1>6, <1>7, <2>1 DEF WalkAt
<1>9. WholeInv
  <2>1. <<1>> \in Seq(Nat)
    OBVIOUS
  <2>2. QED
    BY <1>1, <1>8, <2>1 DEF WholeInv
<1>10. QED
  BY <1>3, <1>9

-------------------------------------------------------------------------------
\* In the outermost object the object k is before the object or array j, the
\* key of which nothing else has.
Apart(k, j) ==
  /\ k \in Json!Kids(1) /\ j \in Json!Kids(1) /\ k < j /\ Type(k) = "object" /\ Nests(Type(j))
  /\ \A n \in Json!Nodes \ {1, j} : Type(Parent(n)) = "object" => d.key[n] # d.key[j]

\* The first activation does not get past j, and from k on it does not look
\* into the outermost object.
Outermost(a, k, j) ==
  /\ a.fn = "json_parse" /\ a.cur \in Json!Kids(1) /\ a.cur <= j
  /\ a.cur > k => a.jobj # 1

ApartInv ==
  \A k, j \in Nat : Apart(k, j) => jsonPc # "done" /\ (jsonPc = "run" => Outermost(stack[1], k, j))

LEMMA EstrangedApart ==
  ASSUME Json!Document(d), Json!Estranged
  PROVE  \E k, j \in Nat : Apart(k, j)
<1>1. PICK k \in Json!Kids(1), j \in Json!Kids(1) :
        /\ k < j /\ d.type[k] = "object" /\ d.type[j] \in {"object", "array"}
        /\ \A n \in Json!Nodes \ {1, j} : d.type[d.parent[n]] = "object" => d.key[n] # d.key[j]
  BY DEF Json!Estranged
<1>2. k \in Nat /\ j \in Nat
  BY KidsAreNodes
<1>3. Apart(k, j)
  BY <1>1 DEF Apart, Type, Parent, Nests
<1>4. QED
  BY <1>2, <1>3

LEMMA SameApart ==
  ASSUME d' = d, NEW k, NEW j
  PROVE  Apart(k, j)' <=> Apart(k, j)
BY DEF Apart, Json!Kids, Json!Nodes, Type, Parent, Nests

LEMMA SameOutermost ==
  ASSUME d' = d, NEW k, NEW j, Outermost(stack'[1], k, j)
  PROVE  Outermost(stack[1], k, j)'
BY DEF Outermost, Json!Kids, Json!Nodes

\* The next entry of the outermost object.
LEMMA NextOf ==
  ASSUME Json!Document(d), NEW n \in Json!Kids(1), NEW j \in Json!Kids(1), n < j
  PROVE  Json!NextKid(n) \in Json!Kids(1) /\ Json!NextKid(n) <= j
<1> DEFINE S == {m \in Json!Kids(1) : m > n}
<1>1. S \in SUBSET Nat /\ j \in S /\ Parent(n) = 1
  BY KidsAreNodes
<1>2. Json!NextKid(n) = Json!Lowest(S)
  BY <1>1 DEF Json!NextKid, Parent
<1>3. Json!Lowest(S) \in S /\ Json!Lowest(S) <= j
  BY <1>1, LowestOf
<1>4. QED
  BY <1>2, <1>3

\* j is looked up where it is not.
LEMMA NotFound ==
  ASSUME WalkTyped, jsonPc = "run", NEW k \in Nat, NEW j \in Nat, Apart(k, j),
         Outermost(Json!Top, k, j), Json!Top.cur = j
  PROVE  Json!Value = NULL
<1>1. /\ Json!Document(d) /\ Json!Top.fn = "json_parse" /\ Json!Top.jobj # 1
      /\ j \in Json!Nodes /\ Parent(j) = 1
  BY KidsAreNodes DEF Outermost, Apart, WalkTyped
<1> DEFINE o == Json!Top.jobj
           S == {n \in Json!Kids(o) : d.key[n] = d.key[j] /\ d.type[n] # "null"}
<1>2. CASE ~ Json!Is(o, "object")
  BY <1>1, <1>2 DEF Json!Value, Json!Get
<1>3. CASE Json!Is(o, "object")
  <2>1. S = {}
    <3> SUFFICES ASSUME NEW n \in S
                 PROVE  FALSE
      OBVIOUS
    <3>1. n \in Json!Nodes \ {1} /\ Parent(n) = o /\ d.key[n] = d.key[j]
      BY <1>1, KidsAreNodes
    <3>2. n # j /\ Type(Parent(n)) = "object"
      BY <1>1, <1>3, <3>1 DEF Json!Is, Type
    <3>3. QED
      BY <3>1, <3>2 DEF Apart
  <2>2. Json!Value = Json!Lowest(S)
    BY <1>1, <1>3 DEF Json!Value, Json!Get
  <2>3. QED
    BY <2>1, <2>2 DEF Json!Lowest
<1>4. QED
  BY <1>2, <1>3

\* The step of the first activation to its next entry.
LEMMA OutermostMoves ==
  ASSUME WalkTyped, jsonPc = "run", NEW k \in Nat, NEW j \in Nat, Apart(k, j),
         Outermost(Json!Top, k, j), Json!Top.cur # j, NEW a,
         a.fn = Json!Top.fn, a.cur = Json!NextKid(Json!Top.cur),
         \/ a.jobj = Json!Top.jobj /\ Json!Top.cur # k
         \/ a.jobj = Json!Value
  PROVE  Outermost(a, k, j)
<1> DEFINE x == Json!Top.cur
           y == Json!NextKid(x)
<1>1. /\ Json!Document(d) /\ Json!Top.fn = "json_parse" /\ x \in Json!Kids(1) /\ x <= j
      /\ x > k => Json!Top.jobj # 1
      /\ k \in Json!Kids(1) /\ j \in Json!Kids(1) /\ x \in Nat
  BY KidsAreNodes DEF Outermost, Apart, WalkTyped
<1>2. x # j /\ x < j
  BY <1>1
<1>3. y \in Json!Kids(1) /\ y <= j /\ y \in Nat
  BY <1>1, <1>2, NextOf, KidsAreNodes
<1>4. x < k => y <= k
  BY <1>1, NextOf
<1>5. Json!Value # 1
  BY <1>1, Sought
<1>6. a.fn = "json_parse" /\ a.cur = y /\ ((a.jobj = Json!Top.jobj /\ x # k) \/ a.jobj = Json!Value)
  BY <1>1
<1> HIDE DEF x, y
<1>7. ASSUME y > k
      PROVE  a.jobj # 1
  <2>1. x >= k
    BY <1>1, <1>3, <1>4, <1>7
  <2>2. x # k => Json!Top.jobj # 1
    BY <1>1, <2>1
  <2>3. QED
    BY <1>5, <1>6, <2>2
<1>8. QED
  BY <1>3, <1>6, <1>7 DEF Outermost

LEMMA NotAlone ==
  ASSUME NEW n \in Nat \ {0}, n # 1
  PROVE  1 \in 1..(n - 1)
OBVIOUS

LEMMA ApartStep ==
  ASSUME WalkTyped, ApartInv, [Json!Next]_(Json!vars)
  PROVE  ApartInv'
<1>1. d' = d
  BY WalkStays, Steps
<1>2. ASSUME NEW k \in Nat, NEW j \in Nat, Apart(k, j)
      PROVE  jsonPc' # "done" /\ (jsonPc' = "run" => Outermost(stack'[1], k, j))
  <2>1. jsonPc # "done" /\ (jsonPc = "run" => Outermost(stack[1], k, j))
    BY <1>2 DEF ApartInv
  <2>2. CASE UNCHANGED Json!vars
    BY <2>1, <2>2, WalkStays
  <2>3. CASE Json!Next
    <3>0. Len(stack) \in Nat \ {0}
      BY <2>3, Steps, TopTyped
    <3>1. /\ jsonPc = "run" /\ Json!Top = stack[Len(stack)] /\ Len(stack) \in Nat \ {0}
          /\ Json!Top.jobj \in Nat
      BY <2>3, Steps, TopTyped
    <3>2. Outermost(stack[1], k, j)
      BY <2>1, <3>1
    <3>3. Json!Document(d) /\ stack \in Seq(Frames) /\ stack # <<>>
      BY <3>1 DEF WalkTyped
    <3>4. CASE Passes
      <4>1. /\ \A m \in 1..(Len(stack) - 1) : stack'[m] = stack[m]
            /\ stack'[Len(stack)].fn = Json!Top.fn /\ stack'[Len(stack)].jobj = Json!Top.jobj
            /\ stack'[Len(stack)].cur = Json!NextKid(Json!Top.cur)
        BY <3>1, <3>4, WentOn DEF Passes
      <4>2. CASE Len(stack) = 1
        <5>1. Outermost(Json!Top, k, j)
          BY <3>1, <3>2, <4>2
        <5>2. Json!Top.cur # j /\ Json!Top.cur # k
          BY <1>2, <3>4 DEF Passes, Apart, Nests
        <5>3. Outermost(stack'[1], k, j)
          BY <1>2, <3>1, <4>1, <4>2, <5>1, <5>2, OutermostMoves
        <5>4. QED
          BY <3>4, <5>3 DEF Passes
      <4>3. CASE Len(stack) # 1
        <5>1. 1 \in 1..(Len(stack) - 1)
          BY <3>0, <4>3, NotAlone
        <5>2. QED
          BY <3>2, <3>4, <4>1, <5>1 DEF Passes
      <4>4. QED
        BY <4>2, <4>3
    <3>5. ASSUME NEW f \in {"json_parse", "json_parse_array"}, NEW o \in Nat, Enters(f, o)
          PROVE  jsonPc' = "run" /\ Outermost(stack'[1], k, j)
      <4>0. /\ Json!Value \in Nat /\ Json!Continue(o, <<Json!Called(f, Json!Value)>>) /\ jsonPc' = "run"
            /\ \/ o = Json!Top.jobj /\ ~ (Json!Top.fn = "json_parse" /\ Type(Json!Top.cur) = "object")
               \/ o = Json!Value
        BY <3>5 DEF Enters
      <4>1. /\ \A m \in 1..(Len(stack) - 1) : stack'[m] = stack[m]
            /\ stack'[Len(stack)].fn = Json!Top.fn /\ stack'[Len(stack)].jobj = o
            /\ stack'[Len(stack)].cur = Json!NextKid(Json!Top.cur)
        BY <3>1, <4>0, WentInto
      <4>2. CASE Len(stack) = 1
        <5>1. Outermost(Json!Top, k, j)
          BY <3>1, <3>2, <4>2
        <5>2. Json!Top.cur # j
          BY <1>2, <3>1, <4>0, <5>1, NotFound, NullIsNoNode
        <5>3. \/ o = Json!Top.jobj /\ Json!Top.cur # k
              \/ o = Json!Value
          BY <1>2, <4>0, <5>1 DEF Apart, Outermost
        <5>4. Outermost(stack'[1], k, j)
          BY <1>2, <3>1, <4>1, <4>2, <5>1, <5>2, <5>3, OutermostMoves
        <5>5. QED
          BY <4>0, <5>4
      <4>3. CASE Len(stack) # 1
        <5>1. 1 \in 1..(Len(stack) - 1)
          BY <3>0, <4>3, NotAlone
        <5>2. QED
          BY <3>2, <4>0, <4>1, <5>1
      <4>4. QED
        BY <4>2, <4>3
    <3>6. CASE Fails
      BY <3>6 DEF Fails
    <3>7. CASE Returns
      <4>1. Len(stack) # 1
        <5> SUFFICES ASSUME Len(stack) = 1
                     PROVE  FALSE
          OBVIOUS
        <5>1. Json!Top.cur \in Json!Kids(1)
          BY <3>1, <3>2 DEF Outermost
        <5>2. Json!Top.cur \in Nat
          BY <3>3, <5>1, KidsAreNodes
        <5>3. QED
          BY <3>7, <5>2, NullIsNoNode DEF Returns
      <4>2. 1 \in 1..(Len(stack) - 1)
        BY <3>0, <4>1, NotAlone
      <4>3. stack'[1] = stack[1]
        BY <3>3, <3>7, <4>2, FrontOf DEF Returns
      <4>4. jsonPc' = "run"
        BY <3>7, <4>1 DEF Returns
      <4>5. QED
        BY <3>2, <4>3, <4>4
    <3>8. QED
      BY <2>3, <3>4, <3>5, <3>6, <3>7, Steps
  <2>4. QED
    BY <2>2, <2>3
<1>3. ASSUME NEW k \in Nat, NEW j \in Nat, Apart(k, j)'
      PROVE  jsonPc' # "done" /\ (jsonPc' = "run" => Outermost(stack[1], k, j)')
  BY <1>1, <1>2, <1>3, SameApart, SameOutermost
<1>4. QED
  BY <1>3 DEF ApartInv

LEMMA ApartInit ==
  ASSUME Json!Init, Json!Document(d)
  PROVE  ApartInv
<1>1. stack = <<Json!Called("json_parse", 1)>> /\ jsonPc = "run"
  BY DEF Json!Init
<1>2. ASSUME NEW k \in Nat, NEW j \in Nat, Apart(k, j)
      PROVE  Outermost(stack[1], k, j)
  <2>1. /\ k \in Json!Kids(1) /\ j \in Json!Kids(1) /\ k < j
        /\ Json!Kids(1) \in SUBSET Nat
    BY <1>2, KidsAreNodes DEF Apart
  <2>2. Json!FirstKid(1) \in Json!Kids(1) /\ Json!FirstKid(1) <= k /\ Json!FirstKid(1) \in Nat
    BY <2>1, LowestOf DEF Json!FirstKid
  <2>3. Json!FirstKid(1) <= j /\ ~ (Json!FirstKid(1) > k)
    BY <2>1, <2>2
  <2>4. stack[1].fn = "json_parse" /\ stack[1].cur = Json!FirstKid(1)
    BY <1>1 DEF Json!Called
  <2>5. QED
    BY <2>2, <2>3, <2>4 DEF Outermost
<1>3. QED
  BY <1>1, <1>2 DEF ApartInv

(***************************************************************************)
(* Of every document json_parse is called with: when no object or array    *)
(* follows an object in the same object, each scalar is printed, once and  *)
(* in the order of the text, and nothing undefined happens; when one with  *)
(* a key of its own does so in the outermost object, json_parse does not   *)
(* get to its end.                                                         *)
(***************************************************************************)
THEOREM JsonWhole == Json!Spec => []CompleteUnlessMisled
<1>1. Json!Init => WalkTyped /\ WholeInv /\ ApartInv
  BY WholeInit, ApartInit DEF WalkTyped
<1>2. WalkTyped /\ WholeInv /\ ApartInv /\ [Json!Next]_(Json!vars) => (WalkTyped /\ WholeInv /\ ApartInv)'
  BY TypedStep, WholeStep, ApartStep
<1>3. ASSUME WalkTyped, WholeInv, ApartInv
      PROVE  CompleteUnlessMisled
  <2>1. Json!Document(d)
    BY <1>3 DEF WalkTyped
  <2>2. ASSUME ~ Json!Misled
        PROVE  jsonPc # "undefined" /\ (jsonPc = "done" => Json!Complete)
    <3>1. /\ jsonPc # "undefined" /\ (jsonPc = "done" => stack = <<>>)
          /\ \E F \in Nat : \E c \in Seq(Nat) : WalkAt(F, c)
      BY <1>3, <2>2 DEF WholeInv
    <3>2. QED
      BY <2>1, <3>1, WholePrinted
  <2>3. ASSUME Json!Estranged
        PROVE  jsonPc # "done"
    <3>1. PICK k \in Nat, j \in Nat : Apart(k, j)
      BY <2>1, <2>3, EstrangedApart
    <3>2. QED
      BY <1>3, <3>1 DEF ApartInv
  <2>4. QED
    BY <2>2, <2>3 DEF CompleteUnlessMisled, Json!CompleteUnlessMisled
<1>4. QED
  BY <1>1, <1>2, <1>3, PTL DEF Json!Spec
================================================================================

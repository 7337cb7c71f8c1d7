--------------------------- MODULE MissHookProofs ---------------------------
(***************************************************************************)
(* Proofs about the callbacks of one thread (module MissHook), for any     *)
(* keys, sizes, offsets and depth of calls from within callbacks.          *)
(***************************************************************************)
EXTENDS MissHook, SequenceTheorems, TLAPS

----------------------------------------------------------------------------
(* The library's operators, where they are used. *)

\* The smaller of two lengths.
LEMMA MinPair ==
    ASSUME NEW a \in Nat, NEW b \in Nat
    PROVE  Min({a, b}) \in Nat /\ Min({a, b}) = IF a <= b THEN a ELSE b
<1>1. \E x \in {a, b} : \A y \in {a, b} : x =< y
  OBVIOUS
<1>2. Min({a, b}) \in {a, b} /\ \A y \in {a, b} : Min({a, b}) =< y
  BY <1>1 DEF Min
<1> QED  BY <1>2

\* The largest member of a set.
LEMMA MaxIs ==
    ASSUME NEW S \in SUBSET Int, NEW d \in S, \A y \in S : y <= d
    PROVE  Max(S) = d
<1>1. \E x \in S : \A y \in S : x >= y
  OBVIOUS
<1>2. Max(S) \in S /\ \A y \in S : Max(S) >= y
  BY <1>1 DEF Max
<1> DEFINE m == Max(S)
<1> HIDE DEF m
<1>3. m \in Int /\ d \in Int /\ m >= d /\ m <= d
  BY <1>2 DEF m
<1>4. m = d
  BY <1>3
<1> QED  BY <1>4 DEF m

\* A callback returns: the innermost call leaves the stack.
LEMMA FrontFacts ==
    ASSUME NEW S, NEW s \in Seq(S), s # <<>>
    PROVE  /\ Front(s) \in Seq(S)
           /\ Len(Front(s)) = Len(s) - 1
           /\ \A i \in 1 .. Len(s) - 1 : Front(s)[i] = s[i]
<1>1. Len(s) \in Nat /\ Len(s) >= 1 /\ \A i \in 1 .. Len(s) - 1 : s[i] \in S
  OBVIOUS
<1> DEFINE n == Len(s) - 1
<1>2. n \in Int /\ 1 \in Int /\ \A i \in 1 .. n : s[i] \in S
  BY <1>1
<1>3. /\ SubSeq(s, 1, n) \in Seq(S)
      /\ Len(SubSeq(s, 1, n)) = IF 1 <= n THEN n - 1 + 1 ELSE 0
      /\ \A i \in 1 .. n - 1 + 1 : SubSeq(s, 1, n)[i] = s[1 + i - 1]
  BY <1>2, SubSeqProperties
<1>4. n >= 0
  BY <1>1
<1> HIDE DEF n
<1>5. Len(SubSeq(s, 1, n)) = n
  BY <1>2, <1>3, <1>4
<1>6. ASSUME NEW i \in 1 .. n PROVE SubSeq(s, 1, n)[i] = s[i]
  <2>1. i \in 1 .. n - 1 + 1 /\ 1 + i - 1 = i
    BY <1>2
  <2> QED  BY <1>3, <2>1
<1> QED  BY <1>3, <1>5, <1>6 DEF Front, n

----------------------------------------------------------------------------
(* Types *)

Values == [put : Nat, size : Nat]

GetFrames ==
    [op : {"get"}, key : Keys, null : BOOLEAN, vbufsize : Nat, offset : Nat,
     vbuf : Seq(Nat \X Nat), offered : Values \cup {None}, overwritten : BOOLEAN]
EvictFrames ==
    [op : {"evict"}, key : Keys, value : Values \cup {None}, victim : Keys]
Frames == GetFrames \cup EvictFrames

MissTypeOK ==
    /\ stack \in Seq(Frames)
    /\ get_req \in [key : Keys \cup {None}, depth : Nat, null : BOOLEAN,
                    vbufsize : Nat, offset : Nat]
    /\ puts \in Nat

\* The bytes of a value form a sequence of the length asked for.
LEMMA BytesFacts ==
    ASSUME NEW v \in Values, NEW offset \in Nat, NEW len \in Nat
    PROVE  Bytes(v, offset, len) \in Seq(Nat \X Nat) /\ Len(Bytes(v, offset, len)) = len
<1>1. \A i \in 1 .. len : <<v.put, offset + i>> \in Nat \X Nat
  BY DEF Values
<1> QED  BY <1>1 DEF Bytes

\* Every frame of a get, and of nothing else, is a get's.
LEMMA FrameKinds ==
    /\ \A f \in Frames : f.op = "get" => f \in GetFrames
    /\ \A f \in Frames : f.op # "get" => f \in EvictFrames
    /\ \A f \in GetFrames : f.op = "get"
    /\ \A f \in EvictFrames : f.op # "get"
BY DEF Frames, GetFrames, EvictFrames

\* What the three assignments to a get's frame leave alone.
LEMMA FrameUpdates ==
    ASSUME NEW f \in GetFrames
    PROVE  /\ LET g == [f EXCEPT !.overwritten = TRUE] IN
              /\ g \in GetFrames /\ g.overwritten
              /\ g.key = f.key /\ g.vbufsize = f.vbufsize /\ g.offset = f.offset
              /\ g.null = f.null /\ g.vbuf = f.vbuf /\ g.offered = f.offered
           /\ \A v \in Values : LET g == [f EXCEPT !.offered = v] IN
              /\ g \in GetFrames /\ g.overwritten = f.overwritten
              /\ g.key = f.key /\ g.vbufsize = f.vbufsize /\ g.offset = f.offset
              /\ g.null = f.null /\ g.vbuf = f.vbuf /\ g.offered = v
           /\ \A b \in Seq(Nat \X Nat) : LET g == [f EXCEPT !.vbuf = b] IN
              /\ g \in GetFrames /\ g.overwritten = f.overwritten
              /\ g.key = f.key /\ g.vbufsize = f.vbufsize /\ g.offset = f.offset
              /\ g.null = f.null /\ g.vbuf = b /\ g.offered = f.offered
BY DEF GetFrames

----------------------------------------------------------------------------
(* The invariant.  A request that is pending is that of the innermost get.  *)
(* A get that no inner get has overwritten is itself the innermost one; as  *)
(* long as no value was offered to it its request is pending, and then the  *)
(* request holds the length served, and a buffer that is not NULL as many   *)
(* bytes.                                                                  *)

Innermost(d, gets) == d \in gets /\ \A j \in gets : j <= d

RequestInv ==
    get_req.key # None =>
        /\ Innermost(get_req.depth, Gets)
        /\ stack[get_req.depth].key = get_req.key
        /\ stack[get_req.depth].null = get_req.null
        /\ stack[get_req.depth].vbufsize = get_req.vbufsize
        /\ stack[get_req.depth].offset = get_req.offset

\* The bytes that the get of frame g is served.
Served(g) ==
    IF g.offset >= g.offered.size THEN 0
    ELSE Min({g.vbufsize, g.offered.size - g.offset})

Answered(g) ==
    /\ get_req.key = None
    /\ get_req.vbufsize = Served(g)
    /\ g.vbuf = IF g.null THEN <<>> ELSE Bytes(g.offered, 0, Served(g))

AnswerInv ==
    \A d \in Gets : ~stack[d].overwritten =>
        /\ Innermost(d, Gets)
        /\ stack[d].offered = None => get_req.key = stack[d].key
        /\ stack[d].offered # None => Answered(stack[d])

MissInv == MissTypeOK /\ RequestInv /\ AnswerInv

\* Gets are positions of the stack, and their frames are those of gets.
LEMMA GetsFacts ==
    ASSUME MissTypeOK
    PROVE  /\ Len(stack) \in Nat
           /\ Gets \subseteq 1 .. Len(stack) /\ Gets \subseteq Int
           /\ \A d \in Gets : stack[d] \in GetFrames
           /\ \A d \in 1 .. Len(stack) : stack[d] \in Frames
           /\ \A d \in 1 .. Len(stack) : d \notin Gets => stack[d] \in EvictFrames
           /\ \A d, e \in Gets : Innermost(d, Gets) /\ Innermost(e, Gets) => d = e
<1>1. /\ Len(stack) \in Nat
      /\ \A d \in 1 .. Len(stack) : stack[d] \in Frames
      /\ Gets \subseteq 1 .. Len(stack) /\ Gets \subseteq Int
  BY DEF MissTypeOK, Gets
<1>2. \A d \in Gets : stack[d] \in GetFrames
  BY <1>1, FrameKinds DEF Gets
<1>3. \A d \in 1 .. Len(stack) : d \notin Gets => stack[d] \in EvictFrames
  BY <1>1, FrameKinds DEF Gets
<1>4. \A d, e \in Gets : Innermost(d, Gets) /\ Innermost(e, Gets) => d = e
  BY <1>1 DEF Innermost
<1> QED  BY <1>1, <1>2, <1>3, <1>4

\* What is served is a length.
LEMMA ServedNat ==
    ASSUME NEW g \in GetFrames, g.offered # None
    PROVE  g.offered \in Values /\ Served(g) \in Nat
<1>1. g.offered \in Values /\ g.offset \in Nat /\ g.vbufsize \in Nat
  BY DEF GetFrames
<1>2. g.offered.size \in Nat
  BY <1>1 DEF Values
<1>3. CASE g.offset >= g.offered.size
  BY <1>1, <1>3 DEF Served
<1>4. CASE ~(g.offset >= g.offered.size)
  <2>1. g.offered.size - g.offset \in Nat
    BY <1>1, <1>2, <1>4
  <2> QED  BY <1>1, <1>4, <2>1, MinPair DEF Served
<1> QED  BY <1>1, <1>3, <1>4

\* Steps that change no frame of a get and no request.
LEMMA SameGets ==
    ASSUME MissInv, MissTypeOK', get_req' = get_req, Gets' = Gets,
           \A d \in Gets : stack'[d] = stack[d]
    PROVE  MissInv'
<1>2. RequestInv'
  BY DEF MissInv, RequestInv, Innermost
<1>3. AnswerInv'
  BY DEF MissInv, AnswerInv, Answered
<1> QED  BY <1>2, <1>3 DEF MissInv

\* A get misses: its request takes the place of any other.
LEMMA GetMissStep ==
    ASSUME MissInv, NEW k \in Keys, NEW null \in BOOLEAN, NEW n \in Nat,
           NEW offset \in Nat, GetMiss(k, null, n, offset)
    PROVE  MissInv'
<1> USE MissAssumption
<1>0. MissTypeOK
  BY DEF MissInv
<1> DEFINE old == [d \in 1 .. Len(stack) |->
                     IF d \in Gets THEN [stack[d] EXCEPT !.overwritten = TRUE]
                     ELSE stack[d]]
           new == GetFrame(k, null, n, offset)
           top == Len(stack) + 1
<1>1. new \in GetFrames /\ new.op = "get" /\ new.key = k /\ new.null = null
      /\ new.vbufsize = n /\ new.offset = offset /\ new.offered = None /\ ~new.overwritten
  BY DEF GetFrame, GetFrames
<1>2. \A d \in 1 .. Len(stack) : d \in Gets => old[d] \in GetFrames /\ old[d].overwritten
  BY <1>0, GetsFacts, FrameUpdates
<1>3. \A d \in 1 .. Len(stack) : d \notin Gets => old[d] \in EvictFrames
  BY <1>0, GetsFacts
<1>4. old \in Seq(Frames) /\ Len(old) = Len(stack)
  <2>1. \A d \in 1 .. Len(stack) : old[d] \in Frames
    BY <1>2, <1>3 DEF Frames
  <2>2. Len(stack) \in Nat /\ DOMAIN old = 1 .. Len(stack)
    BY <1>0, GetsFacts
  <2>3. old = [d \in 1 .. Len(stack) |-> old[d]]
    OBVIOUS
  <2> HIDE DEF old
  <2> QED  BY <2>1, <2>2, <2>3
<1>5. /\ stack' = Append(old, new)
      /\ get_req' = [key |-> k, depth |-> top, null |-> null,
                    vbufsize |-> n, offset |-> offset]
      /\ UNCHANGED puts
  BY DEF GetMiss
<1> HIDE DEF old, new
<1>6. /\ stack' \in Seq(Frames) /\ Len(stack') = top
      /\ \A d \in 1 .. Len(stack) : stack'[d] = old[d]
      /\ stack'[top] = new
      /\ Len(stack) \in Nat
  BY <1>0, <1>1, <1>4, <1>5, GetsFacts DEF Frames
<1>7. MissTypeOK'
  BY <1>0, <1>5, <1>6 DEF MissTypeOK
<1>8. \A d \in Gets' : d # top => stack'[d].overwritten
  <2>1. SUFFICES ASSUME NEW d \in Gets', d # top PROVE stack'[d].overwritten
    OBVIOUS
  <2>2. d \in 1 .. Len(stack) /\ stack'[d].op = "get"
    BY <1>6, <2>1 DEF Gets
  <2>3. old[d] \notin EvictFrames
    BY <1>6, <2>2, FrameKinds
  <2> QED  BY <1>2, <1>3, <1>6, <2>2, <2>3
<1>9. top \in Gets' /\ \A j \in Gets' : j <= top
  BY <1>1, <1>6 DEF Gets
<1>10. Innermost(top, Gets')
  BY <1>9 DEF Innermost
<1>11. /\ get_req'.key = k /\ get_req'.depth = top /\ get_req'.null = null
       /\ get_req'.vbufsize = n /\ get_req'.offset = offset
  BY <1>5
<1>12. RequestInv'
  BY <1>1, <1>6, <1>10, <1>11 DEF RequestInv
<1>13. AnswerInv'
  <2>1. SUFFICES ASSUME NEW d \in Gets', ~stack'[d].overwritten
                 PROVE  /\ Innermost(d, Gets')
                        /\ stack'[d].offered = None => get_req'.key = stack'[d].key
                        /\ stack'[d].offered # None => Answered(stack[d])'
    BY DEF AnswerInv
  <2>2. d = top
    BY <1>8, <2>1
  <2> QED  BY <1>1, <1>6, <1>10, <1>11, <2>2
<1> QED  BY <1>7, <1>12, <1>13 DEF MissInv

\* on_miss returns: the request is withdrawn, and the get that returns has been
\* answered as it should if no other overwrote its request.
LEMMA MissReturnStep ==
    ASSUME MissInv, MissReturn(Len(stack))
    PROVE  MissInv' /\ MissAnswered'
<1> USE MissAssumption
<1> DEFINE d == Len(stack)
           g == stack[d]
<1>0. MissTypeOK /\ stack \in Seq(Frames) /\ d \in Gets /\ d \in 1 .. Len(stack)
  BY DEF MissInv, MissTypeOK, MissReturn, Gets
<1>1. /\ stack # <<>> /\ g \in GetFrames /\ g.op = "get" /\ Len(stack) \in Nat
      /\ Innermost(d, Gets)
  BY <1>0, GetsFacts, FrameKinds DEF Innermost
<1>2. /\ result' = [get |-> g, ret |-> IF get_req.key = None THEN get_req.vbufsize ELSE -1]
      /\ get_req' = [get_req EXCEPT !.key = None]
      /\ stack' = Front(stack) /\ UNCHANGED puts
  BY DEF MissReturn
<1>3. /\ stack' \in Seq(Frames) /\ Len(stack') = d - 1
      /\ \A i \in 1 .. d - 1 : stack'[i] = stack[i]
  BY <1>0, <1>1, <1>2, FrontFacts
<1>4. get_req'.key = None
  BY <1>0, <1>2 DEF MissTypeOK
<1>5. MissTypeOK'
  BY <1>0, <1>2, <1>3 DEF MissTypeOK
<1>6. RequestInv'
  BY <1>4 DEF RequestInv
<1>7. AnswerInv'
  <2>1. SUFFICES ASSUME NEW e \in Gets', ~stack'[e].overwritten PROVE FALSE
    BY DEF AnswerInv
  <2>2. e \in 1 .. d - 1 /\ e \in Gets /\ stack'[e] = stack[e]
    BY <1>1, <1>3, <2>1 DEF Gets
  <2>3. Innermost(e, Gets)
    BY <2>1, <2>2 DEF MissInv, AnswerInv
  <2>4. e = d
    BY <1>0, <1>1, <2>2, <2>3, GetsFacts
  <2> QED  BY <1>1, <2>2, <2>4
<1>8. MissAnswered'
  <2>1. SUFFICES ASSUME ~g.overwritten
                 PROVE  IF g.offered = None THEN result'.ret = -1
                        ELSE /\ result'.ret = Len(Slice(g.offered, g.vbufsize, g.offset))
                             /\ Len(g.vbuf) = IF g.null THEN 0 ELSE result'.ret
                             /\ ~g.null /\ g.offset = 0 => g.vbuf = Slice(g.offered, g.vbufsize, 0)
    BY <1>2 DEF MissAnswered
  <2>2. /\ g.offered = None => get_req.key = g.key
        /\ g.offered # None => Answered(g)
    BY <1>0, <2>1 DEF MissInv, AnswerInv
  <2>3. CASE g.offered = None
    <3>1. get_req.key # None
      BY <1>1, <2>2, <2>3 DEF GetFrames
    <3> QED  BY <1>2, <2>3, <3>1
  <2>4. CASE g.offered # None
    <3>1. g.offered \in Values /\ Served(g) \in Nat /\ g.offset \in Nat
      BY <1>1, <2>4, ServedNat DEF GetFrames
    <3>2. /\ result'.ret = Served(g)
          /\ g.vbuf = IF g.null THEN <<>> ELSE Bytes(g.offered, 0, Served(g))
      BY <1>2, <2>2, <2>4 DEF Answered
    <3>3. Slice(g.offered, g.vbufsize, g.offset) = Bytes(g.offered, g.offset, Served(g))
      BY DEF Slice, Served
    <3>4. /\ Len(Bytes(g.offered, g.offset, Served(g))) = Served(g)
          /\ Len(Bytes(g.offered, 0, Served(g))) = Served(g)
      BY <3>1, BytesFacts
    <3> QED  BY <2>4, <3>2, <3>3, <3>4
  <2> QED  BY <2>3, <2>4
<1> QED  BY <1>5, <1>6, <1>7, <1>8 DEF MissInv

\* Offering a value to the gets that wait for its key.
LEMMA OfferedFacts ==
    ASSUME MissTypeOK, NEW k \in Keys, NEW v \in Values
    PROVE  LET s == Offered(stack, k, v) IN
           /\ s \in Seq(Frames) /\ Len(s) = Len(stack) /\ DOMAIN s = 1 .. Len(stack)
           /\ \A d \in Gets :
                 /\ s[d] \in GetFrames /\ s[d].overwritten = stack[d].overwritten
                 /\ s[d].key = stack[d].key /\ s[d].vbufsize = stack[d].vbufsize
                 /\ s[d].offset = stack[d].offset /\ s[d].null = stack[d].null
                 /\ s[d].vbuf = stack[d].vbuf
                 /\ s[d].offered = IF stack[d].key = k /\ stack[d].offered = None THEN v
                                   ELSE stack[d].offered
           /\ \A d \in 1 .. Len(stack) : d \notin Gets => s[d] = stack[d]
<1> DEFINE s == Offered(stack, k, v)
<1>0. s = [d \in 1 .. Len(stack) |->
             IF stack[d].op = "get" /\ stack[d].key = k /\ stack[d].offered = None
             THEN [stack[d] EXCEPT !.offered = v] ELSE stack[d]]
  BY DEF Offered
<1> HIDE DEF s
<1>1. ASSUME NEW d \in Gets
      PROVE  /\ s[d] \in GetFrames /\ s[d].overwritten = stack[d].overwritten
             /\ s[d].key = stack[d].key /\ s[d].vbufsize = stack[d].vbufsize
             /\ s[d].offset = stack[d].offset /\ s[d].null = stack[d].null
             /\ s[d].vbuf = stack[d].vbuf
             /\ s[d].offered = IF stack[d].key = k /\ stack[d].offered = None THEN v
                               ELSE stack[d].offered
  <2>1. d \in 1 .. Len(stack) /\ stack[d] \in GetFrames /\ stack[d].op = "get"
    BY GetsFacts, FrameKinds
  <2>2. CASE stack[d].key = k /\ stack[d].offered = None
    <3>1. s[d] = [stack[d] EXCEPT !.offered = v]
      BY <1>0, <2>1, <2>2
    <3>2. LET g == [stack[d] EXCEPT !.offered = v] IN
          /\ g \in GetFrames /\ g.overwritten = stack[d].overwritten
          /\ g.key = stack[d].key /\ g.vbufsize = stack[d].vbufsize
          /\ g.offset = stack[d].offset /\ g.null = stack[d].null
          /\ g.vbuf = stack[d].vbuf /\ g.offered = v
      BY <2>1, FrameUpdates
    <3> QED  BY <2>2, <3>1, <3>2
  <2>3. CASE ~(stack[d].key = k /\ stack[d].offered = None)
    <3>1. s[d] = stack[d]
      BY <1>0, <2>1, <2>3
    <3> QED  BY <2>1, <2>3, <3>1
  <2> QED  BY <2>2, <2>3
<1>2. ASSUME NEW d \in 1 .. Len(stack), d \notin Gets PROVE s[d] = stack[d]
  BY <1>0, <1>2 DEF Gets
<1>3. s \in Seq(Frames) /\ Len(s) = Len(stack) /\ DOMAIN s = 1 .. Len(stack)
  <2>1. \A d \in 1 .. Len(stack) : s[d] \in Frames
    BY <1>1, <1>2, GetsFacts DEF Frames
  <2>2. s = [d \in 1 .. Len(stack) |-> s[d]]
    BY <1>0
  <2>3. Len(stack) \in Nat
    BY GetsFacts
  <2> QED  BY <2>1, <2>2, <2>3
<1> QED  BY <1>1, <1>2, <1>3 DEF s

\* A put, with what it pushes on the stack: it answers the innermost get or none.
LEMMA SatisfyStep ==
    ASSUME MissInv, NEW k \in Keys, NEW v \in Values, NEW frames \in Seq(EvictFrames),
           SatisfyGet(k, v, frames), puts' \in Nat
    PROVE  MissInv'
<1> USE MissAssumption
<1> DEFINE s == Offered(stack, k, v)
           n == SatisfiedSize(v)
           t == IF get_req.key = k THEN [s EXCEPT ![get_req.depth].vbuf = Copied(v)]
                ELSE s
<1>0. MissTypeOK /\ RequestInv /\ AnswerInv /\ v # None
  BY DEF MissInv, Values
<1>1. /\ s \in Seq(Frames) /\ Len(s) = Len(stack) /\ DOMAIN s = 1 .. Len(stack)
      /\ \A d \in Gets :
            /\ s[d] \in GetFrames /\ s[d].overwritten = stack[d].overwritten
            /\ s[d].key = stack[d].key /\ s[d].vbufsize = stack[d].vbufsize
            /\ s[d].offset = stack[d].offset /\ s[d].null = stack[d].null
            /\ s[d].vbuf = stack[d].vbuf
            /\ s[d].offered = IF stack[d].key = k /\ stack[d].offered = None THEN v
                              ELSE stack[d].offered
      /\ \A d \in 1 .. Len(stack) : d \notin Gets => s[d] = stack[d]
  BY <1>0, OfferedFacts
<1>2. n \in Nat /\ Copied(v) \in Seq(Nat \X Nat)
  <2>1. get_req.offset \in Nat /\ get_req.vbufsize \in Nat /\ v.size \in Nat
    BY <1>0 DEF MissTypeOK, Values
  <2>2. ASSUME get_req.offset >= v.size PROVE n \in Nat
    BY <2>2 DEF SatisfiedSize
  <2>3. ASSUME ~(get_req.offset >= v.size) PROVE n \in Nat
    <3>1. v.size - get_req.offset \in Nat
      BY <2>1, <2>3
    <3> QED  BY <2>1, <2>3, <3>1, MinPair DEF SatisfiedSize
  <2>4. n \in Nat
    BY <2>2, <2>3
  <2>5. Bytes(v, 0, n) \in Seq(Nat \X Nat)
    BY <2>4, BytesFacts
  <2> QED  BY <2>4, <2>5 DEF Copied
<1>3. /\ stack' = t \o frames
      /\ get_req' = IF get_req.key = k THEN [get_req EXCEPT !.key = None, !.vbufsize = n]
                    ELSE get_req
  BY DEF SatisfyGet
<1> HIDE DEF s
<1>4. /\ t \in Seq(Frames) /\ Len(t) = Len(stack)
      /\ \A d \in Gets :
            /\ t[d] \in GetFrames /\ t[d].overwritten = stack[d].overwritten
            /\ t[d].key = stack[d].key /\ t[d].vbufsize = stack[d].vbufsize
            /\ t[d].offset = stack[d].offset /\ t[d].offered = s[d].offered
            /\ t[d].null = stack[d].null
            /\ t[d].vbuf = IF get_req.key = k /\ d = get_req.depth THEN Copied(v)
                           ELSE stack[d].vbuf
      /\ \A d \in 1 .. Len(stack) : d \notin Gets => t[d] = stack[d]
  <2>1. CASE get_req.key # k
    BY <1>1, <2>1
  <2>2. CASE get_req.key = k
    <3> DEFINE c == get_req.depth
               b == Copied(v)
    <3>1. c \in Gets /\ c \in 1 .. Len(stack) /\ s[c] \in GetFrames
      BY <1>0, <1>1, <2>2, GetsFacts DEF RequestInv, Innermost
    <3>2. t = [s EXCEPT ![c] = [s[c] EXCEPT !.vbuf = b]]
      BY <1>1, <2>2, <3>1
    <3> HIDE DEF t, c, b
    <3>3. b \in Seq(Nat \X Nat)
      BY <1>2 DEF b
    <3>4. LET g == [s[c] EXCEPT !.vbuf = b] IN
          /\ g \in GetFrames /\ g.overwritten = s[c].overwritten
          /\ g.key = s[c].key /\ g.vbufsize = s[c].vbufsize /\ g.offset = s[c].offset
          /\ g.null = s[c].null /\ g.vbuf = b /\ g.offered = s[c].offered
      BY <3>1, <3>3, FrameUpdates
    <3>5. /\ t[c] = [s[c] EXCEPT !.vbuf = b]
          /\ \A d \in 1 .. Len(stack) : d # c => t[d] = s[d]
          /\ DOMAIN t = 1 .. Len(stack)
      BY <1>1, <3>1, <3>2
    <3>6. \A d \in Gets :
            /\ t[d] \in GetFrames /\ t[d].overwritten = stack[d].overwritten
            /\ t[d].key = stack[d].key /\ t[d].vbufsize = stack[d].vbufsize
            /\ t[d].offset = stack[d].offset /\ t[d].offered = s[d].offered
            /\ t[d].null = stack[d].null
            /\ t[d].vbuf = IF d = c THEN b ELSE stack[d].vbuf
      <4>1. SUFFICES ASSUME NEW d \in Gets
                     PROVE  /\ t[d] \in GetFrames /\ t[d].overwritten = stack[d].overwritten
                            /\ t[d].key = stack[d].key /\ t[d].vbufsize = stack[d].vbufsize
                            /\ t[d].offset = stack[d].offset /\ t[d].offered = s[d].offered
                            /\ t[d].null = stack[d].null
                            /\ t[d].vbuf = IF d = c THEN b ELSE stack[d].vbuf
        OBVIOUS
      <4>2. d \in 1 .. Len(stack)
        BY <1>0, GetsFacts
      <4>3. CASE d = c
        BY <1>1, <3>4, <3>5, <4>3
      <4>4. CASE d # c
        BY <1>1, <3>5, <4>2, <4>4
      <4> QED  BY <4>3, <4>4
    <3>7. \A d \in 1 .. Len(stack) : d \notin Gets => t[d] = stack[d]
      BY <1>1, <3>1, <3>5
    <3>8. t \in Seq(Frames) /\ Len(t) = Len(stack)
      <4>1. \A d \in 1 .. Len(stack) : t[d] \in Frames
        BY <1>0, <3>6, <3>7, GetsFacts DEF Frames
      <4>2. t = [d \in 1 .. Len(stack) |-> t[d]]
        BY <1>1, <3>2, <3>5
      <4>3. Len(stack) \in Nat
        BY <1>0, GetsFacts
      <4> QED  BY <4>1, <4>2, <4>3
    <3> QED  BY <2>2, <3>6, <3>7, <3>8 DEF c, b
  <2> QED  BY <2>1, <2>2
<1> HIDE DEF t, n
<1>5. /\ stack' \in Seq(Frames) /\ Len(stack') = Len(stack) + Len(frames)
      /\ \A d \in 1 .. Len(stack) : stack'[d] = t[d]
      /\ \A d \in 1 .. Len(stack') : d \notin 1 .. Len(stack) => stack'[d] \in EvictFrames
  <2>1. frames \in Seq(Frames)
    BY DEF Frames
  <2>2. Len(stack) \in Nat /\ Len(frames) \in Nat
    BY <1>0, GetsFacts
  <2>3. /\ stack' \in Seq(Frames) /\ Len(stack') = Len(stack) + Len(frames)
        /\ \A d \in 1 .. Len(stack) : stack'[d] = t[d]
    <3>0. t \in Seq(Frames)
      BY <1>4
    <3>1. /\ t \o frames \in Seq(Frames)
          /\ Len(t \o frames) = Len(t) + Len(frames)
          /\ \A i \in 1 .. Len(t) + Len(frames) : (t \o frames)[i] =
                IF i <= Len(t) THEN t[i] ELSE frames[i - Len(t)]
      BY <2>1, <3>0, ConcatProperties, Zenon
    <3>2. ASSUME NEW d \in 1 .. Len(stack) PROVE stack'[d] = t[d]
      <4>1. d \in 1 .. Len(t) + Len(frames) /\ d <= Len(t)
        BY <1>4, <2>2
      <4> QED  BY <1>3, <3>1, <4>1
    <3> QED  BY <1>3, <1>4, <3>1, <3>2
  <2>4. ASSUME NEW d \in 1 .. Len(stack'), d \notin 1 .. Len(stack)
        PROVE  stack'[d] \in EvictFrames
    <3>1. d - Len(stack) \in 1 .. Len(frames)
      BY <2>2, <2>3, <2>4
    <3>2. stack'[d] = frames[d - Len(stack)]
      BY <1>3, <1>4, <2>1, <2>2, <2>3, <2>4, ConcatProperties
    <3> QED  BY <3>1, <3>2
  <2> QED  BY <2>3, <2>4
<1>6. Gets' = Gets
  <2>1. ASSUME NEW d \in Gets' PROVE d \in Gets
    <3>1. d \in 1 .. Len(stack') /\ stack'[d].op = "get"
      BY <2>1 DEF Gets
    <3>2. d \in 1 .. Len(stack)
      BY <1>5, <3>1, FrameKinds
    <3>3. d \notin Gets => stack'[d] \in EvictFrames
      BY <1>0, <1>4, <1>5, <3>2, GetsFacts
    <3> QED  BY <3>1, <3>3, FrameKinds
  <2>2. ASSUME NEW d \in Gets PROVE d \in Gets'
    <3>1. d \in 1 .. Len(stack) /\ Len(stack) \in Nat /\ Len(frames) \in Nat
      BY <1>0, GetsFacts
    <3>2. d \in 1 .. Len(stack') /\ stack'[d] \in GetFrames
      BY <1>4, <1>5, <3>1
    <3> QED  BY <3>2, FrameKinds DEF Gets
  <2> QED  BY <2>1, <2>2
<1>7. \A d \in Gets : stack'[d] = t[d]
  BY <1>0, <1>5, GetsFacts
<1>8. MissTypeOK'
  BY <1>0, <1>2, <1>3, <1>5 DEF MissTypeOK
<1>9. RequestInv'
  <2>1. SUFFICES ASSUME get_req'.key # None
                 PROVE  /\ Innermost(get_req'.depth, Gets')
                        /\ stack'[get_req'.depth].key = get_req'.key
                        /\ stack'[get_req'.depth].null = get_req'.null
                        /\ stack'[get_req'.depth].vbufsize = get_req'.vbufsize
                        /\ stack'[get_req'.depth].offset = get_req'.offset
    BY DEF RequestInv
  <2>2. get_req' = get_req
    BY <1>0, <1>3, <2>1 DEF MissTypeOK
  <2>3. Innermost(get_req.depth, Gets)
    BY <1>0, <2>1, <2>2 DEF RequestInv
  <2>4. get_req.depth \in Gets
    BY <2>3 DEF Innermost
  <2> QED  BY <1>0, <1>4, <1>6, <1>7, <2>1, <2>2, <2>3, <2>4 DEF RequestInv
<1>10. AnswerInv'
  <2>1. SUFFICES ASSUME NEW d \in Gets, ~stack'[d].overwritten
                 PROVE  /\ Innermost(d, Gets)
                        /\ stack'[d].offered = None => get_req'.key = stack'[d].key
                        /\ stack'[d].offered # None => Answered(stack[d])'
    BY <1>6 DEF AnswerInv
  <2>2. /\ stack'[d] = t[d] /\ t[d] \in GetFrames /\ stack[d] \in GetFrames
        /\ ~stack[d].overwritten /\ stack[d].key \in Keys
    BY <1>0, <1>4, <1>7, <2>1, GetsFacts DEF GetFrames
  <2>3. /\ Innermost(d, Gets)
        /\ stack[d].offered = None => get_req.key = stack[d].key
        /\ stack[d].offered # None => Answered(stack[d])
    BY <1>0, <2>2 DEF AnswerInv
  <2>4. CASE stack[d].offered = None /\ stack[d].key = k
    <3>1. get_req.key = k /\ get_req.key # None
      BY <2>2, <2>3, <2>4
    <3>2. get_req.depth = d
      BY <1>0, <2>3, <3>1, GetsFacts DEF RequestInv, Innermost
    <3>3. t[d].offered = v /\ t[d].vbuf = Copied(v)
      BY <1>1, <1>4, <2>4, <3>1, <3>2
    <3>4. get_req'.key = None /\ get_req'.vbufsize = n
      BY <1>0, <1>3, <3>1 DEF MissTypeOK
    <3>5. /\ t[d].vbufsize = get_req.vbufsize /\ t[d].offset = get_req.offset
          /\ t[d].null = get_req.null
      BY <1>0, <1>4, <3>1, <3>2 DEF RequestInv
    <3>6. Served(t[d]) = n
      BY <3>3, <3>5 DEF Served, SatisfiedSize, n
    <3>7. t[d].vbuf = IF t[d].null THEN <<>> ELSE Bytes(v, 0, n)
      BY <3>3, <3>5 DEF Copied, n
    <3> QED  BY <1>0, <2>2, <2>3, <3>3, <3>4, <3>6, <3>7 DEF Answered
  <2>5. CASE stack[d].offered = None /\ stack[d].key # k
    <3>1. get_req.key # k /\ get_req' = get_req
      BY <1>3, <2>3, <2>5
    <3> QED  BY <1>1, <1>4, <2>2, <2>3, <2>5, <3>1
  <2>6. CASE stack[d].offered # None
    <3>1. get_req.key = None /\ Answered(stack[d])
      BY <2>3, <2>6 DEF Answered
    <3>2. get_req' = get_req
      BY <1>3, <3>1
    <3>3. /\ t[d].offered = stack[d].offered /\ t[d].vbuf = stack[d].vbuf
          /\ t[d].vbufsize = stack[d].vbufsize /\ t[d].offset = stack[d].offset
          /\ t[d].null = stack[d].null
      BY <1>1, <1>4, <2>6, <3>1
    <3> QED  BY <2>2, <2>3, <2>6, <3>1, <3>2, <3>3 DEF Answered, Served
  <2> QED  BY <2>4, <2>5, <2>6
<1> QED  BY <1>8, <1>9, <1>10 DEF MissInv

\* Calls of on_evict by an evict of the application come and go without touching
\* a get.
LEMMA EvictStep ==
    ASSUME MissInv, NEW victim \in Keys, Evict(victim)
    PROVE  MissInv'
<1> DEFINE new == EvictFrame(victim, None, victim)
<1>0. MissTypeOK
  BY DEF MissInv
<1>1. get_req' = get_req /\ puts' = puts
  BY DEF Evict
<1>2. CASE stack' = stack
  <2>1. MissTypeOK' /\ Gets' = Gets
    BY <1>0, <1>1, <1>2 DEF MissTypeOK, Gets
  <2> QED  BY <1>1, <1>2, <2>1, SameGets
<1>3. CASE stack' = Append(stack, new)
  <2>1. new \in EvictFrames /\ new \in Frames
    BY DEF EvictFrame, EvictFrames, Frames
  <2> HIDE DEF new
  <2>2. Len(stack) \in Nat /\ stack \in Seq(Frames)
    BY <1>0, GetsFacts DEF MissTypeOK
  <2>3. /\ stack' \in Seq(Frames) /\ Len(stack') = Len(stack) + 1
        /\ \A d \in 1 .. Len(stack) : stack'[d] = stack[d]
        /\ stack'[Len(stack) + 1] = new
    BY <1>3, <2>1, <2>2
  <2>4. \A d \in 1 .. Len(stack') : d \in 1 .. Len(stack) \/ d = Len(stack) + 1
    BY <2>2, <2>3
  <2>5. 1 .. Len(stack) \subseteq 1 .. Len(stack')
    BY <2>2, <2>3
  <2>6. new.op # "get"
    BY <2>1, FrameKinds
  <2>7. Gets' = Gets
    BY <2>3, <2>4, <2>5, <2>6 DEF Gets
  <2>8. \A d \in Gets : stack'[d] = stack[d]
    BY <2>3 DEF Gets
  <2>9. MissTypeOK'
    BY <1>0, <1>1, <2>3 DEF MissTypeOK
  <2> QED  BY <1>1, <2>7, <2>8, <2>9, SameGets
<1> QED  BY <1>2, <1>3 DEF Evict

\* on_evict returns: its frame, which is no get's, goes or names another victim.
LEMMA EvictReturnStep ==
    ASSUME MissInv, EvictReturn(Len(stack))
    PROVE  MissInv'
<1> DEFINE c == Len(stack)
<1>0. MissTypeOK /\ stack \in Seq(Frames) /\ c \in Nat /\ c > 0 /\ c \notin Gets
  BY GetsFacts DEF MissInv, MissTypeOK, EvictReturn
<1>1. get_req' = get_req /\ puts' = puts /\ stack # <<>> /\ c \in 1 .. Len(stack)
  BY <1>0 DEF EvictReturn
<1>2. CASE stack' = Front(stack)
  <2>1. /\ stack' \in Seq(Frames) /\ Len(stack') = Len(stack) - 1
        /\ \A d \in 1 .. Len(stack) - 1 : stack'[d] = stack[d]
    BY <1>0, <1>1, <1>2, FrontFacts
  <2>2. \A d \in 1 .. Len(stack) : d # c => d \in 1 .. Len(stack) - 1
    BY <1>0
  <2>3. 1 .. Len(stack) - 1 \subseteq 1 .. Len(stack)
    BY <1>0
  <2>4. Gets' = Gets
    BY <1>0, <2>1, <2>2, <2>3 DEF Gets
  <2>5. \A d \in Gets : stack'[d] = stack[d]
    BY <1>0, <2>1, <2>2 DEF Gets
  <2>6. MissTypeOK'
    BY <1>0, <1>1, <2>1 DEF MissTypeOK
  <2> QED  BY <1>1, <2>4, <2>5, <2>6, SameGets
<1>3. ASSUME NEW victim \in Keys, stack' = [stack EXCEPT ![c].victim = victim]
      PROVE  MissInv'
  <2>1. stack[c] \in EvictFrames
    BY <1>0, <1>1, GetsFacts
  <2>2. [stack[c] EXCEPT !.victim = victim] \in EvictFrames
    BY <2>1 DEF EvictFrames
  <2> DEFINE new == [stack[c] EXCEPT !.victim = victim]
  <2>3. stack' = [stack EXCEPT ![c] = new]
    BY <1>3
  <2>4. new \in Frames /\ new.op # "get" /\ stack[c].op # "get"
    BY <2>1, <2>2, FrameKinds DEF Frames
  <2> HIDE DEF new
  <2>5. /\ stack' \in Seq(Frames) /\ Len(stack') = Len(stack)
        /\ \A d \in 1 .. Len(stack) : d # c => stack'[d] = stack[d]
        /\ stack'[c] = new
    BY <1>0, <1>1, <2>3, <2>4
  <2>6. Gets' = Gets
    BY <2>4, <2>5 DEF Gets
  <2>7. \A d \in Gets : stack'[d] = stack[d]
    BY <1>0, <2>5 DEF Gets
  <2>8. MissTypeOK'
    BY <1>0, <1>1, <2>5 DEF MissTypeOK
  <2> QED  BY <1>1, <2>6, <2>7, <2>8, SameGets
<1> QED  BY <1>2, <1>3 DEF EvictReturn

\* A put of any outcome.
LEMMA PutStep ==
    ASSUME MissInv, NEW k \in Keys, NEW size \in Sizes,
           \/ PutFails(k, size)
           \/ \E victims \in SUBSET Keys : Put(k, size, victims)
           \/ \E victim \in Keys : PutEvicts(k, size, victim)
    PROVE  MissInv'
<1> DEFINE v == Value(puts + 1, size)
<1>1. puts \in Nat /\ size \in Nat
  BY MissAssumption DEF MissInv, MissTypeOK
<1>2. v \in Values /\ puts + 1 \in Nat
  BY <1>1 DEF Value, Values
<1> HIDE DEF v
<1>3. CASE PutFails(k, size) \/ \E victims \in SUBSET Keys : Put(k, size, victims)
  <2>1. SatisfyGet(k, v, <<>>) /\ puts' = puts + 1
    BY <1>3 DEF Put, PutFails, v
  <2>2. <<>> \in Seq(EvictFrames)
    OBVIOUS
  <2> QED  BY <1>2, <2>1, <2>2, SatisfyStep
<1>4. ASSUME NEW victim \in Keys, PutEvicts(k, size, victim) PROVE MissInv'
  <2>1. SatisfyGet(k, v, <<EvictFrame(k, v, victim)>>) /\ puts' = puts + 1
    BY <1>4 DEF PutEvicts, v
  <2>2. EvictFrame(k, v, victim) \in EvictFrames
    BY <1>2 DEF EvictFrame, EvictFrames
  <2>3. <<EvictFrame(k, v, victim)>> \in Seq(EvictFrames)
    BY <2>2
  <2> QED  BY <1>2, <2>1, <2>3, SatisfyStep
<1> QED  BY <1>3, <1>4

\* Calls that run no callback change neither the stack nor the request.
LEMMA QuietStep ==
    ASSUME MissInv, UNCHANGED <<get_req, stack, puts>>
    PROVE  MissInv'
<1>1. MissTypeOK' /\ Gets' = Gets
  BY DEF MissInv, MissTypeOK, Gets
<1> QED  BY <1>1, SameGets

\* The invariant holds at the start, and MissAnswered with it.
LEMMA MissInit ==
    Init => MissInv /\ MissAnswered
<1> USE MissAssumption
<1> SUFFICES ASSUME Init PROVE MissInv /\ MissAnswered
  OBVIOUS
<1>1. stack = <<>> /\ get_req = NoRequest /\ puts = 0 /\ result = None
  BY DEF Init
<1>2. get_req.key = None
  BY <1>1 DEF NoRequest
<1>3. MissTypeOK
  BY <1>1 DEF MissTypeOK, NoRequest
<1>4. Gets = {}
  BY <1>1 DEF Gets
<1> QED  BY <1>1, <1>2, <1>3, <1>4 DEF MissInv, RequestInv, AnswerInv, MissAnswered

\* Every step keeps the invariant, and only on_miss's return leaves a result.
LEMMA MissNext ==
    MissInv /\ MissAnswered /\ [Next]_vars => MissInv' /\ MissAnswered'
<1> USE MissAssumption
<1> SUFFICES ASSUME MissInv, MissAnswered, [Next]_vars PROVE MissInv' /\ MissAnswered'
  OBVIOUS
<1>1. ASSUME result' = None PROVE MissAnswered'
  BY <1>1 DEF MissAnswered
<1>2. ASSUME NEW k \in Keys, GetHit(k) \/ GetNoHook(k) \/ OtherThread(k)
      PROVE  MissInv' /\ MissAnswered'
  <2>1. UNCHANGED <<get_req, stack, puts>> /\ result' = None
    BY <1>2 DEF GetHit, GetNoHook, OtherThread
  <2> QED  BY <1>1, <2>1, QuietStep
<1>3. ASSUME NEW k \in Keys, Evict(k) PROVE MissInv' /\ MissAnswered'
  <2>1. result' = None
    BY <1>3 DEF Evict
  <2> QED  BY <1>1, <1>3, <2>1, EvictStep
<1>4. ASSUME NEW k \in Keys, NEW null \in BOOLEAN, NEW n \in BufSizes,
             NEW offset \in Offsets, GetMiss(k, null, n, offset)
      PROVE  MissInv' /\ MissAnswered'
  <2>1. n \in Nat /\ offset \in Nat
    OBVIOUS
  <2>2. result' = None
    BY <1>4 DEF GetMiss
  <2> QED  BY <1>1, <1>4, <2>1, <2>2, GetMissStep
<1>5. ASSUME NEW k \in Keys, NEW size \in Sizes,
             \/ PutFails(k, size)
             \/ \E victims \in SUBSET Keys : Put(k, size, victims)
             \/ \E victim \in Keys : PutEvicts(k, size, victim)
      PROVE  MissInv' /\ MissAnswered'
  <2>1. result' = None
    BY <1>5 DEF PutFails, Put, PutEvicts
  <2> QED  BY <1>1, <1>5, <2>1, PutStep
<1>6. CASE MissReturn(Len(stack))
  BY <1>6, MissReturnStep
<1>7. CASE EvictReturn(Len(stack))
  <2>1. result' = None
    BY <1>7 DEF EvictReturn
  <2> QED  BY <1>1, <1>7, <2>1, EvictReturnStep
<1>8. ASSUME NEW m \in BOOLEAN, NEW e \in BOOLEAN, SetHooks(m, e)
      PROVE  MissInv' /\ MissAnswered'
  <2>1. UNCHANGED <<get_req, stack, puts>> /\ result' = None
    BY <1>8 DEF SetHooks
  <2> QED  BY <1>1, <2>1, QuietStep
<1>9. CASE UNCHANGED vars
  <2>1. UNCHANGED <<get_req, stack, puts>> /\ UNCHANGED result
    BY <1>9 DEF vars
  <2> QED  BY <2>1, QuietStep DEF MissAnswered
<1> QED  BY <1>2, <1>3, <1>4, <1>5, <1>6, <1>7, <1>8, <1>9 DEF Next

----------------------------------------------------------------------------

\* However deep callbacks call the cache again, a request that is pending is that
\* of the innermost get in on_miss, with its key, buffer size and offset: no put
\* writes to the buffer of a get that has returned.
THEOREM MissHookRequest == Spec => []RequestOfRunningGet
<1>1. MissInv => RequestOfRunningGet
  <2> SUFFICES ASSUME MissInv, get_req.key # None
               PROVE  /\ Gets # {} /\ get_req.depth = Max(Gets)
                      /\ stack[get_req.depth].key = get_req.key
                      /\ stack[get_req.depth].null = get_req.null
                      /\ stack[get_req.depth].vbufsize = get_req.vbufsize
                      /\ stack[get_req.depth].offset = get_req.offset
    BY DEF RequestOfRunningGet
  <2>1. /\ get_req.depth \in Gets /\ \A j \in Gets : j <= get_req.depth
        /\ stack[get_req.depth].key = get_req.key
        /\ stack[get_req.depth].null = get_req.null
        /\ stack[get_req.depth].vbufsize = get_req.vbufsize
        /\ stack[get_req.depth].offset = get_req.offset
    BY DEF MissInv, RequestInv, Innermost
  <2>2. Gets \in SUBSET Int
    BY GetsFacts DEF MissInv
  <2>3. Max(Gets) = get_req.depth
    BY <2>1, <2>2, MaxIs
  <2> QED  BY <2>1, <2>3
<1> QED  BY <1>1, MissInit, MissNext, PTL DEF Spec

\* A get that missed and whose request no inner get overwrote returns what a hit
\* would return of the value that its callback put, as many bytes at any offset
\* and, unless its buffer is NULL, the same bytes at offset 0, also if the value did not fit into the cache
\* or its key is there already; without a put of the key it fails.
THEOREM MissHookAnswered == Spec => []MissAnswered
BY MissInit, MissNext, PTL DEF Spec
=============================================================================

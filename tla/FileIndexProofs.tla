--------------------------- MODULE FileIndexProofs ---------------------------
(***************************************************************************)
(* Proofs about module FileIndex, for all keys, values and bounds: its     *)
(* invariants, and that it implements module KVStore.                      *)
(*                                                                         *)
(* A line is described by the tokens at it and around it (LineAt), which   *)
(* says how a write changes the lines of a file: none is lost, and at most *)
(* the written one is new.                                                 *)
(***************************************************************************)
EXTENDS FileIndex, SequenceTheorems, Extrema

Token == Half \cup {NL}

\* A whole line of k, between two newlines or the ends of the file.
LineAt(f, k, loc) ==
    /\ loc = [off |-> loc.off, len |-> 2]
    /\ loc.off \in Nat /\ loc.off + 2 <= Len(f)
    /\ loc.off = 0 \/ f[loc.off] = NL
    /\ f[loc.off + 1] \in Half /\ f[loc.off + 1].half = 1 /\ f[loc.off + 1].key = k
    /\ f[loc.off + 2] = [f[loc.off + 1] EXCEPT !.half = 2]
    /\ loc.off + 2 = Len(f) \/ f[loc.off + 3] = NL

Torn(f) == f # <<>> /\ f[Len(f)] # NL

-----------------------------------------------------------------------------
(* Lines. *)

LEMMA NLIsNoHalf == NL \notin Half /\ NL.half = 0
BY DEF NL, Half

LEMMA MinIs ==
    ASSUME NEW S \in SUBSET Nat, S # {}
    PROVE  Min(S) \in S /\ \A y \in S : Min(S) <= y
<1>1. \E x \in S : \A y \in S : x <= y
  BY MinExists
<1> QED
  BY <1>1 DEF Min

\* The line that starts at o ends before the first newline after it, or with the file.
LEMMA EndFromIs ==
    ASSUME NEW f \in Seq(Token), NEW o \in Nat
    PROVE  /\ EndFrom(f, o) \in Nat /\ EndFrom(f, o) <= Len(f)
           /\ EndFrom(f, o) = Len(f) \/ (EndFrom(f, o) >= o /\ f[EndFrom(f, o) + 1] = NL)
           /\ \A i \in 1 .. Len(f) : i > o /\ f[i] = NL => EndFrom(f, o) < i
<1> DEFINE S == { i - 1 : i \in Starts(f) \ 0 .. o } \cup {Len(f)}
<1>1. Len(f) \in Nat /\ \A i \in Starts(f) \ 0 .. o : i \in 1 .. Len(f) /\ i > o /\ f[i] = NL
  BY DEF Starts
<1>2. S \in SUBSET Nat /\ S # {}
  BY <1>1
<1>3. \A i \in 1 .. Len(f) : i > o /\ f[i] = NL => i - 1 \in S
  BY DEF Starts
<1>4. EndFrom(f, o) = Min(S)
  BY DEF EndFrom
<1>5. Min(S) \in S /\ \A y \in S : Min(S) <= y
  BY <1>2, MinIs
<1>6. ASSUME NEW i \in 1 .. Len(f), i > o, f[i] = NL PROVE EndFrom(f, o) < i
  <2>1. i - 1 \in S
    BY <1>3, <1>6
  <2>2. EndFrom(f, o) <= i - 1 /\ EndFrom(f, o) \in Nat
    BY <1>2, <1>4, <1>5, <2>1
  <2> QED
    BY <2>2
<1>7. EndFrom(f, o) \in S
  BY <1>4, <1>5
<1>8. EndFrom(f, o) \in Nat /\ EndFrom(f, o) <= Len(f)
  BY <1>1, <1>2, <1>4, <1>5, <1>7
<1>9. EndFrom(f, o) = Len(f) \/ (EndFrom(f, o) >= o /\ f[EndFrom(f, o) + 1] = NL)
  BY <1>1, <1>7
<1> QED
  BY <1>6, <1>8, <1>9

LEMMA LinesAreThere ==
    ASSUME NEW f \in Seq(Token), NEW k \in Key, NEW loc
    PROVE  loc \in LinesOf(f, k) <=> LineAt(f, k, loc)
<1>1. Len(f) \in Nat /\ \A i \in 1 .. Len(f) : f[i] \in Token
  OBVIOUS
<1>2. ASSUME loc \in LinesOf(f, k) PROVE LineAt(f, k, loc)
  <2>1. PICK o \in Starts(f) : loc = [off |-> o, len |-> EndFrom(f, o) - o]
    BY <1>2 DEF LinesOf, LinesIn
  <2>2. /\ loc.len = 2 /\ f[o + 1].half = 1 /\ f[o + 1].key = k
        /\ f[o + 2] = [f[o + 1] EXCEPT !.half = 2]
    BY <1>2, <2>1 DEF LinesOf, Whole
  <2>3. o \in Nat /\ (o = 0 \/ f[o] = NL)
    BY <1>1 DEF Starts
  <2>4. EndFrom(f, o) = o + 2
    BY <2>1, <2>2, <2>3, EndFromIs
  <2>5. o + 2 <= Len(f) /\ (o + 2 = Len(f) \/ f[o + 3] = NL)
    <3>1. o + 2 <= Len(f) /\ (o + 2 = Len(f) \/ f[(o + 2) + 1] = NL)
      BY <2>3, <2>4, EndFromIs
    <3> QED
      BY <2>3, <3>1
  <2>6. f[o + 1] \in Half
    BY <1>1, <2>2, <2>3, <2>5, NLIsNoHalf DEF Token
  <2> QED
    BY <2>1, <2>2, <2>3, <2>4, <2>5, <2>6 DEF LineAt
<1>3. ASSUME LineAt(f, k, loc) PROVE loc \in LinesOf(f, k)
  <2> DEFINE o == loc.off
  <2>1. o \in Nat /\ o + 2 <= Len(f) /\ o \in Starts(f)
    BY <1>1, <1>3 DEF LineAt, Starts
  <2>2. f[o + 1] # NL /\ f[o + 2] # NL
    BY <1>3, NLIsNoHalf DEF LineAt, Half
  <2>3. EndFrom(f, o) = o + 2
    <3>1. EndFrom(f, o) \in Nat /\ EndFrom(f, o) <= o + 2
      BY <1>1, <1>3, <2>1, EndFromIs DEF LineAt
    <3>2. ASSUME EndFrom(f, o) = o \/ EndFrom(f, o) = o + 1 PROVE FALSE
      <4>1. EndFrom(f, o) # Len(f)
        BY <1>1, <2>1, <3>2
      <4>2. f[EndFrom(f, o) + 1] = NL
        BY <2>1, <4>1, EndFromIs
      <4>3. f[o + 1] = NL \/ f[(o + 1) + 1] = NL
        BY <3>2, <4>2
      <4> QED
        BY <2>1, <2>2, <4>3
    <3>3. EndFrom(f, o) >= o
      <4>1. EndFrom(f, o) # Len(f) => EndFrom(f, o) >= o
        BY <2>1, EndFromIs
      <4>2. Len(f) >= o
        BY <1>1, <2>1
      <4> QED
        BY <4>1, <4>2
    <3> QED
      BY <2>1, <3>1, <3>2, <3>3
  <2>4. loc \in LinesIn(f)
    BY <1>3, <2>1, <2>3 DEF LineAt, LinesIn
  <2> QED
    BY <1>3, <2>4 DEF LineAt, LinesOf, Whole
<1> QED
  BY <1>2, <1>3

\* Of the lines of a key there is a last one.
LEMMA LatestIs ==
    ASSUME NEW f \in Seq(Token), NEW k \in Key
    PROVE  /\ LinesOf(f, k) = {} => Rebuilt(f)[k] = NoLoc
           /\ LinesOf(f, k) # {} => LineAt(f, k, Rebuilt(f)[k])
           /\ \A loc \in LinesOf(f, k) : loc.off <= Rebuilt(f)[k].off
<1>1. Rebuilt(f)[k] = Latest(LinesOf(f, k))
  BY DEF Rebuilt
<1>2. CASE LinesOf(f, k) = {}
  BY <1>1, <1>2 DEF Latest
<1>3. CASE LinesOf(f, k) # {}
  <2> DEFINE offs == { loc.off : loc \in LinesOf(f, k) }
  <2>1. \A loc \in LinesOf(f, k) : loc.off \in 0 .. Len(f)
    <3>1. ASSUME NEW loc \in LinesOf(f, k) PROVE loc.off \in Nat /\ loc.off + 2 <= Len(f)
      BY LinesAreThere DEF LineAt
    <3>2. Len(f) \in Nat
      OBVIOUS
    <3> QED
      BY <3>1, <3>2
  <2>2. PICK x \in offs : \A y \in offs : x >= y
    <3>1. Len(f) \in Nat /\ offs \in SUBSET (0 .. Len(f)) /\ offs # {}
      BY <1>3, <2>1
    <3> HIDE DEF offs
    <3> QED
      BY <3>1, MaxExists
  <2>3. \E loc \in LinesOf(f, k) : \A other \in LinesOf(f, k) : other.off <= loc.off
    BY <2>1, <2>2
  <2>4. /\ Latest(LinesOf(f, k)) \in LinesOf(f, k)
        /\ \A other \in LinesOf(f, k) : other.off <= Latest(LinesOf(f, k)).off
    BY <1>3, <2>3 DEF Latest
  <2> QED
    BY <1>1, <1>3, <2>4, LinesAreThere
<1> QED
  BY <1>2, <1>3

-----------------------------------------------------------------------------
(* What a write does to the lines. *)

FirstHalf(k, v) == [key |-> k, val |-> v, half |-> 1]
SecondHalf(k, v) == [key |-> k, val |-> v, half |-> 2]
Place(o) == [off |-> o, len |-> 2]

\* The file f with n tokens of a line of k and v, after s newlines that seal it, is g.
Grown(f, g, s, n, k, v) ==
    /\ Len(g) = Len(f) + n
    /\ \A i \in 1 .. Len(f) : g[i] = f[i]
    /\ n >= 1 /\ s = 1 => g[Len(f) + 1] = NL
    /\ n >= s + 1 => g[Len(f) + s + 1] = FirstHalf(k, v)
    /\ n >= s + 2 => g[Len(f) + s + 2] = SecondHalf(k, v)
    /\ n >= s + 3 => g[Len(f) + s + 3] = NL

\* No line is lost, and only the written one can be new.
LEMMA LinesGrown ==
    ASSUME NEW f \in Seq(Token), NEW g \in Seq(Token), NEW s \in {0, 1}, NEW n \in 0 .. s + 3,
           NEW k \in Key, NEW v \in Val, Grown(f, g, s, n, k, v), s = 1 <=> Torn(f),
           NEW q \in Key, NEW loc
    PROVE  LineAt(g, q, loc) <=> LineAt(f, q, loc) \/ (q = k /\ n >= s + 2 /\ loc = Place(Len(f) + s))
<1>1. Len(f) \in Nat /\ Len(g) \in Nat /\ Len(g) = Len(f) + n /\ \A i \in 1 .. Len(f) : g[i] = f[i]
  BY DEF Grown
<1>n. Len(f) \in Nat /\ Len(g) = Len(f) + n /\ n \in Nat
  BY <1>1
<1>2. FirstHalf(k, v) # NL /\ SecondHalf(k, v) # NL /\ FirstHalf(k, v) \in Half
  BY DEF FirstHalf, SecondHalf, NL, Half
<1>3. \A t : LineAt(f, q, t) \/ LineAt(g, q, t) => t = Place(t.off) /\ t.off \in Nat
  BY DEF LineAt, Place
<1>4. ASSUME LineAt(f, q, loc) PROVE LineAt(g, q, loc)
  <2> DEFINE o == loc.off
  <2>1. /\ o \in Nat /\ o + 2 <= Len(f)
        /\ g[o + 1] = f[o + 1] /\ g[o + 2] = f[o + 2] /\ (o = 0 \/ g[o] = NL)
    <3>1. o \in Nat /\ o + 2 <= Len(f) /\ (o = 0 \/ f[o] = NL)
      BY <1>4 DEF LineAt
    <3> HIDE DEF o
    <3>2. o + 1 \in 1 .. Len(f) /\ o + 2 \in 1 .. Len(f) /\ (o # 0 => o \in 1 .. Len(f))
      BY <1>n, <3>1
    <3> QED
      BY <1>1, <3>1, <3>2
  <2>2. o + 2 = Len(g) \/ g[o + 3] = NL
    <3>1. CASE o + 2 = Len(f)
      <4>1. f[Len(f)] # NL /\ f # <<>>
        <5>1. f[Len(f)] = [f[o + 1] EXCEPT !.half = 2] /\ f[o + 1] \in Half
          BY <1>4, <3>1 DEF LineAt
        <5>2. f[Len(f)].half = 2
          BY <5>1 DEF Half
        <5> QED
          BY <2>1, <3>1, <5>2, NLIsNoHalf
      <4>2. s = 1
        BY <4>1 DEF Torn
      <4>3. n = 0 \/ g[Len(f) + 1] = NL
        BY <4>2 DEF Grown
      <4>4. Len(f) + 1 = o + 3
        BY <2>1, <3>1
      <4> QED
        BY <1>1, <3>1, <4>3, <4>4
    <3>2. CASE o + 2 # Len(f)
      <4>1. f[o + 3] = NL /\ o + 3 \in 1 .. Len(f)
        BY <1>1, <1>4, <2>1, <3>2 DEF LineAt
      <4> QED
        BY <1>1, <4>1
    <3> QED
      BY <3>1, <3>2
  <2>3. o + 2 <= Len(g)
    BY <1>1, <2>1
  <2> QED
    BY <1>4, <2>1, <2>2, <2>3 DEF LineAt
<1>5. ASSUME q = k, n >= s + 2, loc = Place(Len(f) + s) PROVE LineAt(g, q, loc)
  <2> DEFINE o == Len(f) + s
  <2>1. /\ loc = [off |-> loc.off, len |-> 2] /\ loc.off = o /\ o \in Nat /\ o + 2 <= Len(g)
    BY <1>1, <1>5 DEF Place
  <2>2. o = 0 \/ g[o] = NL
    <3>1. CASE s = 1
      BY <1>1, <1>5, <3>1 DEF Grown
    <3>2. CASE s = 0
      <4>1. Len(f) = 0 \/ f[Len(f)] = NL
        BY <3>2 DEF Torn
      <4> QED
        BY <1>1, <3>2, <4>1
    <3> QED
      BY <3>1, <3>2
  <2>3. g[o + 1] = FirstHalf(k, v) /\ g[o + 2] = SecondHalf(k, v)
    BY <1>5 DEF Grown
  <2>4. SecondHalf(k, v) = [FirstHalf(k, v) EXCEPT !.half = 2] /\ FirstHalf(k, v).half = 1
        /\ FirstHalf(k, v).key = k
    BY DEF FirstHalf, SecondHalf
  <2>5. o + 2 = Len(g) \/ g[o + 3] = NL
    <3>1. CASE n = s + 2
      BY <1>1, <3>1
    <3>2. CASE n = s + 3
      BY <3>2 DEF Grown
    <3> QED
      BY <1>5, <3>1, <3>2
  <2> QED
    BY <1>2, <1>5, <2>1, <2>2, <2>3, <2>4, <2>5 DEF LineAt
<1>6. ASSUME LineAt(g, q, loc)
      PROVE  LineAt(f, q, loc) \/ (q = k /\ n >= s + 2 /\ loc = Place(Len(f) + s))
  <2> DEFINE o == loc.off
  <2>1. /\ o \in Nat /\ o + 2 <= Len(g) /\ (o = 0 \/ g[o] = NL) /\ loc = Place(o)
        /\ g[o + 1] \in Half /\ g[o + 1].half = 1 /\ g[o + 1].key = q
        /\ g[o + 2] = [g[o + 1] EXCEPT !.half = 2] /\ (o + 2 = Len(g) \/ g[o + 3] = NL)
    BY <1>3, <1>6 DEF LineAt
  <2>n. o \in Nat /\ o + 2 <= Len(g)
    BY <2>1
  <2>2. g[o + 1] # NL /\ g[o + 2] # NL
    BY <2>1, NLIsNoHalf DEF Half
  <2>3. CASE o + 2 <= Len(f)
    <3>1. g[o + 1] = f[o + 1] /\ g[o + 2] = f[o + 2] /\ (o = 0 \/ f[o] = NL)
      <4>1. o + 1 \in 1 .. Len(f) /\ o + 2 \in 1 .. Len(f) /\ (o # 0 => o \in 1 .. Len(f))
        BY <1>n, <2>n, <2>3
      <4> HIDE DEF o
      <4> QED
        BY <1>1, <2>1, <4>1
    <3>2. o + 2 = Len(f) \/ f[o + 3] = NL
      <4>1. o + 2 # Len(f) => o + 3 \in 1 .. Len(f) /\ o + 2 # Len(g)
        BY <1>n, <2>n, <2>3
      <4> HIDE DEF o
      <4> QED
        BY <1>1, <2>1, <4>1
    <3> QED
      BY <1>6, <2>1, <2>3, <3>1, <3>2 DEF LineAt
  <2>4. CASE o + 1 = Len(f)
    <3>1. f[Len(f)] # NL /\ f # <<>>
      <4>1. Len(f) \in 1 .. Len(f) /\ f # <<>>
        BY <1>1, <2>1, <2>4
      <4>2. f[Len(f)] = g[o + 1]
        BY <1>1, <2>4, <4>1
      <4> QED
        BY <2>2, <4>1, <4>2
    <3>2. g[Len(f) + 1] = NL
      BY <1>1, <2>1, <2>4, <3>1 DEF Torn, Grown
    <3> QED
      BY <2>1, <2>2, <2>4, <3>2
  <2>5. CASE o >= Len(f)
    <3>1. PICK d \in 0 .. n - 2 : o = Len(f) + d
      <4>1. o - Len(f) \in 0 .. n - 2 /\ o = Len(f) + (o - Len(f))
        BY <1>1, <2>1, <2>5
      <4> QED
        BY <4>1
    <3>2. d >= s
      <4>1. s = 1 /\ d = 0 => g[o + 1] = NL
        BY <1>1, <3>1 DEF Grown
      <4> QED
        BY <2>2, <3>1, <4>1
    <3>3. d <= s
      <4> SUFFICES ASSUME d = s + 1 PROVE FALSE
        BY <3>1, <3>2
      <4>1. n >= s + 1 /\ o = Len(f) + s + 1
        BY <1>1, <3>1
      <4>2. g[o] = FirstHalf(k, v)
        BY <4>1 DEF Grown
      <4> QED
        BY <1>1, <1>2, <2>1, <4>1, <4>2
    <3>4. d = s /\ n >= s + 2 /\ o = Len(f) + s
      BY <3>1, <3>2, <3>3
    <3>5. g[o + 1] = FirstHalf(k, v)
      BY <3>4 DEF Grown
    <3> QED
      BY <2>1, <3>4, <3>5 DEF FirstHalf
  <2> QED
    BY <1>1, <2>1, <2>3, <2>4, <2>5
<1> QED
  BY <1>4, <1>5, <1>6

-----------------------------------------------------------------------------
(* The inductive invariant. *)

LinesKept == open => \A k \in Key : idx[k] # NoLoc => LineAt(file, k, idx[k])

\* The line of a Put that was written in full is the last of the file.
PutInFile ==
    ~Idle =>
        /\ open /\ put \in [key : Key, val : Val, n : Nat]
        /\ put.n = 0 =>
              /\ size - 3 \in Nat /\ LineAt(file, put.key, Place(size - 3))
              /\ file[size - 2].val = put.val

IInv == TypeOK /\ TailKnown /\ LinesKept /\ PutInFile /\ RecoverableUnlessWeak

LEMMA LineIs ==
    ASSUME NEW k \in Key, NEW v \in Val
    PROVE  Line(k, v) = <<FirstHalf(k, v), SecondHalf(k, v)>>
BY DEF Line, FirstHalf, SecondHalf

\* What a Put writes: the newline that seals a torn tail, the line, its newline.
LEMMA BufferIs ==
    ASSUME TypeOK, NEW k \in Key, NEW v \in Val
    PROVE  LET buf == Append(Seal \o Line(k, v), NL)
               s == IF unterminated THEN 1 ELSE 0
           IN  /\ buf \in Seq(Token) /\ Len(buf) = s + 3
               /\ s = 1 => buf[1] = NL
               /\ buf[s + 1] = FirstHalf(k, v) /\ buf[s + 2] = SecondHalf(k, v) /\ buf[s + 3] = NL
<1> DEFINE h == FirstHalf(k, v)
           t == SecondHalf(k, v)
<1>1. h \in Token /\ t \in Token /\ NL \in Token
  BY DEF FirstHalf, SecondHalf, Token, Half
<1>2. Line(k, v) = <<h, t>>
  BY LineIs
<1> HIDE DEF h, t
<1> DEFINE s == IF unterminated THEN 1 ELSE 0
           line == <<h, t>>
           text == Seal \o line
<1>3. line \in Seq(Token) /\ Len(line) = 2 /\ line[1] = h /\ line[2] = t
  BY <1>1
<1>4. Seal \in Seq(Token) /\ Len(Seal) = s /\ (s = 1 => Seal[1] = NL) /\ s \in {0, 1}
  BY <1>1 DEF Seal
<1> HIDE DEF s, line
<1>5. /\ text \in Seq(Token) /\ Len(text) = s + 2
      /\ \A i \in 1 .. s + 2 : text[i] = IF i <= s THEN Seal[i] ELSE line[i - s]
  <2>1. /\ text \in Seq(Token) /\ Len(text) = Len(Seal) + Len(line)
        /\ \A i \in 1 .. Len(Seal) + Len(line) :
              text[i] = IF i <= Len(Seal) THEN Seal[i] ELSE line[i - Len(Seal)]
    BY <1>3, <1>4, ConcatProperties
  <2> HIDE DEF text
  <2> QED
    BY <1>3, <1>4, <2>1
<1>6. text[s + 1] = h /\ text[s + 2] = t /\ (s = 1 => text[1] = NL)
  BY <1>3, <1>4, <1>5
<1> HIDE DEF text
<1>7. /\ Append(text, NL) \in Seq(Token) /\ Len(Append(text, NL)) = s + 3
      /\ \A i \in 1 .. s + 2 : Append(text, NL)[i] = text[i]
      /\ Append(text, NL)[s + 3] = NL
  BY <1>1, <1>4, <1>5
<1>8. /\ s = 1 => Append(text, NL)[1] = NL
      /\ Append(text, NL)[s + 1] = h /\ Append(text, NL)[s + 2] = t
  BY <1>4, <1>6, <1>7
<1>9. Append(text, NL) = Append(Seal \o Line(k, v), NL)
  BY <1>2 DEF text, line
<1> QED
  BY <1>7, <1>8, <1>9 DEF s, h, t

LEMMA WriteGrows ==
    ASSUME IInv, NEW k \in Key, NEW v \in Val, NEW n \in 0 .. 4, Write(k, v, n)
    PROVE  LET s == IF unterminated THEN 1 ELSE 0
           IN  /\ s \in {0, 1} /\ n \in 0 .. s + 3 /\ (s = 1 <=> Torn(file))
               /\ file \in Seq(Token) /\ size = Len(file)
               /\ file' \in Seq(Token) /\ Grown(file, file', s, n, k, v)
               /\ size' = Len(file') /\ unterminated' \in BOOLEAN /\ (unterminated' <=> Torn(file'))
               /\ put' = [key |-> k, val |-> v, n |-> s + 3 - n]
               /\ weak' = IF n >= s + 2 THEN weak \cup {k} ELSE weak
<1> DEFINE s == IF unterminated THEN 1 ELSE 0
           buf == Append(Seal \o Line(k, v), NL)
<1>1. /\ buf \in Seq(Token) /\ Len(buf) = s + 3 /\ s \in {0, 1}
      /\ s = 1 => buf[1] = NL
      /\ buf[s + 1] = FirstHalf(k, v) /\ buf[s + 2] = SecondHalf(k, v) /\ buf[s + 3] = NL
  BY BufferIs DEF IInv
<1>2. /\ open /\ n \in 0 .. Len(buf) /\ file' = Spliced(buf, n) /\ Advance(buf, n)
      /\ put' = [key |-> k, val |-> v, n |-> Len(buf) - n]
      /\ weak' = IF n >= Len(buf) - 1 THEN weak \cup {k} ELSE weak
  BY DEF Write
<1> HIDE DEF buf
<1>3. file \in Seq(Token) /\ size = Len(file) /\ (s = 1 <=> Torn(file))
  BY <1>2 DEF IInv, TypeOK, TailKnown, Torn, Token
<1>4. n \in 0 .. s + 3
  BY <1>1, <1>2
<1> HIDE DEF s
<1>5. /\ SubSeq(buf, 1, n) \in Seq(Token) /\ Len(SubSeq(buf, 1, n)) = n
      /\ \A i \in 1 .. n : SubSeq(buf, 1, n)[i] = buf[i]
  BY <1>1, <1>4
<1>6. file' = file \o SubSeq(buf, 1, n)
  <2>1. SubSeq(file, 1, size) = file
    BY <1>3, SubSeqFull
  <2>2. SubSeq(file, size + n + 1, Len(file)) = <<>>
    BY <1>3, <1>4, SubSeqEmpty
  <2>3. file \o SubSeq(buf, 1, n) \in Seq(Token)
    BY <1>3, <1>5, ConcatProperties
  <2> QED
    BY <1>2, <2>1, <2>2, <2>3, ConcatEmptySeq DEF Spliced
<1>7. /\ file' \in Seq(Token) /\ Len(file') = Len(file) + n
      /\ \A i \in 1 .. Len(file) + n :
            file'[i] = IF i <= Len(file) THEN file[i] ELSE SubSeq(buf, 1, n)[i - Len(file)]
  BY <1>3, <1>5, <1>6, ConcatProperties
<1>8. \A i \in 1 .. n : file'[Len(file) + i] = buf[i]
  <2> SUFFICES ASSUME NEW i \in 1 .. n PROVE file'[Len(file) + i] = buf[i]
    OBVIOUS
  <2>1. Len(file) \in Nat /\ Len(file) + i \in 1 .. Len(file) + n /\ ~(Len(file) + i <= Len(file))
        /\ (Len(file) + i) - Len(file) = i
    BY <1>3, <1>4
  <2> QED
    BY <1>5, <1>7, <2>1
<1>9. Grown(file, file', s, n, k, v)
  <2>1. Len(file) \in Nat /\ \A i \in 1 .. Len(file) : file'[i] = file[i]
    BY <1>3, <1>4, <1>7
  <2>2. /\ n >= 1 /\ s = 1 => file'[Len(file) + 1] = NL
        /\ n >= s + 1 => file'[Len(file) + (s + 1)] = FirstHalf(k, v)
        /\ n >= s + 2 => file'[Len(file) + (s + 2)] = SecondHalf(k, v)
        /\ n >= s + 3 => file'[Len(file) + (s + 3)] = NL
    BY <1>1, <1>4, <1>8
  <2>3. /\ Len(file) + (s + 1) = Len(file) + s + 1 /\ Len(file) + (s + 2) = Len(file) + s + 2
        /\ Len(file) + (s + 3) = Len(file) + s + 3
    BY <1>1, <2>1
  <2> QED
    BY <1>7, <2>1, <2>2, <2>3 DEF Grown
<1>10. size' = Len(file') /\ unterminated' \in BOOLEAN /\ (unterminated' <=> Torn(file'))
  <2>1. size' = Len(file')
    BY <1>2, <1>3, <1>7 DEF Advance
  <2>2. CASE n = 0
    <3>1. file' = file
      <4>1. SubSeq(buf, 1, n) = <<>>
        BY <2>2, SubSeqEmpty
      <4> QED
        BY <1>3, <1>6, <4>1, ConcatEmptySeq
    <3>2. unterminated' = unterminated /\ unterminated \in BOOLEAN
      BY <1>2, <2>2 DEF Advance, IInv, TypeOK
    <3>3. unterminated <=> Torn(file)
      BY <1>3, <3>2 DEF s
    <3> QED
      BY <2>1, <3>1, <3>2, <3>3 DEF Torn
  <2>3. CASE n > 0
    <3>1. unterminated' = (buf[n] # NL)
      BY <1>2, <2>3 DEF Advance
    <3>2. file'[Len(file')] = buf[n] /\ file' # <<>>
      BY <1>3, <1>4, <1>7, <1>8, <2>3
    <3> QED
      BY <2>1, <3>1, <3>2 DEF Torn
  <2> QED
    BY <1>4, <2>1, <2>2, <2>3
<1> QED
  BY <1>1, <1>2, <1>3, <1>4, <1>7, <1>9, <1>10 DEF s

-----------------------------------------------------------------------------
(* The steps. *)

LEMMA InitIInv == ASSUME Init PROVE IInv
<1>1. file \in Seq(Half \cup {NL})
  <2>1. PICK k \in Key, v \in Val :
           file \in { <<>>, <<NL>>, Line(k, v), Append(Line(k, v), NL), SubSeq(Line(k, v), 1, 1) }
    BY DEF Init
  <2> DEFINE h == FirstHalf(k, v)
             t == SecondHalf(k, v)
  <2>2. h \in Half /\ t \in Half /\ Line(k, v) = <<h, t>>
    BY LineIs DEF FirstHalf, SecondHalf, Half
  <2> HIDE DEF h, t
  <2>3. <<h, t>> \in Seq(Half \cup {NL}) /\ Len(<<h, t>>) = 2
    BY <2>2
  <2>4. Append(<<h, t>>, NL) \in Seq(Half \cup {NL}) /\ SubSeq(<<h, t>>, 1, 1) \in Seq(Half \cup {NL})
    BY <2>3
  <2>5. <<>> \in Seq(Half \cup {NL}) /\ <<NL>> \in Seq(Half \cup {NL})
    OBVIOUS
  <2> QED
    BY <2>1, <2>2, <2>3, <2>4, <2>5
<1>2. TypeOK
  <2>1. Len(file) \in Nat /\ NoLoc \in [off : 0 .. Len(file), len : 0 .. Len(file)]
    BY <1>1 DEF NoLoc
  <2>2. idx \in [Key -> [off : 0 .. Len(file), len : 0 .. Len(file)]]
    BY <2>1 DEF Init
  <2>3. size \in 0 .. Len(file) /\ faults \in 0 .. MaxFaults
    BY <2>1, BoundAssumption DEF Init
  <2> QED
    BY <1>1, <2>2, <2>3 DEF Init, TypeOK
<1>3. TailKnown /\ LinesKept /\ PutInFile /\ RecoverableUnlessWeak
  BY DEF Init, TailKnown, LinesKept, PutInFile, RecoverableUnlessWeak, Idle
<1> QED
  BY <1>2, <1>3 DEF IInv

LEMMA RebuiltIs ==
    ASSUME NEW f \in Seq(Token), NEW k \in Key
    PROVE  Rebuilt(f)[k] = NoLoc \/ LineAt(f, k, Rebuilt(f)[k])
BY LatestIs

LEMMA SameLines ==
    ASSUME NEW f, NEW g, NEW k \in Key, \A loc : loc \in LinesOf(f, k) <=> loc \in LinesOf(g, k)
    PROVE  Rebuilt(f)[k] = Rebuilt(g)[k]
<1>1. LinesOf(f, k) = LinesOf(g, k)
  OBVIOUS
<1> QED
  BY <1>1 DEF Rebuilt

LEMMA OpenPreserves == ASSUME IInv, Open PROVE IInv'
<1>1. file \in Seq(Token) /\ Len(file) \in Nat /\ Idle
  BY DEF Open, IInv, TypeOK, PutInFile, Token
<1>2. /\ open' = TRUE /\ size' = Len(file) /\ idx' = Rebuilt(file) /\ weak' = {}
      /\ unterminated' = (file # <<>> /\ file[Len(file)] # NL) /\ UNCHANGED <<file, put, faults>>
  BY DEF Open
<1>3. \A k \in Key : Rebuilt(file)[k] \in [off : 0 .. Len(file), len : 0 .. Len(file)]
  <2> SUFFICES ASSUME NEW k \in Key
               PROVE  Rebuilt(file)[k] \in [off : 0 .. Len(file), len : 0 .. Len(file)]
    OBVIOUS
  <2>1. CASE Rebuilt(file)[k] = NoLoc
    BY <1>1, <2>1 DEF NoLoc
  <2>2. CASE LineAt(file, k, Rebuilt(file)[k])
    <3> DEFINE o == Rebuilt(file)[k].off
    <3>1. Rebuilt(file)[k] = [off |-> o, len |-> 2] /\ o \in Nat /\ o + 2 <= Len(file)
      BY <2>2 DEF LineAt
    <3> HIDE DEF o
    <3>2. o \in 0 .. Len(file) /\ 2 \in 0 .. Len(file)
      BY <1>1, <3>1
    <3> QED
      BY <3>1, <3>2
  <2> QED
    BY <1>1, <2>1, <2>2, RebuiltIs
<1>4. TypeOK'
  <2>1. idx' \in [Key -> [off : 0 .. Len(file), len : 0 .. Len(file)]]
    BY <1>2, <1>3 DEF Rebuilt
  <2> QED
    BY <1>1, <1>2, <2>1 DEF IInv, TypeOK
<1>5. TailKnown'
  BY <1>2 DEF TailKnown
<1>6. LinesKept'
  BY <1>1, <1>2, RebuiltIs DEF LinesKept
<1>7. PutInFile' /\ RecoverableUnlessWeak'
  BY <1>1, <1>2 DEF PutInFile, Idle, RecoverableUnlessWeak
<1> QED
  BY <1>4, <1>5, <1>6, <1>7 DEF IInv

\* How the lines of a file change when a Put writes to it.
LEMMA WriteLines ==
    ASSUME IInv, NEW k \in Key, NEW v \in Val, NEW n \in 0 .. 4, Write(k, v, n), NEW q \in Key
    PROVE  /\ \A loc : LineAt(file, q, loc) => LineAt(file', q, loc)
           /\ q \notin weak' => Rebuilt(file')[q] = Rebuilt(file)[q]
<1> DEFINE s == IF unterminated THEN 1 ELSE 0
<1>1. /\ s \in {0, 1} /\ n \in 0 .. s + 3 /\ (s = 1 <=> Torn(file))
      /\ file \in Seq(Token) /\ file' \in Seq(Token) /\ Grown(file, file', s, n, k, v)
      /\ weak' = IF n >= s + 2 THEN weak \cup {k} ELSE weak
  BY WriteGrows
<1> HIDE DEF s
<1>2. \A loc : LineAt(file', q, loc) <=>
                  LineAt(file, q, loc) \/ (q = k /\ n >= s + 2 /\ loc = Place(Len(file) + s))
  BY <1>1, LinesGrown
<1>3. ASSUME q \notin weak' PROVE Rebuilt(file')[q] = Rebuilt(file)[q]
  <2>1. \A loc : LineAt(file', q, loc) <=> LineAt(file, q, loc)
    BY <1>1, <1>2, <1>3
  <2>2. \A loc : loc \in LinesOf(file', q) <=> loc \in LinesOf(file, q)
    BY <1>1, <2>1, LinesAreThere
  <2> QED
    BY <2>2, SameLines
<1> QED
  BY <1>2, <1>3

LEMMA WritePreserves ==
    ASSUME IInv, NEW k \in Key, NEW v \in Val, NEW n \in 0 .. 4, Write(k, v, n)
    PROVE  IInv'
<1> DEFINE s == IF unterminated THEN 1 ELSE 0
<1>1. /\ s \in {0, 1} /\ n \in 0 .. s + 3 /\ (s = 1 <=> Torn(file))
      /\ file \in Seq(Token) /\ size = Len(file)
      /\ file' \in Seq(Token) /\ Grown(file, file', s, n, k, v)
      /\ size' = Len(file') /\ unterminated' \in BOOLEAN /\ (unterminated' <=> Torn(file'))
      /\ put' = [key |-> k, val |-> v, n |-> s + 3 - n]
      /\ weak' = IF n >= s + 2 THEN weak \cup {k} ELSE weak
  BY WriteGrows
<1> HIDE DEF s
<1>2. open /\ UNCHANGED <<open, idx>> /\ faults' \in 0 .. MaxFaults
  <2>1. CASE UNCHANGED faults
    BY <2>1 DEF Write, IInv, TypeOK
  <2>2. CASE faults < MaxFaults /\ faults' = faults + 1
    BY <2>2, BoundAssumption DEF Write, IInv, TypeOK
  <2> QED
    BY <2>1, <2>2 DEF Write
<1>3. Len(file) \in Nat /\ Len(file') \in Nat /\ Len(file) <= Len(file')
  BY <1>1 DEF Grown
<1>4. TypeOK'
  <2>1. idx' \in [Key -> [off : 0 .. Len(file'), len : 0 .. Len(file')]]
    <3>1. 0 .. Len(file) \subseteq 0 .. Len(file')
      BY <1>3
    <3>2. idx \in [Key -> [off : 0 .. Len(file), len : 0 .. Len(file)]] /\ idx' = idx
      BY <1>2 DEF IInv, TypeOK
    <3> QED
      BY <3>1, <3>2
  <2>2. put' \in [key : Key, val : Val, n : Nat]
    <3>1. s + 3 - n \in Nat
      BY <1>1
    <3> QED
      BY <1>1, <3>1
  <2>3. file' \in Seq(Half \cup {NL}) /\ size' \in 0 .. Len(file') /\ weak' \subseteq Key
    BY <1>1, <1>3 DEF Token, IInv, TypeOK
  <2>4. open' \in BOOLEAN
    BY <1>2 DEF IInv, TypeOK
  <2> QED
    BY <1>1, <1>2, <2>1, <2>2, <2>3, <2>4 DEF TypeOK
<1>5. TailKnown'
  BY <1>1 DEF TailKnown, Torn
<1>6. LinesKept'
  BY <1>2, WriteLines DEF LinesKept, IInv
<1>7. PutInFile'
  <2>1. put' \in [key : Key, val : Val, n : Nat] /\ put'.n = s + 3 - n /\ put'.key = k /\ put'.val = v
    <3>1. s + 3 - n \in Nat
      BY <1>1
    <3> QED
      BY <1>1, <3>1
  <2>2. ASSUME put'.n = 0
        PROVE  /\ size' - 3 \in Nat /\ LineAt(file', k, Place(size' - 3))
               /\ file'[size' - 2].val = v
    <3>1. n = s + 3 /\ size' = Len(file) + s + 3
      BY <1>1, <2>1, <2>2 DEF Grown
    <3>2. size' - 3 = Len(file) + s /\ size' - 2 = Len(file) + s + 1 /\ size' - 3 \in Nat
      BY <1>1, <1>3, <3>1
    <3>3. LineAt(file', k, Place(Len(file) + s))
      BY <1>1, <3>1, LinesGrown
    <3>4. file'[Len(file) + s + 1] = FirstHalf(k, v)
      BY <1>1, <3>1 DEF Grown
    <3> QED
      BY <3>2, <3>3, <3>4 DEF FirstHalf
  <2> QED
    BY <1>2, <2>1, <2>2 DEF PutInFile
<1>8. RecoverableUnlessWeak'
  <2> SUFFICES ASSUME NEW q \in Key \ weak' PROVE Rebuilt(file')[q] = idx'[q]
    BY DEF RecoverableUnlessWeak
  <2>1. q \notin weak
    BY <1>1
  <2>2. Rebuilt(file)[q] = idx[q]
    BY <1>2, <2>1 DEF IInv, RecoverableUnlessWeak
  <2> QED
    BY <1>2, <2>2, WriteLines
<1> QED
  BY <1>4, <1>5, <1>6, <1>7, <1>8 DEF IInv

\* The line just written is the one a scan finds for its key.
LEMMA PutDoneFound ==
    ASSUME IInv, ~Idle, put.n = 0
    PROVE  Rebuilt(file)[put.key] = Place(size - 3)
<1> DEFINE k == put.key
           found == Rebuilt(file)[k]
<1>1. /\ file \in Seq(Token) /\ k \in Key /\ size = Len(file) /\ size \in Nat
      /\ size - 3 \in Nat /\ LineAt(file, k, Place(size - 3))
  BY DEF IInv, TypeOK, TailKnown, PutInFile, Token
<1>2. Place(size - 3) \in LinesOf(file, k)
  BY <1>1, LinesAreThere
<1>3. LineAt(file, k, found) /\ size - 3 <= found.off
  <2>1. Place(size - 3).off <= found.off
    BY <1>1, <1>2, LatestIs
  <2>2. LineAt(file, k, found)
    BY <1>1, <1>2, LatestIs
  <2> QED
    BY <2>1, <2>2 DEF Place
<1>4. file[size] = NL
  <2>1. Place(size - 3).off + 2 # Len(file) /\ Place(size - 3).off + 3 = size
    BY <1>1 DEF Place
  <2> QED
    BY <1>1, <2>1 DEF LineAt
<1>5. found.off \in Nat /\ found.off + 2 <= size /\ found = Place(found.off)
  BY <1>1, <1>3 DEF LineAt, Place
<1>6. found.off + 2 # size
  <2> SUFFICES ASSUME found.off + 2 = size PROVE FALSE
    OBVIOUS
  <2>1. file[found.off + 2] = [file[found.off + 1] EXCEPT !.half = 2] /\ file[found.off + 1] \in Half
    BY <1>3 DEF LineAt
  <2>2. file[found.off + 2].half = 2
    BY <2>1 DEF Half
  <2>3. file[found.off + 2] = NL
    BY <1>4
  <2> QED
    BY <2>2, <2>3, NLIsNoHalf
<1>7. found.off = size - 3
  BY <1>1, <1>3, <1>5, <1>6
<1> QED
  BY <1>5, <1>7

LEMMA PutDonePreserves == ASSUME IInv, PutDone PROVE IInv'
<1>1. /\ file \in Seq(Token) /\ put.key \in Key /\ size = Len(file) /\ size \in Nat /\ open
      /\ size - 3 \in Nat /\ LineAt(file, put.key, Place(size - 3))
  BY DEF PutDone, IInv, TypeOK, TailKnown, PutInFile, Token
<1>2. /\ idx' = [idx EXCEPT ![put.key] = Place(size - 3)] /\ put' = NoPut
      /\ weak' = weak \ {put.key} /\ UNCHANGED <<file, open, size, unterminated, faults>>
  BY DEF PutDone, Place
<1>3. Place(size - 3) \in [off : 0 .. Len(file), len : 0 .. Len(file)]
  BY <1>1 DEF Place
<1>4. TypeOK'
  BY <1>1, <1>2, <1>3 DEF IInv, TypeOK
<1>5. TailKnown' /\ PutInFile'
  BY <1>2 DEF IInv, TailKnown, PutInFile, Idle
<1>6. \A k \in Key : idx'[k] = IF k = put.key THEN Place(size - 3) ELSE idx[k]
  BY <1>2 DEF IInv, TypeOK
<1>7. LinesKept'
  BY <1>1, <1>2, <1>6 DEF IInv, LinesKept
<1>8. RecoverableUnlessWeak'
  BY <1>1, <1>2, <1>6, PutDoneFound DEF PutDone, IInv, RecoverableUnlessWeak
<1> QED
  BY <1>4, <1>5, <1>7, <1>8 DEF IInv

LEMMA DeletePreserves == ASSUME IInv, NEW k \in Key, Delete(k) PROVE IInv'
<1>1. /\ open /\ Idle /\ idx' = [idx EXCEPT ![k] = NoLoc]
      /\ weak' = (IF idx[k] = NoLoc THEN weak ELSE weak \cup {k})
      /\ UNCHANGED <<file, open, size, unterminated, put, faults>>
  BY DEF Delete
<1>2. \A q \in Key : idx'[q] = IF q = k THEN NoLoc ELSE idx[q]
  BY <1>1 DEF IInv, TypeOK
<1>3. TypeOK'
  <2>1. Len(file) \in Nat /\ NoLoc \in [off : 0 .. Len(file), len : 0 .. Len(file)]
    BY DEF NoLoc, IInv, TypeOK
  <2> QED
    BY <1>1, <2>1 DEF IInv, TypeOK
<1>4. TailKnown' /\ PutInFile'
  BY <1>1 DEF IInv, TailKnown, PutInFile, Idle
<1>5. LinesKept'
  BY <1>1, <1>2 DEF IInv, LinesKept
<1>6. RecoverableUnlessWeak'
  BY <1>1, <1>2 DEF IInv, RecoverableUnlessWeak
<1> QED
  BY <1>3, <1>4, <1>5, <1>6 DEF IInv

\* A Put gives up, or the index goes away: the file stays as it is.
LEMMA StopPreserves == ASSUME IInv, PutFails \/ Close \/ Crash PROVE IInv'
<1>1. UNCHANGED <<file, mem, weak, faults>> /\ put' = NoPut /\ open' \in BOOLEAN /\ (open' => open)
  <2>1. CASE PutFails
    BY <2>1 DEF PutFails, IInv, TypeOK
  <2>2. CASE Close
    BY <2>2 DEF Close, Idle
  <2>3. CASE Crash
    BY <2>3 DEF Crash
  <2> QED
    BY <2>1, <2>2, <2>3
<1>2. TypeOK'
  BY <1>1 DEF mem, IInv, TypeOK
<1>3. TailKnown' /\ LinesKept' /\ PutInFile' /\ RecoverableUnlessWeak'
  BY <1>1 DEF mem, IInv, TailKnown, LinesKept, PutInFile, RecoverableUnlessWeak, Idle
<1> QED
  BY <1>2, <1>3 DEF IInv

LEMMA StepIInv == ASSUME IInv, [Next]_vars PROVE IInv'
<1>1. ASSUME NEW k \in Key, NEW v \in Val, NEW n \in 0 .. 4, Write(k, v, n) PROVE IInv'
  BY <1>1, WritePreserves
<1>2. ASSUME NEW k \in Key, Delete(k) PROVE IInv'
  BY <1>2, DeletePreserves
<1>3. CASE UNCHANGED vars
  BY <1>3 DEF vars, mem, IInv, TypeOK, TailKnown, LinesKept, PutInFile, RecoverableUnlessWeak, Idle
<1> QED
  BY <1>1, <1>2, <1>3, OpenPreserves, PutDonePreserves, StopPreserves DEF Next

-----------------------------------------------------------------------------
(* Invariants. *)

\* The inductive invariant, from which the results below follow.
THEOREM Invariance == Spec => []IInv
BY InitIInv, StepIInv, PTL DEF Spec

\* The index, the offset and the Put under way are what the code takes them for.
THEOREM TypeCorrect == Spec => []TypeOK
<1>1. IInv => TypeOK
  BY DEF IInv
<1> QED
  BY <1>1, Invariance, PTL

\* After writes cut short at any point the offset and the flag describe the file
\* (fileindex.go Put).
THEOREM TailIsKnown == Spec => []TailKnown
<1>1. IInv => TailKnown
  BY DEF IInv
<1> QED
  BY <1>1, Invariance, PTL

\* No write merges with a torn tail or with a line: every indexed place is a whole line of
\* its key (fileindex.go Put, "seals it").
THEOREM LinesStayWhole == Spec => []LinesAreWhole
<1>1. IInv => LinesAreWhole
  <2> SUFFICES ASSUME IInv, open, NEW k \in Key, idx[k] # NoLoc
               PROVE  idx[k] \in LinesOf(file, k)
    BY DEF LinesAreWhole
  <2>1. file \in Seq(Token) /\ LineAt(file, k, idx[k])
    BY DEF IInv, TypeOK, LinesKept, Token
  <2> QED
    BY <2>1, LinesAreThere
<1> QED
  BY <1>1, Invariance, PTL

\* A reopen finds what reads return, except for a key deleted since its last Put or left
\* whole in the file by a Put that failed (fileindex.go OpenFileIndex, Delete).
THEOREM ReopenRecovers == Spec => []RecoverableUnlessWeak
<1>1. IInv => RecoverableUnlessWeak
  BY DEF IInv
<1> QED
  BY <1>1, Invariance, PTL

-----------------------------------------------------------------------------
(* The refinement of KVStore. *)

kvOf == IF open THEN Content ELSE Recovered

LEMMA ReadLine ==
    ASSUME NEW f \in Seq(Token), NEW k \in Key, NEW loc, LineAt(f, k, loc)
    PROVE  ReadAt(f, loc) = f[loc.off + 1].val /\ ReadAt(f, loc) \in Val
<1>1. loc # NoLoc
  BY DEF LineAt, NoLoc
<1>2. Whole(f, loc)
  BY DEF LineAt, Whole
<1>3. f[loc.off + 1].val \in Val
  BY DEF LineAt, Half
<1> QED
  BY <1>1, <1>2, <1>3 DEF ReadAt

LEMMA ContentIs ==
    /\ Content = [k \in Key |-> Content[k]] /\ Content' = [k \in Key |-> Content'[k]]
    /\ Recovered = [k \in Key |-> Recovered[k]]
BY DEF Content, Recovered

LEMMA ReadsAre ==
    ASSUME IInv
    PROVE  /\ Recovered \in [Key -> Val \cup {Absent}]
           /\ open => Content \in [Key -> Val \cup {Absent}]
           /\ open => \A k \in Key \ weak : Recovered[k] = Content[k]
<1>1. file \in Seq(Token) /\ ReadAt(file, NoLoc) = Absent
  BY DEF IInv, TypeOK, Token, ReadAt
<1>2. ASSUME NEW k \in Key PROVE Recovered[k] \in Val \cup {Absent}
  <2>1. Recovered[k] = ReadAt(file, Rebuilt(file)[k])
    BY DEF Recovered
  <2> QED
    BY <1>1, <2>1, RebuiltIs, ReadLine
<1>3. ASSUME open, NEW k \in Key PROVE Content[k] \in Val \cup {Absent}
  <2>1. Content[k] = ReadAt(file, idx[k]) /\ (idx[k] = NoLoc \/ LineAt(file, k, idx[k]))
    BY <1>3 DEF Content, IInv, LinesKept
  <2> QED
    BY <1>1, <2>1, ReadLine
<1>4. ASSUME open, NEW k \in Key \ weak PROVE Recovered[k] = Content[k]
  BY <1>4 DEF Recovered, Content, IInv, RecoverableUnlessWeak
<1> QED
  BY <1>2, <1>3, <1>4, ContentIs

\* A Put that writes changes nothing a caller can read.
LEMMA WriteUnread ==
    ASSUME IInv, NEW k \in Key, NEW v \in Val, NEW n \in 0 .. 4, Write(k, v, n)
    PROVE  Content' = Content
<1>1. /\ file \in Seq(Token) /\ file' \in Seq(Token)
      /\ \A i \in 1 .. Len(file) : file'[i] = file[i]
  BY WriteGrows DEF Grown
<1>2. open /\ idx' = idx
  BY DEF Write
<1>3. ASSUME NEW q \in Key PROVE ReadAt(file', idx[q]) = ReadAt(file, idx[q])
  <2>1. CASE idx[q] = NoLoc
    BY <2>1 DEF ReadAt
  <2>2. CASE LineAt(file, q, idx[q])
    <3> DEFINE o == idx[q].off
    <3>1. o \in Nat /\ o + 2 <= Len(file)
      BY <2>2 DEF LineAt
    <3>2. Len(file) \in Nat /\ o + 1 \in 1 .. Len(file)
      BY <1>1, <3>1
    <3>3. file'[o + 1] = file[o + 1]
      BY <1>1, <3>2
    <3>4. LineAt(file', q, idx[q])
      BY <2>2, WriteLines
    <3>5. ReadAt(file, idx[q]) = file[o + 1].val
      BY <1>1, <2>2, ReadLine
    <3>6. ReadAt(file', idx[q]) = file'[o + 1].val
      BY <1>1, <3>4, ReadLine
    <3> QED
      BY <3>3, <3>5, <3>6
  <2> QED
    BY <1>2, <2>1, <2>2 DEF IInv, LinesKept
<1> QED
  BY <1>2, <1>3 DEF Content

LEMMA StepMaps ==
    ASSUME IInv, [Next]_vars
    PROVE  [Store!Next]_<<kvOf, weak, open>>
<1> USE DEF kvOf
<1>1. weak \subseteq Key /\ file \in Seq(Token)
  BY DEF IInv, TypeOK, Token
<1>2. CASE Open
  <2>1. ~open /\ open' = TRUE /\ weak' \subseteq weak /\ idx' = Rebuilt(file) /\ file' = file
    BY <1>2 DEF Open
  <2>2. Content' = Recovered
    BY <2>1 DEF Content, Recovered
  <2>3. Store!Start
    BY <2>1, <2>2 DEF Store!Start
  <2> QED
    BY <2>3 DEF Store!Next
<1>3. ASSUME NEW k \in Key, NEW v \in Val, NEW n \in 0 .. 4, Write(k, v, n) PROVE Store!Next
  <2>1. open /\ UNCHANGED open /\ weak' \in {weak, weak \cup {k}}
    BY <1>3 DEF Write
  <2>2. Content' = Content
    BY <1>3, WriteUnread
  <2>3. Store!Weaken
    BY <1>1, <2>1, <2>2 DEF Store!Weaken
  <2> QED
    BY <2>3 DEF Store!Next
<1>4. CASE PutDone
  <2>1. /\ put.key \in Key /\ put.val \in Val /\ open /\ UNCHANGED <<open, file>>
        /\ idx' = [idx EXCEPT ![put.key] = Place(size - 3)] /\ weak' = weak \ {put.key}
        /\ LineAt(file, put.key, Place(size - 3)) /\ size - 3 \in Nat /\ file[size - 2].val = put.val
    BY <1>4 DEF PutDone, Place, IInv, PutInFile
  <2>2. \A q \in Key : idx'[q] = IF q = put.key THEN Place(size - 3) ELSE idx[q]
    BY <2>1 DEF IInv, TypeOK
  <2>3. ReadAt(file, Place(size - 3)) = put.val
    <3>1. Place(size - 3).off + 1 = size - 2
      BY <2>1 DEF Place, IInv, TypeOK
    <3> QED
      BY <1>1, <2>1, <3>1, ReadLine
  <2>4. Content' = [Content EXCEPT ![put.key] = put.val]
    <3>1. \A q \in Key : Content'[q] = IF q = put.key THEN put.val ELSE Content[q]
      BY <2>1, <2>2, <2>3 DEF Content
    <3> QED
      BY <3>1, ContentIs
  <2>5. Store!Write(put.key, put.val)
    BY <2>1, <2>4 DEF Store!Write
  <2> QED
    BY <2>1, <2>5 DEF Store!Next
<1>5. ASSUME NEW k \in Key, Delete(k) PROVE Store!Next
  <2>1. /\ open /\ UNCHANGED <<open, file>> /\ idx' = [idx EXCEPT ![k] = NoLoc]
        /\ weak' \in {weak, weak \cup {k}}
    BY <1>5 DEF Delete
  <2>2. \A q \in Key : idx'[q] = IF q = k THEN NoLoc ELSE idx[q]
    BY <2>1 DEF IInv, TypeOK
  <2>3. Content' = [Content EXCEPT ![k] = Absent]
    <3>1. \A q \in Key : Content'[q] = IF q = k THEN Absent ELSE Content[q]
      BY <2>1, <2>2 DEF Content, ReadAt
    <3> QED
      BY <3>1, ContentIs
  <2>4. Store!Write(k, Absent)
    BY <2>1, <2>3 DEF Store!Write
  <2> QED
    BY <2>4 DEF Store!Next
<1>6. CASE Close \/ Crash
  <2>1. open /\ open' = FALSE /\ UNCHANGED <<file, weak>>
    BY <1>6 DEF Close, Crash
  <2>2. Recovered' = Recovered
    BY <2>1 DEF Recovered
  <2>3. Store!Stop
    BY <2>1, <2>2, ReadsAre DEF Store!Stop
  <2> QED
    BY <2>3 DEF Store!Next
<1>7. CASE PutFails \/ UNCHANGED vars
  <2>1. UNCHANGED <<file, open, idx, weak>>
    BY <1>7 DEF PutFails, vars, mem
  <2>2. kvOf' = kvOf
    BY <2>1 DEF Content, Recovered
  <2> QED
    BY <2>1, <2>2
<1> QED
  BY <1>2, <1>3, <1>4, <1>5, <1>6, <1>7 DEF Next

\* The index keeps the promise of KVStore: a Put that returned survives any crash, a torn
\* one changes no key, and a failed one at most its own.
THEOREM StoreIsImplemented == Spec => ImplementsStore
<1>1. Init => Store!Init
  <2> SUFFICES ASSUME Init PROVE Store!Init
    OBVIOUS
  <2>1. Recovered \in [Key -> Val \cup {Absent}]
    BY InitIInv, ReadsAre
  <2> QED
    BY <2>1 DEF Init, Store!Init
<1>2. IInv /\ [Next]_vars => [Store!Next]_Store!vars
  BY StepMaps DEF Store!vars, kvOf
<1> QED
  BY <1>1, <1>2, Invariance, PTL DEF Spec, ImplementsStore, Store!Spec
=============================================================================

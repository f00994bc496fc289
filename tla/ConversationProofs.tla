------------------------- MODULE ConversationProofs ------------------------
(***************************************************************************)
(* What is applied and what is heard, for any number of conversations,     *)
(* changes and messages.                                                   *)
(***************************************************************************)
EXTENDS Conversation, SequenceTheorems, FiniteSetTheorems, WellFoundedInduction, TLAPS

Frame   == {Garbled, Bye, Eof} \cup {Value(n) : n \in Int}
Entry   == [add : Int, total : Int]
Asking  == {"out", "ready", "reading"}                  \* the client may send or hear
Running == {"none", "reading", "applying", "answering"} \* the server side may apply

Typed ==
  /\ total \in Int
  /\ client \in [Conversations -> {"out", "ready", "reading", "goodbye", "gone"}]
  /\ server \in [Conversations -> {"none", "reading", "applying", "answering",
                                   "leaving", "goodbye", "done"}]
  /\ up \in [Conversations -> Seq(Frame)] /\ down \in [Conversations -> Seq(Frame)]
  /\ held \in [Conversations -> Int]
  /\ sent \in [Conversations -> Seq(Frame)]
  /\ applied \in [Conversations -> Seq(Entry)]
  /\ heard \in [Conversations -> Seq(Int)]
  /\ \A k \in Conversations : client[k] = "out" => server[k] = "none"

(* What was applied, what is being applied and what is on its way up are,  *)
(* in this order, what was sent; while both sides are there, all of it.    *)
UpSide(c, s, h, q, se, ap, broken) ==
  LET a == Len(ap) + (IF s = "applying" THEN 1 ELSE 0) IN
  /\ \A i \in 1 .. Len(ap) : i <= Len(se) /\ se[i] = Value(ap[i].add)
  /\ s = "applying" => Len(ap) + 1 <= Len(se) /\ se[Len(ap) + 1] = Value(h)
  /\ s \in Running =>
       \A j \in 1 .. Len(q) : q[j].says = "value" => a + j <= Len(se) /\ se[a + j] = q[j]
  /\ s \in Running /\ c \in Asking /\ ~broken =>
       a + Len(q) = Len(se) /\ \A j \in 1 .. Len(q) : q[j] # Eof

(* What was heard, what is on its way down and what is being answered are, *)
(* in this order, the totals applied made.                                 *)
DownSide(c, s, h, q, ap, he, broken) ==
  LET a == Len(ap) - (IF s = "answering" THEN 1 ELSE 0) IN
  /\ \A i \in 1 .. Len(he) : i <= Len(ap) /\ he[i] = ap[i].total
  /\ s = "answering" => Len(ap) > 0 /\ h = ap[Len(ap)].total
  /\ c \in Asking =>
       \A j \in 1 .. Len(q) : q[j].says = "value" =>
         Len(he) + j <= Len(ap) /\ q[j] = Value(ap[Len(he) + j].total)
  /\ s \in Running /\ c \in Asking =>
       IF broken THEN q = <<Eof>>
       ELSE Len(he) + Len(q) = a /\ \A j \in 1 .. Len(q) : q[j] # Eof

Upward(k) ==
  UpSide(client[k], server[k], held[k], up[k], sent[k], applied[k], k \in cut)
Downward(k) ==
  DownSide(client[k], server[k], held[k], down[k], applied[k], heard[k], k \in cut)

(* Invariant by induction.                                                 *)
TalkInv == Typed /\ \A k \in Conversations : Upward(k) /\ Downward(k)

-----------------------------------------------------------------------------
(* Frames and queues.                                                      *)

(* What agrees with a sequence at every place it has is a prefix of it.    *)
LEMMA PrefixByIndex ==
  ASSUME NEW S, NEW s \in Seq(S), NEW t \in Seq(S),
         \A i \in 1 .. Len(s) : i <= Len(t) /\ s[i] = t[i]
  PROVE  IsPrefix(s, t)
<1>1. Len(s) \in Nat /\ Len(t) \in Nat
  BY LenProperties
<1>2. Len(s) <= Len(t)
  BY <1>1
<1>3. SubSeq(s, 1, Len(s)) = SubSeq(t, 1, Len(s))
  BY <1>1, <1>2, SubSeqProperties
<1>4. QED
  BY <1>2, <1>3 DEF IsPrefix

(* What is not a value: a goodbye, an end of stream, an unreadable text.   *)
LEMMA Ends == /\ Bye \in Frame /\ Eof \in Frame /\ Garbled \in Frame
              /\ Bye.says # "value" /\ Eof.says # "value" /\ Garbled.says # "value"
              /\ Bye # Eof
BY DEF Frame, Bye, Eof, Garbled

(* A value is a frame that says its number.                                *)
LEMMA Values == \A n \in Int : /\ Value(n) \in Frame /\ Value(n).says = "value"
                               /\ Value(n).n = n /\ Value(n) # Eof
BY DEF Frame, Value, Eof

(* A frame that says a value is the value of its number.                   *)
LEMMA ValueOf ==
  ASSUME NEW f \in Frame, f.says = "value"
  PROVE  f.n \in Int /\ f = Value(f.n)
BY DEF Frame, Garbled, Bye, Eof, Value

(* A frame is carried unless the stream has ended.                         *)
LEMMA Carried ==
  ASSUME NEW q \in Seq(Frame), NEW f \in Frame
  PROVE  /\ Carry(q, f) \in Seq(Frame)
         /\ Carry(q, f) \in {q, Append(q, f)}
         /\ (\A j \in 1 .. Len(q) : q[j] # Eof) => Carry(q, f) = Append(q, f)
         /\ q = <<Eof>> => Carry(q, f) = q
<1>1. Append(q, f) \in Seq(Frame)
  BY AppendProperties
<1>2. ASSUME \A j \in 1 .. Len(q) : q[j] # Eof, q # <<>> PROVE Last(q) # Eof
  <2>1. Len(q) \in 1 .. Len(q)
    BY <1>2, EmptySeq
  <2>2. QED
    BY <1>2, <2>1 DEF Last
<1>3. q = <<Eof>> => q # <<>> /\ Last(q) = Eof
  BY DEF Last
<1>4. QED
  BY <1>1, <1>2, <1>3 DEF Carry

-----------------------------------------------------------------------------
(* The way up.                                                             *)

(* Leaving, and a server side that starts or stops reading, keep it.       *)
LEMMA UpQuieter ==
  ASSUME NEW c, NEW s, NEW h, NEW q, NEW se, NEW ap, NEW broken,
         NEW d, NEW t, NEW g,
         UpSide(c, s, h, q, se, ap, broken), d \in Asking => c \in Asking,
         \/ t \notin Running
         \/ s = t /\ g = h
         \/ s \in Running /\ s # "applying" /\ t # "applying"
  PROVE  UpSide(d, t, g, q, se, ap, broken)
BY DEF UpSide, Running

(* A server side that applies no more may lose what it held and queued.    *)
LEMMA UpOver ==
  ASSUME NEW c, NEW s, NEW h, NEW q, NEW se, NEW ap, NEW broken,
         NEW d, NEW t, NEW g, NEW p, NEW r,
         UpSide(c, s, h, q, se, ap, broken), t \notin Running
  PROVE  UpSide(d, t, g, p, se, ap, r)
BY DEF UpSide, Running

(* The connection breaks with what it carried.                             *)
LEMMA UpBroken ==
  ASSUME NEW c, NEW s, NEW h, NEW q, NEW se, NEW ap, NEW broken,
         UpSide(c, s, h, q, se, ap, broken)
  PROVE  UpSide(c, s, h, <<Eof>>, se, ap, TRUE)
<1>1. \A j \in 1 .. Len(<<Eof>>) : <<Eof>>[j].says # "value"
  BY Ends
<1>2. QED
  BY <1>1 DEF UpSide

(* One more frame behind what was sent.                                    *)
LEMMA UpSend ==
  ASSUME NEW c, NEW s, NEW h, NEW q \in Seq(Frame), NEW se \in Seq(Frame),
         NEW ap \in Seq(Entry), NEW f \in Frame, f # Eof, NEW d,
         NEW broken, ~broken,
         UpSide(c, s, h, q, se, ap, broken), c \in Asking, NEW p,
         s \in Running => p = Append(q, f)
  PROVE  UpSide(d, s, h, p, Append(se, f), ap, broken)
<1> DEFINE new == Append(se, f)
<1>1. Len(q) \in Nat /\ Len(se) \in Nat /\ Len(ap) \in Nat
  BY LenProperties
<1>2. /\ Len(new) = Len(se) + 1 /\ \A i \in 1 .. Len(se) : new[i] = se[i]
      /\ new[Len(se) + 1] = f
  BY AppendProperties
<1> HIDE DEF new
<1>3. /\ \A i \in 1 .. Len(ap) : i <= Len(new) /\ new[i] = Value(ap[i].add)
      /\ s = "applying" => Len(ap) + 1 <= Len(new) /\ new[Len(ap) + 1] = Value(h)
  BY <1>1, <1>2 DEF UpSide
<1>4. CASE s \in Running
  <2> DEFINE a == Len(ap) + (IF s = "applying" THEN 1 ELSE 0)
  <2>1. /\ a \in Nat /\ a + Len(q) = Len(se) /\ \A j \in 1 .. Len(q) : q[j] # Eof
        /\ \A j \in 1 .. Len(q) : q[j].says = "value" => a + j <= Len(se) /\ se[a + j] = q[j]
    BY <1>1, <1>4 DEF UpSide
  <2>2. /\ Len(p) = Len(q) + 1 /\ \A j \in 1 .. Len(q) : p[j] = q[j]
        /\ p[Len(q) + 1] = f
    BY <1>4, AppendProperties
  <2> HIDE DEF a
  <2>3. \A j \in 1 .. Len(p) : p[j] # Eof
    BY <1>1, <2>1, <2>2, SMTT(20)
  <2>4. \A j \in 1 .. Len(p) : p[j].says = "value" => a + j <= Len(new) /\ new[a + j] = p[j]
    <3> SUFFICES ASSUME NEW j \in 1 .. Len(p), p[j].says = "value"
                 PROVE  a + j <= Len(new) /\ new[a + j] = p[j]
      OBVIOUS
    <3>1. CASE j \in 1 .. Len(q)
      BY <1>1, <1>2, <2>1, <2>2, <3>1
    <3>2. CASE j = Len(q) + 1
      BY <1>1, <1>2, <2>1, <2>2, <3>2
    <3>3. QED
      BY <1>1, <2>2, <3>1, <3>2
  <2>5. a + Len(p) = Len(new)
    <3>1. /\ Len(p) = Len(q) + 1 /\ Len(new) = Len(se) + 1 /\ a + Len(q) = Len(se)
          /\ a \in Nat /\ Len(q) \in Nat /\ Len(se) \in Nat
      BY <1>1, <1>2, <2>1, <2>2
    <3>2. QED
      BY <3>1
  <2>6. QED
    BY <1>3, <2>3, <2>4, <2>5 DEF a, UpSide, new
<1>5. CASE s \notin Running
  BY <1>3, <1>5 DEF UpSide, new
<1>6. QED
  BY <1>4, <1>5

(* A goodbye, or the end of the stream, behind what was sent.              *)
LEMMA UpEnd ==
  ASSUME NEW c, NEW s, NEW h, NEW q \in Seq(Frame), NEW se \in Seq(Frame),
         NEW ap \in Seq(Entry), NEW f \in Frame, f.says # "value", NEW broken, NEW r,
         UpSide(c, s, h, q, se, ap, broken),
         NEW d, d \notin Asking, NEW p, p \in {q, <<>>, Append(q, f)}
  PROVE  UpSide(d, s, h, p, se, ap, r)
<1>1. Len(q) \in Nat
  BY LenProperties
<1>2. \A j \in 1 .. Len(p) : p[j].says = "value" => j \in 1 .. Len(q) /\ p[j] = q[j]
  <2>1. CASE p = q
    BY <2>1
  <2>2. CASE p = <<>>
    BY <2>2
  <2>3. CASE p = Append(q, f)
    <3>1. /\ Len(p) = Len(q) + 1 /\ \A j \in 1 .. Len(q) : p[j] = q[j]
          /\ p[Len(q) + 1] = f
      BY <2>3, AppendProperties
    <3>2. QED
      BY <1>1, <3>1, SMTT(20)
  <2>4. QED
    BY <2>1, <2>2, <2>3
<1>3. QED
  BY <1>2 DEF UpSide

(* The next change is read.                                                *)
LEMMA UpRead ==
  ASSUME NEW c, NEW h, NEW q \in Seq(Frame), NEW se \in Seq(Frame), NEW ap \in Seq(Entry),
         NEW broken, q # <<>>, q[1].says = "value",
         UpSide(c, "reading", h, q, se, ap, broken)
  PROVE  UpSide(c, "applying", q[1].n, Tail(q), se, ap, broken)
<1>1. /\ Len(q) \in Nat /\ Len(q) > 0 /\ Len(se) \in Nat /\ Len(ap) \in Nat
      /\ q[1] = Value(q[1].n)
  BY EmptySeq, LenProperties, ElementOfSeq, ValueOf
<1>2. /\ Len(Tail(q)) = Len(q) - 1
      /\ \A j \in 1 .. Len(Tail(q)) : Tail(q)[j] = q[j + 1]
  BY HeadTailProperties
<1>3. /\ Len(ap) + 1 <= Len(se) /\ se[Len(ap) + 1] = q[1]
  BY <1>1 DEF UpSide, Running
<1>4. \A j \in 1 .. Len(Tail(q)) : Tail(q)[j].says = "value" =>
        Len(ap) + 1 + j <= Len(se) /\ se[Len(ap) + 1 + j] = Tail(q)[j]
  <2> SUFFICES ASSUME NEW j \in 1 .. Len(Tail(q)), Tail(q)[j].says = "value"
               PROVE  Len(ap) + 1 + j <= Len(se) /\ se[Len(ap) + 1 + j] = Tail(q)[j]
    OBVIOUS
  <2>1. j + 1 \in 1 .. Len(q) /\ q[j + 1].says = "value"
    BY <1>1, <1>2
  <2>2. Len(ap) + (j + 1) <= Len(se) /\ se[Len(ap) + (j + 1)] = q[j + 1]
    BY <2>1 DEF UpSide, Running
  <2>3. Len(ap) + (j + 1) = Len(ap) + 1 + j
    BY <1>1
  <2>4. QED
    BY <1>2, <2>2, <2>3
<1>5. c \in Asking /\ ~broken =>
        Len(ap) + 1 + Len(Tail(q)) = Len(se) /\ \A j \in 1 .. Len(Tail(q)) : Tail(q)[j] # Eof
  BY <1>1, <1>2 DEF UpSide, Running
<1>6. QED
  BY <1>1, <1>3, <1>4, <1>5 DEF UpSide

(* The change is applied.                                                  *)
LEMMA UpApply ==
  ASSUME NEW c, NEW h \in Int, NEW q \in Seq(Frame), NEW se \in Seq(Frame),
         NEW ap \in Seq(Entry), NEW broken, NEW e \in Entry, e.add = h, NEW g,
         UpSide(c, "applying", h, q, se, ap, broken)
  PROVE  UpSide(c, "answering", g, q, se, Append(ap, e), broken)
<1> DEFINE new == Append(ap, e)
<1>1. Len(q) \in Nat /\ Len(se) \in Nat /\ Len(ap) \in Nat
  BY LenProperties
<1>2. /\ Len(new) = Len(ap) + 1 /\ \A i \in 1 .. Len(ap) : new[i] = ap[i]
      /\ new[Len(ap) + 1] = e
  BY AppendProperties
<1> HIDE DEF new
<1>3. \A i \in 1 .. Len(new) : i <= Len(se) /\ se[i] = Value(new[i].add)
  <2> SUFFICES ASSUME NEW i \in 1 .. Len(new)
               PROVE  i <= Len(se) /\ se[i] = Value(new[i].add)
    OBVIOUS
  <2>1. CASE i \in 1 .. Len(ap)
    BY <1>2, <2>1 DEF UpSide
  <2>2. CASE i = Len(ap) + 1
    BY <1>2, <2>2 DEF UpSide
  <2>3. QED
    BY <1>1, <1>2, <2>1, <2>2
<1>4. QED
  BY <1>1, <1>2, <1>3 DEF UpSide, Running, new

-----------------------------------------------------------------------------
(* The way down.                                                           *)

(* Leaving, and a server side that answers no more, keep it.               *)
LEMMA DownQuieter ==
  ASSUME NEW c, NEW s, NEW h, NEW q, NEW ap, NEW he, NEW broken,
         NEW d, NEW t, NEW g,
         DownSide(c, s, h, q, ap, he, broken),
         d \in Asking => c \in Asking,
         \/ t \notin Running
         \/ s \in Running /\ s # "answering" /\ t # "answering"
         \/ s = t /\ g = h
  PROVE  DownSide(d, t, g, q, ap, he, broken)
BY DEF DownSide, Running

(* A connection that is cut loses what is on its way down.                 *)
LEMMA DownBroken ==
  ASSUME NEW c, NEW s, NEW h, NEW q, NEW ap, NEW he, NEW broken,
         DownSide(c, s, h, q, ap, he, broken)
  PROVE  DownSide(c, s, h, <<Eof>>, ap, he, TRUE)
<1>1. \A j \in 1 .. Len(<<Eof>>) : <<Eof>>[j].says # "value"
  BY Ends
<1>2. QED
  BY <1>1 DEF DownSide

(* A client that hears no more may lose what is on its way, and the server *)
(* may end the stream behind it.                                           *)
LEMMA DownOver ==
  ASSUME NEW c, NEW s, NEW h, NEW q, NEW ap, NEW he, NEW broken,
         NEW d, NEW p, NEW r, d \notin Asking,
         DownSide(c, s, h, q, ap, he, broken)
  PROVE  DownSide(d, s, h, p, ap, he, r)
BY DEF DownSide, Running

(* A goodbye, or the end of the stream, behind the answers.                *)
LEMMA DownEnd ==
  ASSUME NEW c, NEW s, NEW h, NEW q \in Seq(Frame), NEW ap \in Seq(Entry),
         NEW he \in Seq(Int), NEW broken, NEW f \in Frame, f.says # "value",
         NEW t, t \notin Running, NEW g, NEW r, NEW p, p \in {q, <<>>, Append(q, f)},
         DownSide(c, s, h, q, ap, he, broken)
  PROVE  DownSide(c, t, g, p, ap, he, r)
<1>1. Len(q) \in Nat
  BY LenProperties
<1>2. \A j \in 1 .. Len(p) : p[j].says = "value" => j \in 1 .. Len(q) /\ p[j] = q[j]
  <2>1. CASE p = q
    BY <2>1
  <2>2. CASE p = <<>>
    BY <2>2
  <2>3. CASE p = Append(q, f)
    <3>1. /\ Len(p) = Len(q) + 1 /\ \A j \in 1 .. Len(q) : p[j] = q[j]
          /\ p[Len(q) + 1] = f
      BY <2>3, AppendProperties
    <3>2. QED
      BY <1>1, <3>1
  <2>4. QED
    BY <2>1, <2>2, <2>3
<1>3. QED
  BY <1>2 DEF DownSide, Running

(* A total is answered with, behind the ones before it.                    *)
LEMMA DownAnswer ==
  ASSUME NEW c, NEW h \in Int, NEW q \in Seq(Frame), NEW ap \in Seq(Entry),
         NEW he \in Seq(Int), NEW g, c \in Asking,
         DownSide(c, "answering", h, q, ap, he, FALSE)
  PROVE  DownSide(c, "reading", g, Append(q, Value(h)), ap, he, FALSE)
<1> DEFINE f == Value(h)
           p == Append(q, f)
<1>1. Len(q) \in Nat /\ Len(ap) \in Nat /\ Len(he) \in Nat
  BY LenProperties
<1>2. /\ f \in Frame /\ f # Eof
  BY Values
<1>3. /\ Len(p) = Len(q) + 1 /\ \A j \in 1 .. Len(q) : p[j] = q[j]
      /\ p[Len(q) + 1] = f
  BY <1>2, AppendProperties
<1>4. /\ f = Value(ap[Len(ap)].total)
      /\ Len(he) + Len(q) = Len(ap) - 1 /\ \A j \in 1 .. Len(q) : q[j] # Eof
      /\ \A j \in 1 .. Len(q) : q[j].says = "value" =>
           Len(he) + j <= Len(ap) /\ q[j] = Value(ap[Len(he) + j].total)
  BY DEF DownSide, Running
<1> HIDE DEF f, p
<1>5. Len(he) + Len(p) = Len(ap) /\ \A j \in 1 .. Len(p) : p[j] # Eof
  <2>1. Len(he) + Len(p) = Len(ap)
    BY <1>1, <1>3, <1>4
  <2>2. ASSUME NEW j \in 1 .. Len(p) PROVE p[j] # Eof
    <3>1. CASE j \in 1 .. Len(q)
      BY <1>3, <1>4, <3>1
    <3>2. CASE j = Len(q) + 1
      BY <1>2, <1>3, <3>2
    <3>3. QED
      BY <1>1, <1>3, <3>1, <3>2
  <2>3. QED
    BY <2>1, <2>2
<1>6. \A j \in 1 .. Len(p) : p[j].says = "value" =>
        Len(he) + j <= Len(ap) /\ p[j] = Value(ap[Len(he) + j].total)
  <2> SUFFICES ASSUME NEW j \in 1 .. Len(p), p[j].says = "value"
               PROVE  Len(he) + j <= Len(ap) /\ p[j] = Value(ap[Len(he) + j].total)
    OBVIOUS
  <2>1. CASE j \in 1 .. Len(q)
    BY <1>3, <1>4, <2>1
  <2>2. CASE j = Len(q) + 1
    <3>1. Len(he) + j = Len(ap)
      BY <1>1, <1>4, <2>2
    <3>2. p[j] = f /\ f = Value(ap[Len(ap)].total)
      BY <1>3, <1>4, <2>2
    <3>3. Len(he) + j <= Len(ap)
      BY <1>1, <3>1
    <3>4. Value(ap[Len(he) + j].total) = Value(ap[Len(ap)].total)
      BY <3>1, Zenon
    <3>5. QED
      BY <3>2, <3>3, <3>4, Zenon
  <2>3. QED
    BY <1>1, <1>3, <2>1, <2>2
<1>7. QED
  BY <1>5, <1>6 DEF DownSide, Running, f, p

(* The next total is heard.                                                *)
LEMMA DownHear ==
  ASSUME NEW c, NEW s, NEW h, NEW q \in Seq(Frame), NEW ap \in Seq(Entry),
         NEW he \in Seq(Int), NEW broken, NEW d, c \in Asking,
         q # <<>>, q[1].says = "value", DownSide(c, s, h, q, ap, he, broken)
  PROVE  DownSide(d, s, h, Tail(q), ap, Append(he, q[1].n), broken)
<1> DEFINE new == Append(he, q[1].n)
<1>1. /\ Len(q) \in Nat /\ Len(q) > 0 /\ Len(ap) \in Nat /\ Len(he) \in Nat
      /\ q[1].n \in Int /\ q[1] = Value(q[1].n)
  BY EmptySeq, LenProperties, ElementOfSeq, ValueOf
<1>2. /\ Len(Tail(q)) = Len(q) - 1
      /\ \A j \in 1 .. Len(Tail(q)) : Tail(q)[j] = q[j + 1]
  BY HeadTailProperties
<1>3. /\ Len(new) = Len(he) + 1 /\ \A i \in 1 .. Len(he) : new[i] = he[i]
      /\ new[Len(he) + 1] = q[1].n
  BY <1>1, AppendProperties
<1> HIDE DEF new
<1>4. Len(he) + 1 <= Len(ap) /\ q[1] = Value(ap[Len(he) + 1].total)
  BY <1>1 DEF DownSide
<1>5. q[1].n = ap[Len(he) + 1].total
  BY <1>4 DEF Value
<1>6. \A i \in 1 .. Len(new) : i <= Len(ap) /\ new[i] = ap[i].total
  <2> SUFFICES ASSUME NEW i \in 1 .. Len(new)
               PROVE  i <= Len(ap) /\ new[i] = ap[i].total
    OBVIOUS
  <2>1. CASE i \in 1 .. Len(he)
    BY <1>3, <2>1 DEF DownSide
  <2>2. CASE i = Len(he) + 1
    BY <1>3, <1>4, <1>5, <2>2
  <2>3. QED
    BY <1>1, <1>3, <2>1, <2>2
<1>7. \A j \in 1 .. Len(Tail(q)) : Tail(q)[j].says = "value" =>
        Len(new) + j <= Len(ap) /\ Tail(q)[j] = Value(ap[Len(new) + j].total)
  <2> SUFFICES ASSUME NEW j \in 1 .. Len(Tail(q)), Tail(q)[j].says = "value"
               PROVE  Len(new) + j <= Len(ap) /\ Tail(q)[j] = Value(ap[Len(new) + j].total)
    OBVIOUS
  <2>1. j + 1 \in 1 .. Len(q) /\ q[j + 1].says = "value"
    BY <1>1, <1>2
  <2>2. Len(he) + (j + 1) <= Len(ap) /\ q[j + 1] = Value(ap[Len(he) + (j + 1)].total)
    BY <2>1 DEF DownSide
  <2>3. Len(he) + (j + 1) = Len(new) + j
    BY <1>1, <1>3
  <2>4. QED
    BY <1>2, <2>2, <2>3
<1>8. s \in Running => ~broken
  <2> SUFFICES ASSUME s \in Running, broken PROVE FALSE
    OBVIOUS
  <2>1. q = <<Eof>>
    BY DEF DownSide
  <2>2. QED
    BY <2>1, Ends
<1>9. s \in Running =>
        /\ Len(new) + Len(Tail(q)) = Len(ap) - (IF s = "answering" THEN 1 ELSE 0)
        /\ \A j \in 1 .. Len(Tail(q)) : Tail(q)[j] # Eof
  BY <1>1, <1>2, <1>3, <1>8 DEF DownSide
<1>10. QED
  BY <1>6, <1>7, <1>8, <1>9 DEF DownSide, new

(* One more change is applied, and is to be answered.                      *)
LEMMA DownApply ==
  ASSUME NEW c, NEW h, NEW q \in Seq(Frame), NEW ap \in Seq(Entry), NEW he \in Seq(Int),
         NEW broken, NEW e \in Entry,
         DownSide(c, "applying", h, q, ap, he, broken)
  PROVE  DownSide(c, "answering", e.total, q, Append(ap, e), he, broken)
<1> DEFINE new == Append(ap, e)
<1>1. Len(q) \in Nat /\ Len(ap) \in Nat /\ Len(he) \in Nat
  BY LenProperties
<1>2. /\ Len(new) = Len(ap) + 1 /\ \A i \in 1 .. Len(ap) : new[i] = ap[i]
      /\ new[Len(ap) + 1] = e
  BY AppendProperties
<1> HIDE DEF new
<1>3. /\ \A i \in 1 .. Len(he) : i <= Len(new) /\ he[i] = new[i].total
      /\ Len(new) > 0 /\ e.total = new[Len(new)].total
  BY <1>1, <1>2 DEF DownSide
<1>4. c \in Asking => \A j \in 1 .. Len(q) : q[j].says = "value" =>
        Len(he) + j <= Len(new) /\ q[j] = Value(new[Len(he) + j].total)
  BY <1>1, <1>2 DEF DownSide
<1>5. c \in Asking => IF broken THEN q = <<Eof>>
        ELSE Len(he) + Len(q) = Len(new) - 1 /\ \A j \in 1 .. Len(q) : q[j] # Eof
  BY <1>1, <1>2 DEF DownSide, Running
<1>6. QED
  BY <1>3, <1>4, <1>5 DEF DownSide, new

-----------------------------------------------------------------------------
(* Steps.                                                                  *)

(* A step of one conversation is none of another.                          *)
Elsewhere(k) ==
  \A x \in Conversations \ {k} :
    /\ client'[x] = client[x] /\ server'[x] = server[x] /\ held'[x] = held[x]
    /\ up'[x] = up[x] /\ down'[x] = down[x] /\ sent'[x] = sent[x]
    /\ applied'[x] = applied[x] /\ heard'[x] = heard[x] /\ (x \in cut' <=> x \in cut)

(* A step keeps the invariant if it keeps it of its own conversation.      *)
LEMMA OneAtATime ==
  ASSUME TalkInv, NEW k \in Conversations, Typed', Upward(k)', Downward(k)', Elsewhere(k)
  PROVE  TalkInv'
<1>1. \A x \in Conversations \ {k} : Upward(x)' /\ Downward(x)'
  <2> SUFFICES ASSUME NEW x \in Conversations \ {k} PROVE Upward(x)' /\ Downward(x)'
    OBVIOUS
  <2>1. Upward(x) /\ Downward(x)
    BY DEF TalkInv
  <2>2. Upward(x)'
    <3>1. UpSide(client'[x], server'[x], held'[x], up'[x], sent'[x], applied'[x], x \in cut)
      BY <2>1 DEF Elsewhere, Upward
    <3>2. x \in cut' <=> x \in cut
      BY DEF Elsewhere
    <3>3. QED
      BY <3>1, <3>2 DEF Upward, UpSide
  <2>3. Downward(x)'
    BY <2>1, ZenonT(40) DEF Elsewhere, Downward, DownSide
  <2>4. QED
    BY <2>2, <2>3
<1>2. QED
  BY <1>1 DEF TalkInv

(* Nobody has said anything.                                               *)
LEMMA TalkInitial == Init => TalkInv
<1> SUFFICES ASSUME Init PROVE TalkInv
  OBVIOUS
<1>1. Typed
  BY EmptySeq DEF Init, Typed
<1>2. ASSUME NEW k \in Conversations PROVE Upward(k) /\ Downward(k)
  <2>1. /\ up[k] = <<>> /\ down[k] = <<>> /\ sent[k] = <<>> /\ applied[k] = <<>>
        /\ heard[k] = <<>> /\ server[k] = "none" /\ k \notin cut
    BY DEF Init
  <2>2. Len(<<>>) = 0
    BY EmptySeq
  <2>3. QED
    BY <2>1, <2>2 DEF Upward, Downward, UpSide, DownSide
<1>3. QED
  BY <1>1, <1>2 DEF TalkInv

(* The client says or hears no more.                                       *)
LEMMA ClientQuits ==
  ASSUME TalkInv, NEW k \in Conversations, NEW d \in {"goodbye", "gone"},
         client' = [client EXCEPT ![k] = d],
         NEW f \in Frame, f.says # "value",
         NEW p \in Seq(Frame), p \in {up[k], <<>>, Append(up[k], f)},
         up' = [up EXCEPT ![k] = p],
         NEW w \in Seq(Frame), down' = [down EXCEPT ![k] = w],
         cut' \in {cut, cut \cup {k}},
         UNCHANGED <<total, server, held, sent, applied, heard>>
  PROVE  TalkInv'
<1>1. Typed'
  BY DEF TalkInv, Typed
<1>a. d \notin Asking
  BY DEF Asking
<1>2. Elsewhere(k)
  BY DEF TalkInv, Typed, Elsewhere
<1>3. /\ client'[k] = d /\ up'[k] = p /\ down'[k] = w
      /\ up[k] \in Seq(Frame) /\ sent[k] \in Seq(Frame) /\ applied[k] \in Seq(Entry)
      /\ Upward(k) /\ Downward(k)
  BY DEF TalkInv, Typed
<1>4. UpSide(d, server[k], held[k], p, sent[k], applied[k], k \in cut')
  BY <1>3, <1>a, UpEnd DEF Upward
<1>5. DownSide(d, server[k], held[k], w, applied[k], heard[k], k \in cut')
  BY <1>3, <1>a, DownOver DEF Downward
<1>6. Upward(k)' /\ Downward(k)'
  BY <1>3, <1>4, <1>5 DEF Upward, Downward
<1>7. QED
  BY <1>1, <1>2, <1>6, OneAtATime

(* The server side applies no more.                                        *)
LEMMA ServerQuits ==
  ASSUME TalkInv, NEW k \in Conversations, NEW t \in {"leaving", "goodbye", "done"}, server[k] # "none",
         server' = [server EXCEPT ![k] = t],
         NEW g \in Int, held' = [held EXCEPT ![k] = g],
         NEW p \in Seq(Frame), up' = [up EXCEPT ![k] = p],
         NEW f \in Frame, f.says # "value",
         NEW w \in Seq(Frame), w \in {down[k], <<>>, Append(down[k], f)},
         down' = [down EXCEPT ![k] = w],
         cut' \in {cut, cut \cup {k}},
         UNCHANGED <<total, client, sent, applied, heard>>
  PROVE  TalkInv'
<1>1. Typed'
  BY DEF TalkInv, Typed
<1>a. t \notin Running
  BY DEF Running
<1>2. Elsewhere(k)
  BY DEF TalkInv, Typed, Elsewhere
<1>3. /\ server'[k] = t /\ held'[k] = g /\ up'[k] = p /\ down'[k] = w
      /\ down[k] \in Seq(Frame) /\ applied[k] \in Seq(Entry) /\ heard[k] \in Seq(Int)
      /\ Upward(k) /\ Downward(k)
  BY DEF TalkInv, Typed
<1>4. UpSide(client[k], t, g, p, sent[k], applied[k], k \in cut')
  BY <1>3, <1>a, UpOver DEF Upward
<1>5. DownSide(client[k], t, g, w, applied[k], heard[k], k \in cut')
  BY <1>3, <1>a, DownEnd DEF Downward
<1>6. Upward(k)' /\ Downward(k)'
  BY <1>3, <1>4, <1>5 DEF Upward, Downward
<1>7. QED
  BY <1>1, <1>2, <1>6, OneAtATime

(* What a side writes to the wire is one frame, or nothing.                *)
LEMMA Written ==
  ASSUME TalkInv, NEW k \in Conversations, NEW f \in Frame
  PROVE  /\ SendUp(k, f) => \E p \in Seq(Frame) :
              p \in {up[k], <<>>, Append(up[k], f)} /\ up' = [up EXCEPT ![k] = p]
         /\ SendDown(k, f) => \E p \in Seq(Frame) :
              p \in {down[k], <<>>, Append(down[k], f)} /\ down' = [down EXCEPT ![k] = p]
<1>1. up[k] \in Seq(Frame) /\ down[k] \in Seq(Frame) /\ <<>> \in Seq(Frame)
  BY EmptySeq DEF TalkInv, Typed
<1>2. /\ Carry(up[k], f) \in Seq(Frame) /\ Carry(up[k], f) \in {up[k], Append(up[k], f)}
      /\ Carry(down[k], f) \in Seq(Frame)
      /\ Carry(down[k], f) \in {down[k], Append(down[k], f)}
  BY <1>1, Carried
<1>3. QED
  BY <1>1, <1>2 DEF SendUp, SendDown

(* Hanging up leaves nothing to say or hear.                               *)
LEMMA HungUp ==
  ASSUME TalkInv, NEW k \in Conversations, HangUp(k),
         UNCHANGED <<total, server, cut, held, sent, applied, heard>>
  PROVE  TalkInv'
<1>1. <<>> \in Seq(Frame) /\ down[k] \in Seq(Frame) /\ down = [down EXCEPT ![k] = down[k]]
  BY EmptySeq DEF TalkInv, Typed
<1>2. CASE ClientGoes(k) /\ SendUp(k, Eof)
  <2>1. PICK p \in Seq(Frame) :
          p \in {up[k], <<>>, Append(up[k], Eof)} /\ up' = [up EXCEPT ![k] = p]
    BY <1>2, Written, Ends
  <2>2. client' = [client EXCEPT ![k] = "gone"] /\ down' = [down EXCEPT ![k] = <<>>]
    BY <1>2 DEF ClientGoes, ClientTo
  <2>3. QED
    BY <1>1, <2>1, <2>2, ClientQuits, Ends DEF Asking
<1>3. CASE ClientTo(k, "goodbye") /\ SendUp(k, Bye) /\ UNCHANGED down
  <2>1. PICK p \in Seq(Frame) :
          p \in {up[k], <<>>, Append(up[k], Bye)} /\ up' = [up EXCEPT ![k] = p]
    BY <1>3, Written, Ends
  <2>2. client' = [client EXCEPT ![k] = "goodbye"] /\ down' = [down EXCEPT ![k] = down[k]]
    BY <1>1, <1>3 DEF ClientTo
  <2>3. QED
    BY <1>1, <2>1, <2>2, ClientQuits, Ends DEF Asking
<1>4. QED
  BY <1>2, <1>3 DEF HangUp

(* Every step preserves the invariant.                                     *)
LEMMA TalkStep == TalkInv /\ [Next]_vars => TalkInv'
<1> SUFFICES ASSUME TalkInv, [Next]_vars PROVE TalkInv'
  OBVIOUS
<1> USE DEF wireVars, historyVars
<1>0. ASSUME NEW k \in Conversations
      PROVE  /\ up[k] \in Seq(Frame) /\ down[k] \in Seq(Frame) /\ sent[k] \in Seq(Frame)
             /\ applied[k] \in Seq(Entry) /\ heard[k] \in Seq(Int) /\ held[k] \in Int
             /\ Upward(k) /\ Downward(k) /\ <<>> \in Seq(Frame)
             /\ cut \in {cut, cut \cup {k}}
  BY EmptySeq DEF TalkInv, Typed
<1>a. ASSUME NEW k \in Conversations
      PROVE  /\ up = [up EXCEPT ![k] = up[k]] /\ down = [down EXCEPT ![k] = down[k]]
             /\ held = [held EXCEPT ![k] = held[k]]
             /\ client = [client EXCEPT ![k] = client[k]]
             /\ server = [server EXCEPT ![k] = server[k]]
  <2>1. /\ up = [up EXCEPT ![k] = up[k]] /\ down = [down EXCEPT ![k] = down[k]]
        /\ held = [held EXCEPT ![k] = held[k]]
    BY DEF TalkInv, Typed
  <2>2. client = [client EXCEPT ![k] = client[k]]
    BY DEF TalkInv, Typed
  <2>3. server = [server EXCEPT ![k] = server[k]]
    BY DEF TalkInv, Typed
  <2>4. QED
    BY <2>1, <2>2, <2>3
<1>b. \A q \in Seq(Frame) : q # <<>> =>
        Tail(q) \in Seq(Frame) /\ q[1] \in Frame /\ Head(q) = q[1]
  BY HeadTailProperties, EmptySeq, ElementOfSeq
<1>1. ASSUME NEW k \in Conversations, Dial(k) PROVE TalkInv'
  <2>1. server[k] = "none" /\ client[k] = "out"
    BY <1>1 DEF Dial, TalkInv, Typed
  <2>2. /\ UNCHANGED <<total, held, up, down, cut, sent, applied, heard>>
        /\ \/ /\ client' = [client EXCEPT ![k] = "ready"]
              /\ server' = [server EXCEPT ![k] = "reading"]
           \/ /\ client' = [client EXCEPT ![k] = "gone"]
              /\ server' = [server EXCEPT ![k] = "done"]
    BY <1>1 DEF Dial, ClientTo, ServerTo
  <2>3. Typed' /\ Elsewhere(k)
    BY <2>2 DEF TalkInv, Typed, Elsewhere
  <2>4. \/ client'[k] = "ready" /\ server'[k] = "reading"
        \/ client'[k] = "gone" /\ server'[k] = "done"
    BY <2>2 DEF TalkInv, Typed
  <2>5. Upward(k)'
    <3>1. UpSide(client'[k], server'[k], held[k], up[k], sent[k], applied[k], k \in cut)
      BY <1>0, <2>1, <2>4, UpQuieter DEF Upward, Asking, Running
    <3>2. QED
      BY <2>2, <3>1 DEF Upward
  <2>6. Downward(k)'
    <3>1. DownSide(client'[k], server'[k], held[k], down[k], applied[k], heard[k], k \in cut)
      BY <1>0, <2>1, <2>4, DownQuieter DEF Downward, Asking, Running
    <3>2. QED
      BY <2>2, <3>1 DEF Downward
  <2>7. QED
    BY <2>3, <2>5, <2>6, OneAtATime
<1>2. ASSUME NEW k \in Conversations, NEW frame \in Frames(k), Send(k, frame) PROVE TalkInv'
  <2>1. CASE k \in cut \/ ServerGone(k)
    BY <1>2, <2>1, HungUp DEF Send
  <2>2. CASE ~(k \in cut \/ ServerGone(k))
    <3>1. frame \in Frame /\ frame # Eof
      BY Values, Ends, ConversationAssumption DEF Frames, Garbled, Eof
    <3>2. /\ UNCHANGED <<total, server, cut, held, applied, heard, down>>
          /\ client[k] = "ready" /\ k \notin cut
          /\ up' = [up EXCEPT ![k] = Carry(up[k], frame)]
          /\ sent' = [sent EXCEPT ![k] = Append(sent[k], frame)]
          /\ \E d \in {"ready", "reading"} : client' = [client EXCEPT ![k] = d]
      BY <1>2, <2>2 DEF Send, SendUp, ClientTo
    <3>3. Carry(up[k], frame) \in Seq(Frame) /\ Append(sent[k], frame) \in Seq(Frame)
      BY <1>0, <3>1, Carried, AppendProperties
    <3>4. Typed' /\ Elsewhere(k)
      BY <3>2, <3>3 DEF TalkInv, Typed, Elsewhere
    <3>5. /\ up'[k] = Carry(up[k], frame) /\ sent'[k] = Append(sent[k], frame)
          /\ client'[k] \in {"ready", "reading"}
      BY <3>2 DEF TalkInv, Typed
    <3>6. UpSide("ready", server[k], held[k], up[k], sent[k], applied[k], k \in cut)
      BY <1>0, <3>2 DEF Upward
    <3>7. server[k] \in Running => Carry(up[k], frame) = Append(up[k], frame)
      <4>1. server[k] \in Running => \A j \in 1 .. Len(up[k]) : up[k][j] # Eof
        BY <3>2, <3>6 DEF UpSide, Asking
      <4>2. QED
        BY <1>0, <3>1, <4>1, Carried
    <3>8. UpSide(client'[k], server[k], held[k], Carry(up[k], frame),
                 Append(sent[k], frame), applied[k], k \in cut)
      BY <1>0, <3>1, <3>2, <3>6, <3>7, UpSend DEF Asking
    <3>9. Upward(k)'
      BY <3>2, <3>5, <3>8 DEF Upward
    <3>10. DownSide(client'[k], server[k], held[k], down[k], applied[k], heard[k], k \in cut)
      BY <1>0, <3>2, <3>5, DownQuieter DEF Downward, Asking
    <3>11. Downward(k)'
      BY <3>2, <3>10 DEF Downward
    <3>12. QED
      BY <3>4, <3>9, <3>11, OneAtATime
  <2>3. QED
    BY <2>1, <2>2
<1>3. ASSUME NEW k \in Conversations, BeginReceive(k) PROVE TalkInv'
  <2>1. /\ UNCHANGED <<total, server, held, up, down, cut, sent, applied, heard>>
        /\ client[k] = "ready" /\ client' = [client EXCEPT ![k] = "reading"]
    BY <1>3 DEF BeginReceive, ClientTo
  <2>2. Typed' /\ Elsewhere(k) /\ client'[k] = "reading"
    BY <2>1 DEF TalkInv, Typed, Elsewhere
  <2>3. UpSide("reading", server[k], held[k], up[k], sent[k], applied[k], k \in cut)
    BY <1>0, <2>1, UpQuieter DEF Upward, Asking
  <2>4. DownSide("reading", server[k], held[k], down[k], applied[k], heard[k], k \in cut)
    BY <1>0, <2>1, DownQuieter DEF Downward, Asking
  <2>5. Upward(k)' /\ Downward(k)'
    BY <2>1, <2>2, <2>3, <2>4 DEF Upward, Downward
  <2>6. QED
    BY <2>2, <2>5, OneAtATime
<1>4. ASSUME NEW k \in Conversations, Receive(k) PROVE TalkInv'
  <2>1. /\ UNCHANGED <<total, server, cut, held, sent, applied>>
        /\ client[k] = "reading" /\ down[k] # <<>>
        /\ Head(down[k]) = down[k][1] /\ down[k][1] \in Frame /\ Tail(down[k]) \in Seq(Frame)
    BY <1>0, <1>4 DEF Receive
  <2>2. CASE down[k][1].says = "value"
    <3>1. /\ heard' = [heard EXCEPT ![k] = Append(heard[k], down[k][1].n)]
          /\ client' = [client EXCEPT ![k] = "ready"] /\ UNCHANGED up
          /\ down' = [down EXCEPT ![k] = Tail(down[k])]
      BY <1>4, <2>1, <2>2 DEF Receive, ClientTo, TakeDown
    <3>2. Append(heard[k], down[k][1].n) \in Seq(Int)
      BY <1>0, <2>1, <2>2, ValueOf, AppendProperties
    <3>3. Typed' /\ Elsewhere(k)
      BY <2>1, <3>1, <3>2 DEF TalkInv, Typed, Elsewhere
    <3>4. /\ client'[k] = "ready" /\ down'[k] = Tail(down[k])
          /\ heard'[k] = Append(heard[k], down[k][1].n)
      BY <3>1 DEF TalkInv, Typed
    <3>5. UpSide("ready", server[k], held[k], up[k], sent[k], applied[k], k \in cut)
      BY <1>0, <2>1, UpQuieter DEF Upward, Asking
    <3>6. DownSide("ready", server[k], held[k], Tail(down[k]), applied[k],
                   Append(heard[k], down[k][1].n), k \in cut)
      BY <1>0, <2>1, <2>2, DownHear DEF Downward, Asking
    <3>7. Upward(k)' /\ Downward(k)'
      BY <2>1, <3>1, <3>4, <3>5, <3>6 DEF Upward, Downward
    <3>8. QED
      BY <3>3, <3>7, OneAtATime
  <2>3. CASE down[k][1].says # "value"
    <3>1. ClientGoes(k) /\ SendUp(k, down[k][1]) /\ UNCHANGED heard
      BY <1>4, <2>1, <2>3 DEF Receive
    <3>2. PICK p \in Seq(Frame) :
            p \in {up[k], <<>>, Append(up[k], down[k][1])} /\ up' = [up EXCEPT ![k] = p]
      BY <2>1, <3>1, Written
    <3>3. client' = [client EXCEPT ![k] = "gone"] /\ down' = [down EXCEPT ![k] = <<>>]
      BY <3>1 DEF ClientGoes, ClientTo
    <3>4. QED
      BY <1>0, <2>1, <2>3, <3>1, <3>2, <3>3, ClientQuits DEF Asking
  <2>4. QED
    BY <2>2, <2>3
<1>5. ASSUME NEW k \in Conversations, Leave(k) PROVE TalkInv'
  BY <1>5, HungUp DEF Leave
<1>6. ASSUME NEW k \in Conversations, LeaveReading(k) \/ ClientGivesUp(k) PROVE TalkInv'
  <2>1. /\ SendUp(k, Eof) /\ cut' = cut \cup {k}
        /\ client' = [client EXCEPT ![k] = "gone"] /\ down' = [down EXCEPT ![k] = <<>>]
        /\ UNCHANGED <<total, server, held, sent, applied, heard>>
    BY <1>6 DEF LeaveReading, ClientGivesUp, ClientGoes, ClientTo
  <2>2. PICK p \in Seq(Frame) :
          p \in {up[k], <<>>, Append(up[k], Eof)} /\ up' = [up EXCEPT ![k] = p]
    BY <2>1, Written, Ends
  <2>3. QED
    BY <1>0, <2>1, <2>2, ClientQuits, Ends DEF Asking
<1>7. ASSUME NEW k \in Conversations, ClientHearsBye(k) PROVE TalkInv'
  <2>1. /\ UNCHANGED <<total, server, up, cut, held, sent, applied, heard>>
        /\ client[k] = "goodbye" /\ down[k] # <<>>
    BY <1>7 DEF ClientHearsBye
  <2>2. \E d \in {"gone", "goodbye"}, w \in Seq(Frame) :
          client' = [client EXCEPT ![k] = d] /\ down' = [down EXCEPT ![k] = w]
    BY <1>0, <1>a, <1>b, <1>7, <2>1 DEF ClientHearsBye, ClientGoes, ClientTo, TakeDown
  <2>3. up' = [up EXCEPT ![k] = up[k]] /\ up[k] \in Seq(Frame)
    BY <1>0, <1>a, <1>b, <2>1
  <2>4. QED
    BY <2>1, <2>2, <2>3, ClientQuits, Ends DEF Asking
<1>8. ASSUME NEW k \in Conversations, Read(k) PROVE TalkInv'
  <2>1. /\ UNCHANGED <<total, client, cut, sent, applied, heard>>
        /\ server[k] = "reading" /\ up[k] # <<>> /\ up' = [up EXCEPT ![k] = Tail(up[k])]
        /\ Head(up[k]) = up[k][1] /\ up[k][1] \in Frame /\ Tail(up[k]) \in Seq(Frame)
    BY <1>0, <1>8 DEF Read, TakeUp
  <2>2. CASE up[k][1].says = "value"
    <3>1. /\ held' = [held EXCEPT ![k] = up[k][1].n] /\ UNCHANGED down
          /\ server' = [server EXCEPT ![k] = "applying"]
      BY <1>8, <2>1, <2>2 DEF Read, ServerTo
    <3>2. up[k][1].n \in Int
      BY <2>1, <2>2, ValueOf
    <3>3. Typed' /\ Elsewhere(k)
      BY <2>1, <3>1, <3>2 DEF TalkInv, Typed, Elsewhere
    <3>4. /\ server'[k] = "applying" /\ held'[k] = up[k][1].n /\ up'[k] = Tail(up[k])
      BY <2>1, <3>1 DEF TalkInv, Typed
    <3>5. UpSide(client[k], "applying", up[k][1].n, Tail(up[k]), sent[k], applied[k], k \in cut)
      BY <1>0, <2>1, <2>2, UpRead DEF Upward
    <3>6. DownSide(client[k], "applying", up[k][1].n, down[k], applied[k], heard[k], k \in cut)
      BY <1>0, <2>1, DownQuieter DEF Downward, Running
    <3>7. Upward(k)' /\ Downward(k)'
      BY <2>1, <3>1, <3>4, <3>5, <3>6 DEF Upward, Downward
    <3>8. QED
      BY <3>3, <3>7, OneAtATime
  <2>3. CASE up[k][1].says # "value"
    <3>1. /\ server' = [server EXCEPT ![k] = "leaving"] /\ UNCHANGED held
          /\ UNCHANGED down \/ SendDown(k, Bye)
      BY <1>8, <2>1, <2>3 DEF Read, EndWith, ServerTo
    <3>2. \E w \in Seq(Frame) : w \in {down[k], <<>>, Append(down[k], Bye)}
                               /\ down' = [down EXCEPT ![k] = w]
      BY <1>0, <1>a, <1>b, <3>1, Written, Ends
    <3>3. held[k] \in Int /\ held' = [held EXCEPT ![k] = held[k]]
      BY <1>0, <1>a, <1>b, <3>1
    <3>4. QED
      BY <2>1, <3>1, <3>2, <3>3, ServerQuits, Ends DEF Running
  <2>4. QED
    BY <2>2, <2>3
<1>9. ASSUME NEW k \in Conversations, applyTally(k) PROVE TalkInv'
  <2> DEFINE e == [add |-> held[k], total |-> total + held[k]]
  <2>1. /\ UNCHANGED <<client, up, down, cut, sent, heard>>
        /\ server[k] = "applying" /\ server' = [server EXCEPT ![k] = "answering"]
        /\ total' = total + held[k] /\ held' = [held EXCEPT ![k] = total + held[k]]
        /\ applied' = [applied EXCEPT ![k] = Append(applied[k], e)]
    BY <1>9 DEF applyTally, ServerTo
  <2>2. total + held[k] \in Int /\ total \in Int /\ held[k] \in Int
    BY <1>0 DEF TalkInv, Typed
  <2>3. e \in Entry /\ e.add = held[k] /\ e.total = total + held[k]
    BY <2>2 DEF Entry
  <2> HIDE DEF e
  <2>4. Append(applied[k], e) \in Seq(Entry)
    BY <1>0, <2>3, AppendProperties
  <2>5. Typed' /\ Elsewhere(k)
    BY <2>1, <2>2, <2>4 DEF TalkInv, Typed, Elsewhere
  <2>6. /\ server'[k] = "answering" /\ held'[k] = e.total
        /\ applied'[k] = Append(applied[k], e)
    BY <2>1, <2>3 DEF TalkInv, Typed
  <2>7. UpSide(client[k], "answering", e.total, up[k], sent[k], Append(applied[k], e), k \in cut)
    BY <1>0, <2>1, <2>3, UpApply DEF Upward
  <2>8. DownSide(client[k], "answering", e.total, down[k], Append(applied[k], e), heard[k],
                 k \in cut)
    BY <1>0, <2>1, <2>3, DownApply DEF Downward
  <2>9. Upward(k)' /\ Downward(k)'
    BY <2>1, <2>6, <2>7, <2>8 DEF Upward, Downward
  <2>10. QED
    BY <2>5, <2>9, OneAtATime
<1>10. ASSUME NEW k \in Conversations, Answer(k) PROVE TalkInv'
  <2>1. /\ UNCHANGED <<total, client, up, cut, sent, applied, heard>>
        /\ server[k] = "answering" /\ held' = [held EXCEPT ![k] = 0]
    BY <1>10 DEF Answer
  <2>2. CASE SendDown(k, Value(held[k])) /\ ServerTo(k, "reading")
    <3> DEFINE w == IF ClientGone(k) THEN <<>> ELSE Carry(down[k], Value(held[k]))
    <3>1. /\ server' = [server EXCEPT ![k] = "reading"] /\ down' = [down EXCEPT ![k] = w]
      BY <2>2 DEF SendDown, ServerTo
    <3>2. Value(held[k]) \in Frame
      BY <1>0, Values
    <3>3. /\ w \in Seq(Frame)
          /\ ~ClientGone(k) /\ (\A j \in 1 .. Len(down[k]) : down[k][j] # Eof)
               => w = Append(down[k], Value(held[k]))
          /\ ~ClientGone(k) /\ down[k] = <<Eof>> => w = down[k]
      BY <1>0, <3>2, Carried
    <3> HIDE DEF w
    <3>4. Typed' /\ Elsewhere(k)
      BY <2>1, <3>1, <3>3 DEF TalkInv, Typed, Elsewhere
    <3>5. server'[k] = "reading" /\ held'[k] = 0 /\ down'[k] = w
      BY <2>1, <3>1 DEF TalkInv, Typed
    <3>6. UpSide(client[k], "reading", 0, up[k], sent[k], applied[k], k \in cut)
      BY <1>0, <2>1, UpQuieter DEF Upward, Running
    <3>7. DownSide(client[k], "answering", held[k], down[k], applied[k], heard[k], k \in cut)
      BY <1>0, <2>1 DEF Downward
    <3>8. DownSide(client[k], "reading", 0, w, applied[k], heard[k], k \in cut)
      <4>1. CASE client[k] \notin Asking
        BY <3>7, <4>1 DEF DownSide
      <4>2. CASE client[k] \in Asking /\ k \notin cut
        <5>1. DownSide(client[k], "answering", held[k], down[k], applied[k], heard[k], FALSE)
          BY <3>7, <4>2 DEF DownSide
        <5>2. w = Append(down[k], Value(held[k]))
          BY <3>3, <4>2, <5>1 DEF DownSide, Asking, Running, ClientGone
        <5>3. DownSide(client[k], "reading", 0, w, applied[k], heard[k], FALSE)
          BY <1>0, <4>2, <5>1, <5>2, DownAnswer
        <5>4. QED
          BY <4>2, <5>3 DEF DownSide
      <4>3. CASE client[k] \in Asking /\ k \in cut
        <5>1. down[k] = <<Eof>>
          BY <3>7, <4>3 DEF DownSide, Running
        <5>2. w = <<Eof>>
          BY <3>3, <4>3, <5>1 DEF Asking, ClientGone
        <5>3. QED
          BY <3>7, <4>3, <5>1, <5>2 DEF DownSide
      <4>4. QED
        BY <4>1, <4>2, <4>3
    <3>9. Upward(k)' /\ Downward(k)'
      BY <2>1, <3>5, <3>6, <3>8 DEF Upward, Downward
    <3>10. QED
      BY <3>4, <3>9, OneAtATime
  <2>3. CASE EndWith(k, "failure") /\ UNCHANGED down
    <3>1. /\ server' = [server EXCEPT ![k] = "leaving"]
          /\ down' = [down EXCEPT ![k] = down[k]] /\ up' = [up EXCEPT ![k] = up[k]]
      BY <1>0, <1>a, <1>b, <2>1, <2>3 DEF EndWith, ServerTo
    <3>2. /\ down[k] \in {down[k], <<>>, Append(down[k], Bye)} /\ 0 \in Int
          /\ cut' \in {cut, cut \cup {k}} /\ server[k] # "none"
      BY <2>1
    <3>3. QED
      BY <1>0, <2>1, <3>1, <3>2, ServerQuits, Ends
  <2>4. QED
    BY <1>10, <2>2, <2>3 DEF Answer
<1>11. ASSUME NEW k \in Conversations, Interrupt(k) PROVE TalkInv'
  <2>1. /\ UNCHANGED <<total, client, up, sent, applied, heard>>
        /\ server[k] # "none" /\ server' = [server EXCEPT ![k] = "leaving"]
        /\ held' = [held EXCEPT ![k] = 0] /\ cut' \in {cut, cut \cup {k}}
        /\ UNCHANGED down \/ SendDown(k, Eof)
    BY <1>11 DEF Interrupt, EndWith, ServerTo
  <2>2. PICK w \in Seq(Frame) : w \in {down[k], <<>>, Append(down[k], Eof)}
                               /\ down' = [down EXCEPT ![k] = w]
    BY <1>0, <1>a, <1>b, <2>1, Written, Ends
  <2>3. up' = [up EXCEPT ![k] = up[k]] /\ up[k] \in Seq(Frame) /\ 0 \in Int
    BY <1>0, <1>a, <2>1
  <2>4. QED
    BY <2>1, <2>2, <2>3, ServerQuits, Ends
<1>12. ASSUME NEW k \in Conversations, closeSocket(k) \/ ServerHearsBye(k) \/ ServerGivesUp(k)
       PROVE  TalkInv'
  <2>1. /\ UNCHANGED <<total, client, held, sent, applied, heard>>
        /\ server[k] \in {"leaving", "goodbye"} /\ cut' \in {cut, cut \cup {k}}
    BY <1>12 DEF closeSocket, ServerHearsBye, ServerGivesUp
  <2>2. \E t \in {"goodbye", "done"} : server' = [server EXCEPT ![k] = t]
    BY <1>0, <1>a, <1>b, <1>12 DEF closeSocket, ServerHearsBye, ServerGivesUp, Finish, ServerTo
  <2>3. \E p \in Seq(Frame) : up' = [up EXCEPT ![k] = p]
    <3>1. CASE up' = up
      BY <1>0, <1>a, <3>1
    <3>2. CASE up' = [up EXCEPT ![k] = <<>>]
      BY <1>0, <3>2
    <3>3. CASE up[k] # <<>> /\ up' = [up EXCEPT ![k] = Tail(up[k])]
      BY <1>0, <1>b, <3>3
    <3>4. QED
      BY <1>12, <3>1, <3>2, <3>3
      DEF closeSocket, ServerHearsBye, ServerGivesUp, Finish, TakeUp
  <2>4. UNCHANGED down \/ SendDown(k, Bye) \/ SendDown(k, Eof)
    BY <1>12 DEF closeSocket, ServerHearsBye, ServerGivesUp
  <2>5. \E f \in {Bye, Eof} : \E w \in Seq(Frame) :
          w \in {down[k], <<>>, Append(down[k], f)} /\ down' = [down EXCEPT ![k] = w]
    BY <1>0, <1>a, <1>b, <2>4, Written, Ends
  <2>6. held[k] \in Int /\ held' = [held EXCEPT ![k] = held[k]]
    BY <1>0, <1>a, <1>b, <2>1
  <2>7. QED
    BY <2>1, <2>2, <2>3, <2>5, <2>6, ServerQuits, Ends DEF Running
<1>13. ASSUME NEW k \in Conversations, Break(k) PROVE TalkInv'
  <2>1. /\ UNCHANGED <<total, client, server, held, sent, applied, heard>>
        /\ up' = [up EXCEPT ![k] = <<Eof>>] /\ down' = [down EXCEPT ![k] = <<Eof>>]
        /\ cut' = cut \cup {k}
    BY <1>13 DEF Break
  <2>2. <<Eof>> \in Seq(Frame) /\ Len(<<Eof>>) = 1 /\ <<Eof>>[1] = Eof
    BY Ends
  <2>3. Typed' /\ Elsewhere(k)
    BY <2>1, <2>2 DEF TalkInv, Typed, Elsewhere
  <2>4. up'[k] = <<Eof>> /\ down'[k] = <<Eof>> /\ k \in cut'
    BY <2>1 DEF TalkInv, Typed
  <2>5. UpSide(client[k], server[k], held[k], <<Eof>>, sent[k], applied[k], TRUE)
    BY <1>0, UpBroken DEF Upward
  <2>6. DownSide(client[k], server[k], held[k], <<Eof>>, applied[k], heard[k], TRUE)
    BY <1>0, DownBroken DEF Downward
  <2>7. Upward(k)'
    BY <2>1, <2>4, <2>5 DEF Upward, UpSide
  <2>8. Downward(k)'
    BY <2>1, <2>4, <2>6 DEF Downward, DownSide
  <2>9. QED
    BY <2>3, <2>7, <2>8, OneAtATime
<1>14. CASE UNCHANGED vars
  BY <1>14 DEF vars, TalkInv, Typed, Upward, Downward
<1>15. QED
  BY <1>1, <1>2, <1>3, <1>4, <1>5, <1>6, <1>7, <1>8, <1>9, <1>10, <1>11, <1>12, <1>13, <1>14
  DEF Next, ClientEnds, ServerRuns, ServerEnds

(* What the invariant says place by place, it says of the whole.           *)
LEMMA HeardFromInv == TalkInv => HeardIsApplied
<1> SUFFICES ASSUME TalkInv, NEW k \in Conversations
             PROVE  /\ IsPrefix([i \in DOMAIN applied[k] |-> Value(applied[k][i].add)], sent[k])
                    /\ IsPrefix(heard[k], [i \in DOMAIN applied[k] |-> applied[k][i].total])
  BY DEF HeardIsApplied
<1> DEFINE ap == applied[k]
           changes == [i \in DOMAIN ap |-> Value(ap[i].add)]
           totals  == [i \in DOMAIN ap |-> ap[i].total]
<1>1. ap \in Seq(Entry) /\ sent[k] \in Seq(Frame) /\ heard[k] \in Seq(Int)
  BY DEF TalkInv, Typed
<1>2. DOMAIN ap = 1 .. Len(ap) /\ Len(ap) \in Nat
  BY <1>1, LenProperties
<1>3. \A i \in 1 .. Len(ap) : ap[i] \in Entry
  BY <1>1, ElementOfSeq
<1>4. \A i \in 1 .. Len(ap) : ap[i].add \in Int /\ ap[i].total \in Int
  BY <1>3 DEF Entry
<1>5. /\ \A i \in 1 .. Len(ap) : i <= Len(sent[k]) /\ sent[k][i] = Value(ap[i].add)
      /\ \A i \in 1 .. Len(heard[k]) : i <= Len(ap) /\ heard[k][i] = ap[i].total
  BY DEF TalkInv, Upward, Downward, UpSide, DownSide
<1> HIDE DEF ap
<1>6. changes \in Seq(Frame) /\ Len(changes) = Len(ap)
  BY <1>2, <1>4, Values, IsASeq, LenProperties
<1>7. totals \in Seq(Int) /\ Len(totals) = Len(ap)
  BY <1>2, <1>4, IsASeq, LenProperties
<1>8. /\ \A i \in 1 .. Len(changes) : i <= Len(sent[k]) /\ changes[i] = sent[k][i]
      /\ \A i \in 1 .. Len(heard[k]) : i <= Len(totals) /\ heard[k][i] = totals[i]
  BY <1>2, <1>5, <1>6, <1>7
<1> HIDE DEF changes, totals
<1>9. IsPrefix(changes, sent[k]) /\ IsPrefix(heard[k], totals)
  BY <1>1, <1>6, <1>7, <1>8, PrefixByIndex
<1>10. QED
  BY <1>9 DEF changes, totals, ap

(* The changes applied are the ones sent, in order and none twice, and     *)
(* what a client hears is, in order and without a gap, the totals its own  *)
(* changes made (tally.go, value.go), whatever breaks and however the      *)
(* conversations interleave.                                               *)
THEOREM HeardCorrect == Spec => []HeardIsApplied
BY TalkInitial, TalkStep, HeardFromInv, PTL DEF Spec

-----------------------------------------------------------------------------
(* Goodbyes and reports.                                                   *)

(* A message the schema refuses is on its way, and no goodbye before it.   *)
Ahead(q) == \E j \in 1 .. Len(q) : q[j] = Garbled /\ \A i \in 1 .. j : q[i] # Bye

(* Of one conversation: whoever may still wait has a goodbye or the end of *)
(* the stream coming; a stream ends only where somebody took it away; a    *)
(* client says goodbye last, and goes only once the server side has ended; *)
(* an unreadable message is met before a goodbye; and the conversation's   *)
(* end and report say what was met.                                        *)
Polite(c, s, e, rep, U, D, S, ahead, broken) ==
  /\ s \in {"goodbye", "done"} /\ c \in {"ready", "reading", "goodbye"} =>
       Bye \in D \/ Eof \in D
  /\ /\ c \in {"goodbye", "gone"}
     /\ \/ s \in {"reading", "applying", "answering", "goodbye"}
        \/ s = "leaving" /\ c # "gone" /\ ~broken /\ e # "success"
     => Bye \in U \/ Eof \in U
  /\ ~broken => Eof \notin U
  /\ ~broken /\ s # "done" => Eof \notin D
  /\ Garbled \in U => Garbled \in S
  /\ Garbled \notin D
  /\ c \in Asking => Bye \notin U
  /\ s \in Running /\ ~broken => c # "gone" /\ Bye \notin D
  /\ s \in Running /\ ~broken /\ Garbled \in S => ahead
  /\ s \in Running => e = "none" /\ rep = 0
  /\ rep # 0 => e = "failure"
  /\ e = "failure" => broken \/ Garbled \in S
  /\ e = "success" /\ ~broken => c \notin Asking /\ Garbled \notin S

Mannerly(k) ==
  Polite(client[k], server[k], ending[k], reported[k], ToSet(up[k]), ToSet(down[k]),
         ToSet(sent[k]), Ahead(up[k]), k \in cut)

(* Invariant by induction, beside TalkInv.                                 *)
PoliteInv ==
  /\ DOMAIN ending = Conversations /\ DOMAIN reported = Conversations
  /\ \A k \in Conversations : Mannerly(k)

(* Frames of different kinds differ, and none of them is a value.          *)
LEMMA Apart ==
  /\ Garbled # Bye /\ Garbled # Eof /\ Bye # Eof
  /\ Cancelled # Garbled /\ Cancelled # Bye /\ Cancelled # Eof
  /\ \A n \in Int : Value(n) \notin {Garbled, Bye, Eof}
BY DEF Garbled, Bye, Eof, Cancelled, Value

(* What a queue holds after a frame is put into it or taken out of it.     *)
LEMMA Holds ==
  ASSUME NEW q \in Seq(Frame), NEW f \in Frame
  PROVE  /\ ToSet(<<>>) = {} /\ ToSet(<<Eof>>) = {Eof}
         /\ ToSet(Append(q, f)) = ToSet(q) \cup {f}
         /\ \/ ToSet(Carry(q, f)) = ToSet(q) \cup {f}
            \/ ToSet(Carry(q, f)) = ToSet(q) /\ Eof \in ToSet(q)
         /\ Eof \notin ToSet(q) => Carry(q, f) = Append(q, f)
         /\ q # <<>> => /\ Head(q) \in ToSet(q)
                        /\ ToSet(q) = ToSet(Tail(q)) \cup {Head(q)}
<1> DEFINE p == Append(q, f)
<1>1. Len(q) \in Nat /\ DOMAIN q = 1 .. Len(q)
  BY LenProperties
<1>2. /\ p \in Seq(Frame) /\ Len(p) = Len(q) + 1 /\ \A j \in 1 .. Len(q) : p[j] = q[j]
      /\ p[Len(q) + 1] = f
  BY AppendProperties
<1>3. DOMAIN p = 1 .. Len(q) + 1
  BY <1>2, LenProperties
<1> HIDE DEF p
<1>4. ToSet(p) = ToSet(q) \cup {f}
  BY <1>1, <1>2, <1>3 DEF ToSet
<1>5. q # <<>> => Last(q) \in ToSet(q)
  BY <1>1, EmptySeq DEF Last, ToSet
<1>6. ToSet(<<>>) = {} /\ ToSet(<<Eof>>) = {Eof}
  BY DEF ToSet
<1>7. ASSUME q # <<>>
      PROVE  Head(q) \in ToSet(q) /\ ToSet(q) = ToSet(Tail(q)) \cup {Head(q)}
  <2>1. /\ Head(q) = q[1] /\ Tail(q) \in Seq(Frame) /\ Len(Tail(q)) = Len(q) - 1
        /\ \A i \in 1 .. Len(Tail(q)) : Tail(q)[i] = q[i + 1]
    BY <1>7, HeadTailProperties
  <2>2. Len(q) > 0 /\ DOMAIN Tail(q) = 1 .. Len(q) - 1
    BY <1>1, <1>7, <2>1, EmptySeq, LenProperties
  <2>3. \A i \in 2 .. Len(q) : i - 1 \in 1 .. Len(q) - 1 /\ Tail(q)[i - 1] = q[i]
    BY <1>1, <2>1, <2>2
  <2>4. Head(q) \in ToSet(q) /\ ToSet(Tail(q)) \subseteq ToSet(q)
    BY <1>1, <2>1, <2>2 DEF ToSet
  <2>5. ToSet(q) \subseteq ToSet(Tail(q)) \cup {Head(q)}
    <3> SUFFICES ASSUME NEW i \in 1 .. Len(q) PROVE q[i] \in ToSet(Tail(q)) \cup {Head(q)}
      BY <1>1 DEF ToSet
    <3>1. CASE i = 1
      BY <2>1, <3>1
    <3>2. CASE i \in 2 .. Len(q)
      BY <2>2, <2>3, <3>2 DEF ToSet
    <3>3. QED
      BY <1>1, <3>1, <3>2
  <2>6. QED
    BY <2>4, <2>5
<1>8. QED
  BY <1>4, <1>5, <1>6, <1>7 DEF Carry, p

(* The unreadable message stays ahead of a goodbye until it is read.       *)
LEMMA StaysAhead ==
  ASSUME NEW q \in Seq(Frame), NEW f \in Frame
  PROVE  /\ Ahead(q) => Ahead(Append(q, f))
         /\ f = Garbled /\ Bye \notin ToSet(q) => Ahead(Append(q, f))
         /\ q # <<>> /\ Ahead(q) => Head(q) # Bye
         /\ q # <<>> /\ Ahead(q) /\ Head(q) # Garbled => Ahead(Tail(q))
<1> DEFINE p == Append(q, f)
<1>1. Len(q) \in Nat /\ DOMAIN q = 1 .. Len(q)
  BY LenProperties
<1>2. Len(p) = Len(q) + 1 /\ \A j \in 1 .. Len(q) : p[j] = q[j]
  BY AppendProperties
<1>3. p[Len(q) + 1] = f
  BY AppendProperties
<1> HIDE DEF p
<1>4. Ahead(q) => Ahead(p)
  BY <1>1, <1>2 DEF Ahead
<1>5. ASSUME f = Garbled, Bye \notin ToSet(q) PROVE Ahead(p)
  <2>1. \A i \in 1 .. Len(q) : p[i] # Bye
    BY <1>1, <1>2, <1>5 DEF ToSet
  <2>2. Len(q) + 1 \in 1 .. Len(p) /\ p[Len(q) + 1] = Garbled /\ p[Len(q) + 1] # Bye
    BY <1>1, <1>2, <1>3, <1>5, Apart
  <2>3. \A i \in 1 .. Len(q) + 1 : p[i] # Bye
    BY <1>1, <2>1, <2>2
  <2>4. QED
    BY <2>2, <2>3 DEF Ahead
<1>6. ASSUME q # <<>>, Ahead(q)
      PROVE  Head(q) # Bye /\ (Head(q) # Garbled => Ahead(Tail(q)))
  <2>1. /\ Head(q) = q[1] /\ Len(Tail(q)) = Len(q) - 1
        /\ \A i \in 1 .. Len(Tail(q)) : Tail(q)[i] = q[i + 1]
    BY <1>6, HeadTailProperties
  <2>2. PICK j \in 1 .. Len(q) : q[j] = Garbled /\ \A i \in 1 .. j : q[i] # Bye
    BY <1>6 DEF Ahead
  <2>3. 1 \in 1 .. j /\ Head(q) # Bye
    BY <1>1, <2>1, <2>2
  <2>4. ASSUME Head(q) # Garbled PROVE Ahead(Tail(q))
    <3>1. j # 1
      BY <2>1, <2>2, <2>4
    <3>2. j - 1 \in 1 .. Len(Tail(q)) /\ Tail(q)[j - 1] = q[j]
      BY <1>1, <2>1, <3>1
    <3>3. \A i \in 1 .. j - 1 : Tail(q)[i] # Bye
      <4> SUFFICES ASSUME NEW i \in 1 .. j - 1 PROVE Tail(q)[i] # Bye
        OBVIOUS
      <4>1. i \in 1 .. Len(Tail(q)) /\ i + 1 \in 1 .. j
        BY <1>1, <2>1, <3>1
      <4>2. QED
        BY <2>1, <2>2, <4>1
    <3>4. QED
      BY <2>2, <3>2, <3>3 DEF Ahead
  <2>5. QED
    BY <2>3, <2>4
<1>7. QED
  BY <1>4, <1>5, <1>6 DEF p

(* Nobody has said anything.                                               *)
LEMMA PoliteInitial == Init => PoliteInv
<1> SUFFICES ASSUME Init, NEW k \in Conversations PROVE Mannerly(k)
  BY DEF Init, PoliteInv
<1>1. /\ client[k] = "out" /\ server[k] = "none" /\ ending[k] = "none" /\ reported[k] = 0
      /\ up[k] = <<>> /\ down[k] = <<>> /\ sent[k] = <<>> /\ k \notin cut
  BY DEF Init
<1>2. ToSet(<<>>) = {}
  BY DEF ToSet
<1>3. QED
  BY <1>1, <1>2 DEF Mannerly, Polite, Asking

(* A step of conversation k, and what it may change of the others: nothing.*)
Step(k) ==
  \/ Dial(k) \/ (\E frame \in Frames(k) : Send(k, frame)) \/ BeginReceive(k) \/ Receive(k)
  \/ Leave(k) \/ LeaveReading(k) \/ ClientEnds(k)
  \/ ServerRuns(k) \/ Interrupt(k) \/ ServerEnds(k)
  \/ Break(k)

Apartness(k) ==
  /\ DOMAIN ending' = Conversations /\ DOMAIN reported' = Conversations
  /\ \A x \in Conversations \ {k} :
       /\ client'[x] = client[x] /\ server'[x] = server[x]
       /\ ending'[x] = ending[x] /\ reported'[x] = reported[x]
       /\ up'[x] = up[x] /\ down'[x] = down[x] /\ sent'[x] = sent[x]
       /\ x \in cut' <=> x \in cut

(* A step of one conversation leaves the others as they are.               *)
LEMMA OnlyHere ==
  ASSUME Typed, PoliteInv, NEW k \in Conversations, Step(k)
  PROVE  Apartness(k)
<1> USE DEF wireVars, historyVars, PoliteInv, Typed, Apartness
<1>1. ASSUME NEW frame, Send(k, frame) PROVE Apartness(k)
  BY <1>1 DEF Send, HangUp, ClientGoes, ClientTo, SendUp
<1>2. CASE Dial(k) \/ BeginReceive(k)
  BY <1>2 DEF Dial, BeginReceive, ClientTo, ServerTo
<1>3. CASE Receive(k)
  BY <1>3 DEF Receive, ClientGoes, ClientTo, SendUp, TakeDown
<1>4. CASE Leave(k)
  BY <1>4 DEF Leave, HangUp, ClientGoes, ClientTo, SendUp
<1>5. CASE LeaveReading(k) \/ ClientGivesUp(k)
  BY <1>5 DEF LeaveReading, ClientGivesUp, ClientGoes, ClientTo, SendUp
<1>6. CASE ClientHearsBye(k)
  BY <1>6 DEF ClientHearsBye, ClientGoes, ClientTo, TakeDown
<1>7. CASE Read(k)
  BY <1>7 DEF Read, EndWith, ServerTo, SendDown, TakeUp
<1>8. CASE applyTally(k)
  BY <1>8 DEF applyTally, ServerTo
<1>9. CASE Answer(k)
  BY <1>9 DEF Answer, EndWith, ServerTo, SendDown
<1>10. CASE Interrupt(k)
  BY <1>10, SMTT(20) DEF Interrupt, EndWith, ServerTo, SendDown
<1>11. CASE closeSocket(k) \/ ServerGivesUp(k)
  BY <1>11 DEF closeSocket, ServerGivesUp, Finish, ServerTo, SendDown
<1>12. CASE ServerHearsBye(k)
  BY <1>12 DEF ServerHearsBye, Finish, ServerTo, TakeUp
<1>13. CASE Break(k)
  BY <1>13 DEF Break
<1>14. QED
  BY <1>1, <1>2, <1>3, <1>4, <1>5, <1>6, <1>7, <1>8, <1>9, <1>10, <1>11, <1>12, <1>13
  DEF Step, ClientEnds, ServerRuns, ServerEnds

(* So only the conversation that took the step has to be looked at.        *)
LEMMA OthersStayPolite ==
  ASSUME PoliteInv, NEW k \in Conversations, Apartness(k), Mannerly(k)'
  PROVE  PoliteInv'
<1>1. ASSUME NEW x \in Conversations \ {k} PROVE Mannerly(x)'
  <2>1. Mannerly(x)
    BY DEF PoliteInv
  <2>2. Polite(client'[x], server'[x], ending'[x], reported'[x], ToSet(up'[x]),
               ToSet(down'[x]), ToSet(sent'[x]), Ahead(up'[x]), x \in cut)
    BY <2>1 DEF Apartness, Mannerly
  <2>3. x \in cut' <=> x \in cut
    BY DEF Apartness
  <2>4. QED
    BY <2>2, <2>3 DEF Mannerly, Polite
<1>2. QED
  BY <1>1 DEF PoliteInv, Apartness

(* What the two ways of a conversation hold after a write or a read.       *)
LEMMA WayUp ==
  ASSUME Typed, NEW k \in Conversations
  PROVE  /\ \A f \in Frame : SendUp(k, f) =>
              /\ server[k] = "done" => ToSet(up'[k]) = {}
              /\ server[k] # "done" =>
                   \/ ToSet(up'[k]) = ToSet(up[k]) \cup {f}
                   \/ ToSet(up'[k]) = ToSet(up[k]) /\ Eof \in ToSet(up[k])
              /\ server[k] # "done" /\ Eof \notin ToSet(up[k]) =>
                   (Ahead(up[k]) \/ (f = Garbled /\ Bye \notin ToSet(up[k])) => Ahead(up'[k]))
         /\ up[k] # <<>> /\ TakeUp(k) =>
              /\ ToSet(up[k]) = ToSet(up'[k]) \cup {Head(up[k])}
              /\ Ahead(up[k]) =>
                   Head(up[k]) # Bye /\ (Head(up[k]) # Garbled => Ahead(up'[k]))
<1>1. up[k] \in Seq(Frame) /\ up \in [Conversations -> Seq(Frame)]
  BY DEF Typed
<1>2. ASSUME NEW f \in Frame, SendUp(k, f)
      PROVE  up'[k] = IF server[k] = "done" THEN <<>> ELSE Carry(up[k], f)
  BY <1>1, <1>2 DEF SendUp, ServerGone
<1>3. ASSUME TakeUp(k) PROVE up'[k] = Tail(up[k])
  BY <1>1, <1>3 DEF TakeUp
<1>4. ASSUME NEW f \in Frame, SendUp(k, f)
      PROVE  /\ server[k] = "done" => ToSet(up'[k]) = {}
             /\ server[k] # "done" =>
                  \/ ToSet(up'[k]) = ToSet(up[k]) \cup {f}
                  \/ ToSet(up'[k]) = ToSet(up[k]) /\ Eof \in ToSet(up[k])
  BY <1>1, <1>2, <1>4, Holds
<1>5. ASSUME NEW f \in Frame, SendUp(k, f), server[k] # "done", Eof \notin ToSet(up[k]),
             Ahead(up[k]) \/ (f = Garbled /\ Bye \notin ToSet(up[k]))
      PROVE  Ahead(up'[k])
  <2>1. up'[k] = Append(up[k], f)
    BY <1>1, <1>2, <1>5, Holds
  <2>2. QED
    BY <1>1, <1>5, <2>1, StaysAhead
<1>6. ASSUME up[k] # <<>>, TakeUp(k)
      PROVE  /\ ToSet(up[k]) = ToSet(up'[k]) \cup {Head(up[k])}
             /\ Ahead(up[k]) =>
                  Head(up[k]) # Bye /\ (Head(up[k]) # Garbled => Ahead(up'[k]))
  BY <1>1, <1>3, <1>6, Holds, StaysAhead, Ends
<1>7. QED
  BY <1>4, <1>5, <1>6

(* The same for what the server side sends.                                *)
LEMMA WayDown ==
  ASSUME Typed, NEW k \in Conversations
  PROVE  /\ \A f \in Frame : SendDown(k, f) =>
              /\ client[k] = "gone" => ToSet(down'[k]) = {}
              /\ client[k] # "gone" =>
                   \/ ToSet(down'[k]) = ToSet(down[k]) \cup {f}
                   \/ ToSet(down'[k]) = ToSet(down[k]) /\ Eof \in ToSet(down[k])
         /\ down[k] # <<>> /\ TakeDown(k) =>
              ToSet(down[k]) = ToSet(down'[k]) \cup {Head(down[k])}
<1>1. down[k] \in Seq(Frame) /\ down \in [Conversations -> Seq(Frame)]
  BY DEF Typed
<1>2. ASSUME NEW f \in Frame, SendDown(k, f)
      PROVE  down'[k] = IF client[k] = "gone" THEN <<>> ELSE Carry(down[k], f)
  BY <1>1, <1>2 DEF SendDown, ClientGone
<1>3. ASSUME TakeDown(k) PROVE down'[k] = Tail(down[k])
  BY <1>1, <1>3 DEF TakeDown
<1>4. ASSUME NEW f \in Frame, SendDown(k, f)
      PROVE  /\ client[k] = "gone" => ToSet(down'[k]) = {}
             /\ client[k] # "gone" =>
                  \/ ToSet(down'[k]) = ToSet(down[k]) \cup {f}
                  \/ ToSet(down'[k]) = ToSet(down[k]) /\ Eof \in ToSet(down[k])
  BY <1>1, <1>2, <1>4, Holds
<1>5. ASSUME down[k] # <<>>, TakeDown(k)
      PROVE  ToSet(down[k]) = ToSet(down'[k]) \cup {Head(down[k])}
  BY <1>1, <1>3, <1>5, Holds, Ends
<1>6. QED
  BY <1>4, <1>5

(* What a read meets.                                                      *)
LEMMA Met ==
  ASSUME NEW q \in Seq(Frame), q # <<>>
  PROVE  /\ Head(q) \in Frame /\ Head(q) \in ToSet(q)
         /\ Head(q).says = "value" <=> Head(q) \notin {Garbled, Bye, Eof}
<1>1. Head(q) \in Frame
  BY HeadTailProperties
<1>2. Head(q) \in ToSet(q)
  BY Holds, Ends
<1>3. QED
  BY <1>1, <1>2 DEF Frame, Garbled, Bye, Eof, Value

(* Every step of a conversation leaves it polite.                          *)
LEMMA StepIsPolite ==
  ASSUME TalkInv, PoliteInv, NEW k \in Conversations, Step(k)
  PROVE  Mannerly(k)'
<1> DEFINE U == ToSet(up[k])
           D == ToSet(down[k])
           S == ToSet(sent[k])
<1> USE DEF wireVars, historyVars
<1>0. /\ Typed /\ up[k] \in Seq(Frame) /\ down[k] \in Seq(Frame) /\ sent[k] \in Seq(Frame)
      /\ client[k] = "out" => server[k] = "none"
      /\ DOMAIN ending = Conversations /\ DOMAIN reported = Conversations
  BY DEF TalkInv, Typed, PoliteInv
<1>a. Polite(client[k], server[k], ending[k], reported[k], U, D, S, Ahead(up[k]), k \in cut)
  BY DEF PoliteInv, Mannerly
<1> SUFFICES Polite(client'[k], server'[k], ending'[k], reported'[k], ToSet(up'[k]),
                    ToSet(down'[k]), ToSet(sent'[k]), Ahead(up'[k]), k \in cut')
  BY DEF Mannerly
<1>b. ToSet(<<>>) = {} /\ ToSet(<<Eof>>) = {Eof} /\ Bye \in Frame /\ Eof \in Frame
  BY Ends DEF ToSet
<1> HIDE DEF U, D, S
<1>1. CASE Dial(k)
  <2>1. /\ UNCHANGED <<ending, reported, up, down, cut, sent>> /\ server[k] = "none"
        /\ client[k] = "out"
        /\ \/ client'[k] = "ready" /\ server'[k] = "reading"
           \/ client'[k] = "gone" /\ server'[k] = "done"
    BY <1>0, <1>1 DEF Dial, ClientTo, ServerTo, Typed
  <2>2. QED
    BY <1>a, <2>1 DEF Polite, Asking, Running, U, D, S
<1>c. ASSUME HangUp(k), client[k] \in {"ready", "reading"},
             UNCHANGED <<server, cut, ending, reported, sent>>
      PROVE  Polite(client'[k], server'[k], ending'[k], reported'[k], ToSet(up'[k]),
                    ToSet(down'[k]), ToSet(sent'[k]), Ahead(up'[k]), k \in cut')
  <2>1. CASE k \in cut \/ server[k] = "done"
    <3>1. /\ client'[k] = "gone" /\ ToSet(down'[k]) = {} /\ SendUp(k, Eof)
      BY <1>0, <1>b, <1>c, <2>1 DEF HangUp, ServerGone, ClientGoes, ClientTo, Typed
    <3>2. /\ server[k] = "done" => ToSet(up'[k]) = {}
          /\ server[k] # "done" => ToSet(up'[k]) = U \cup {Eof} \/ (ToSet(up'[k]) = U /\ Eof \in U)
      BY <1>0, <1>b, <3>1, WayUp DEF U
    <3>3. QED
      BY <1>a, <1>c, <2>1, <3>1, <3>2, Apart DEF Polite, Asking, Running, S
  <2>2. CASE ~(k \in cut \/ server[k] = "done")
    <3>1. /\ client'[k] = "goodbye" /\ UNCHANGED down /\ SendUp(k, Bye)
      BY <1>0, <1>c, <2>2 DEF HangUp, ServerGone, ClientTo, Typed
    <3>2. /\ ToSet(up'[k]) = U \cup {Bye} \/ (ToSet(up'[k]) = U /\ Eof \in U)
          /\ Eof \notin U => (Ahead(up[k]) => Ahead(up'[k]))
      BY <1>0, <1>b, <2>2, <3>1, WayUp DEF U
    <3>3. QED
      BY <1>a, <1>c, <2>2, <3>1, <3>2, Apart DEF Polite, Asking, Running, D, S
  <2>3. QED
    BY <2>1, <2>2
<1>2. ASSUME NEW frame \in Frames(k), Send(k, frame)
      PROVE  Polite(client'[k], server'[k], ending'[k], reported'[k], ToSet(up'[k]),
                    ToSet(down'[k]), ToSet(sent'[k]), Ahead(up'[k]), k \in cut')
  <2>1. CASE k \in cut \/ ServerGone(k)
    BY <1>2, <1>c, <2>1 DEF Send
  <2>2. CASE ~(k \in cut \/ ServerGone(k))
    <3>1. frame \in Frame /\ frame # Eof /\ frame # Bye
      BY Values, Ends, Apart, ConversationAssumption DEF Frames
    <3>2. /\ UNCHANGED <<server, cut, ending, reported, down>> /\ client[k] = "ready"
          /\ SendUp(k, frame) /\ sent' = [sent EXCEPT ![k] = Append(sent[k], frame)]
          /\ client'[k] \in {"ready", "reading"} /\ k \notin cut /\ server[k] # "done"
      BY <1>0, <1>2, <2>2 DEF Send, ClientTo, ServerGone, Typed
    <3>3. ToSet(sent'[k]) = S \cup {frame}
      BY <1>0, <3>1, <3>2, Holds DEF S, Typed
    <3>4. /\ ToSet(up'[k]) = U \cup {frame} \/ (ToSet(up'[k]) = U /\ Eof \in U)
          /\ Eof \notin U =>
               (Ahead(up[k]) \/ (frame = Garbled /\ Bye \notin U) => Ahead(up'[k]))
      BY <1>0, <3>1, <3>2, WayUp DEF U
    <3>5. QED
      BY <1>a, <3>1, <3>2, <3>3, <3>4 DEF Polite, Asking, Running, D
  <2>3. QED
    BY <2>1, <2>2
<1>3. CASE BeginReceive(k)
  <2>1. /\ UNCHANGED <<server, ending, reported, up, down, cut, sent>>
        /\ client[k] = "ready" /\ client'[k] = "reading"
    BY <1>0, <1>3 DEF BeginReceive, ClientTo, Typed
  <2>2. QED
    BY <1>a, <2>1 DEF Polite, Asking, U, D, S
<1>4. CASE Receive(k)
  <2>1. /\ UNCHANGED <<server, cut, ending, reported, sent>> /\ client[k] = "reading"
        /\ down[k] # <<>>
    BY <1>4 DEF Receive
  <2>2. /\ Head(down[k]) \in Frame /\ Head(down[k]) \in D
        /\ Head(down[k]).says = "value" <=> Head(down[k]) \notin {Garbled, Bye, Eof}
    BY <1>0, <2>1, Met DEF D
  <2>3. CASE Head(down[k]).says = "value"
    <3>1. client'[k] = "ready" /\ TakeDown(k) /\ UNCHANGED up
      BY <1>0, <1>4, <2>3 DEF Receive, ClientTo, Typed
    <3>2. D = ToSet(down'[k]) \cup {Head(down[k])}
      BY <1>0, <2>1, <3>1, WayDown DEF D
    <3>3. QED
      BY <1>a, <2>1, <2>2, <2>3, <3>1, <3>2 DEF Polite, Asking, U, S
  <2>4. CASE Head(down[k]).says # "value"
    <3>1. client'[k] = "gone" /\ ToSet(down'[k]) = {} /\ SendUp(k, Head(down[k]))
      BY <1>0, <1>4, <1>b, <2>4 DEF Receive, ClientGoes, ClientTo, Typed
    <3>2. /\ server[k] = "done" => ToSet(up'[k]) = {}
          /\ server[k] # "done" => \/ ToSet(up'[k]) = U \cup {Head(down[k])}
                                   \/ ToSet(up'[k]) = U /\ Eof \in U
      BY <1>0, <2>2, <3>1, WayUp DEF U
    <3>3. Head(down[k]) \in {Bye, Eof} /\ Head(down[k]) # Garbled
      BY <1>a, <2>2, <2>4, Apart DEF Polite
    <3>4. QED
      BY <1>a, <2>1, <2>2, <3>1, <3>2, <3>3 DEF Polite, Asking, Running, S
  <2>5. QED
    BY <2>3, <2>4
<1>5. CASE Leave(k)
  BY <1>5, <1>c DEF Leave
<1>6. CASE LeaveReading(k) \/ ClientGivesUp(k)
  <2>1. /\ UNCHANGED <<server, ending, reported, sent>> /\ k \in cut' /\ SendUp(k, Eof)
        /\ client'[k] = "gone" /\ ToSet(down'[k]) = {}
    BY <1>0, <1>6, <1>b DEF LeaveReading, ClientGivesUp, ClientGoes, ClientTo, Typed
  <2>2. /\ server[k] = "done" => ToSet(up'[k]) = {}
        /\ server[k] # "done" => ToSet(up'[k]) = U \cup {Eof} \/ (ToSet(up'[k]) = U /\ Eof \in U)
    BY <1>0, <1>b, <2>1, WayUp DEF U
  <2>3. QED
    BY <1>a, <2>1, <2>2, Apart DEF Polite, Asking, S
<1>7. CASE ClientHearsBye(k)
  <2>1. /\ UNCHANGED <<server, ending, reported, sent, up, cut>> /\ client[k] = "goodbye"
        /\ down[k] # <<>>
    BY <1>7 DEF ClientHearsBye
  <2>2. Head(down[k]) \in D
    BY <1>0, <2>1, Met DEF D
  <2>3. CASE Head(down[k]) \in {Bye, Eof}
    <3>1. client'[k] = "gone" /\ ToSet(down'[k]) = {}
      BY <1>0, <1>7, <1>b, <2>3 DEF ClientHearsBye, ClientGoes, ClientTo, Typed
    <3>2. QED
      BY <1>a, <2>1, <2>2, <2>3, <3>1 DEF Polite, Asking, Running, U, S
  <2>4. CASE Head(down[k]) \notin {Bye, Eof}
    <3>1. client' = client /\ TakeDown(k)
      BY <1>7, <2>4 DEF ClientHearsBye
    <3>2. D = ToSet(down'[k]) \cup {Head(down[k])}
      BY <1>0, <2>1, <3>1, WayDown DEF D
    <3>3. QED
      BY <1>a, <2>1, <2>2, <2>4, <3>1, <3>2 DEF Polite, Asking, U, S
  <2>5. QED
    BY <2>3, <2>4
<1>8. CASE Read(k)
  <2>1. /\ UNCHANGED <<client, cut, reported, sent>> /\ server[k] = "reading"
        /\ up[k] # <<>> /\ TakeUp(k)
    BY <1>8 DEF Read
  <2>2. /\ Head(up[k]) \in Frame /\ Head(up[k]) \in U
        /\ Head(up[k]).says = "value" <=> Head(up[k]) \notin {Garbled, Bye, Eof}
    BY <1>0, <2>1, Met DEF U
  <2>3. /\ U = ToSet(up'[k]) \cup {Head(up[k])}
        /\ Ahead(up[k]) =>
             Head(up[k]) # Bye /\ (Head(up[k]) # Garbled => Ahead(up'[k]))
    BY <1>0, <2>1, WayUp DEF U
  <2>4. CASE Head(up[k]).says = "value"
    <3>1. server'[k] = "applying" /\ UNCHANGED <<ending, down>>
      BY <1>0, <1>8, <2>4 DEF Read, ServerTo, Typed
    <3>2. QED
      BY <1>a, <2>1, <2>2, <2>3, <2>4, <3>1 DEF Polite, Asking, Running, D, S
  <2>5. CASE Head(up[k]) = Bye
    <3>1. server'[k] = "leaving" /\ ending'[k] = "success" /\ SendDown(k, Bye)
      BY <1>0, <1>8, <2>2, <2>5 DEF Read, EndWith, ServerTo, readExit, Typed
    <3>2. /\ client[k] = "gone" => ToSet(down'[k]) = {}
          /\ client[k] # "gone" => \/ ToSet(down'[k]) = D \cup {Bye}
                                   \/ ToSet(down'[k]) = D /\ Eof \in D
      BY <1>0, <1>b, <3>1, WayDown DEF D
    <3>3. QED
      BY <1>a, <2>1, <2>2, <2>3, <2>5, <3>1, <3>2, Apart DEF Polite, Asking, Running, S
  <2>6. CASE Head(up[k]) \in {Garbled, Eof}
    <3>1. Head(up[k]) # Bye /\ Head(up[k]) # Cancelled
      BY <2>6, Apart
    <3>2. server'[k] = "leaving" /\ ending'[k] = "failure" /\ UNCHANGED down
      BY <1>0, <1>8, <2>2, <2>6, <3>1 DEF Read, EndWith, ServerTo, readExit, Typed
    <3>3. QED
      BY <1>a, <2>1, <2>2, <2>3, <2>6, <3>1, <3>2, Apart DEF Polite, Asking, Running, D, S
  <2>7. QED
    BY <2>2, <2>4, <2>5, <2>6
<1>9. CASE applyTally(k)
  <2>1. /\ UNCHANGED <<client, ending, reported, up, down, cut, sent>>
        /\ server[k] = "applying" /\ server'[k] = "answering"
    BY <1>0, <1>9 DEF applyTally, ServerTo, Typed
  <2>2. QED
    BY <1>a, <2>1 DEF Polite, Running, U, D, S
<1>10. CASE Answer(k)
  <2>1. /\ UNCHANGED <<client, up, cut, reported, sent>> /\ server[k] = "answering"
    BY <1>10 DEF Answer
  <2>2. CASE SendDown(k, Value(held[k])) /\ ServerTo(k, "reading") /\ UNCHANGED ending
    <3>1. server'[k] = "reading"
      BY <1>0, <2>2 DEF ServerTo, Typed
    <3>2. Value(held[k]) \in Frame /\ Value(held[k]) \notin {Garbled, Bye, Eof}
      BY <1>0, Values, Apart DEF Typed
    <3>3. /\ client[k] = "gone" => ToSet(down'[k]) = {}
          /\ client[k] # "gone" => \/ ToSet(down'[k]) = D \cup {Value(held[k])}
                                   \/ ToSet(down'[k]) = D /\ Eof \in D
      BY <1>0, <2>2, <3>2, WayDown DEF D
    <3>4. QED
      BY <1>a, <2>1, <2>2, <3>1, <3>2, <3>3 DEF Polite, Running, U, S
  <2>3. CASE /\ k \in cut \/ ClientGone(k)
             /\ EndWith(k, "failure") /\ UNCHANGED down
    <3>1. server'[k] = "leaving" /\ ending'[k] = "failure"
      BY <1>0, <2>3 DEF EndWith, ServerTo, Typed
    <3>2. k \in cut
      BY <1>a, <2>1, <2>3 DEF Polite, Running, ClientGone
    <3>3. QED
      BY <1>a, <2>1, <2>3, <3>1, <3>2 DEF Polite, Running, U, D, S
  <2>4. QED
    BY <1>10, <2>2, <2>3 DEF Answer
<1>11. CASE Interrupt(k)
  <2>1. /\ UNCHANGED <<client, up, reported, sent>>
        /\ server[k] \in {"reading", "applying", "answering"} /\ server'[k] = "leaving"
        /\ ending'[k] \in {"interrupted", "success", "failure"}
    BY <1>0, <1>11 DEF Interrupt, EndWith, ServerTo, readExit, Typed
  <2>2. CASE server[k] = "applying"
    <3>1. ending'[k] = "interrupted" /\ UNCHANGED <<down, cut>>
      BY <1>0, <1>11, <2>2 DEF Interrupt, EndWith, ServerTo
    <3>2. QED
      BY <1>a, <2>1, <2>2, <3>1 DEF Polite, Running, U, D, S
  <2>3. CASE server[k] # "applying"
    <3>1. SendDown(k, Eof) /\ k \in cut'
      BY <1>11, <2>3 DEF Interrupt
    <3>2. /\ client[k] = "gone" => ToSet(down'[k]) = {}
          /\ client[k] # "gone" => \/ ToSet(down'[k]) = D \cup {Eof}
                                   \/ ToSet(down'[k]) = D /\ Eof \in D
      BY <1>0, <1>b, <3>1, WayDown DEF D
    <3>3. QED
      BY <1>a, <2>1, <2>3, <3>1, <3>2, Apart DEF Polite, Running, U, S
  <2>4. QED
    BY <2>2, <2>3
<1>12. CASE closeSocket(k)
  <2>1. UNCHANGED <<client, cut, ending, sent>> /\ server[k] = "leaving"
    BY <1>12 DEF closeSocket
  <2>2. CASE ServerCannot(k)
    <3>1. /\ server'[k] = "done" /\ ToSet(up'[k]) = {} /\ SendDown(k, Eof)
          /\ reported'[k] # reported[k] => ending[k] = "failure"
      BY <1>0, <1>12, <1>b, <2>2 DEF closeSocket, Finish, ServerTo, Typed
    <3>2. /\ client[k] = "gone" => ToSet(down'[k]) = {}
          /\ client[k] # "gone" => \/ ToSet(down'[k]) = D \cup {Eof}
                                   \/ ToSet(down'[k]) = D /\ Eof \in D
      BY <1>0, <1>b, <3>1, WayDown DEF D
    <3>3. QED
      BY <1>a, <2>1, <3>1, <3>2, Apart DEF Polite, Running, S
  <2>3. CASE ~ServerCannot(k)
    <3>1. server'[k] = "goodbye" /\ UNCHANGED <<up, reported>> /\ SendDown(k, Bye)
      BY <1>0, <1>12, <2>3 DEF closeSocket, ServerTo, Typed
    <3>2. client[k] # "gone" /\ k \notin cut /\ ending[k] # "success"
      BY <2>3 DEF ServerCannot, ClientGone
    <3>3. ToSet(down'[k]) = D \cup {Bye} \/ (ToSet(down'[k]) = D /\ Eof \in D)
      BY <1>0, <1>b, <3>1, <3>2, WayDown DEF D
    <3>4. QED
      BY <1>a, <2>1, <3>1, <3>2, <3>3, Apart DEF Polite, Running, U, S
  <2>4. QED
    BY <2>2, <2>3
<1>13. CASE ServerHearsBye(k)
  <2>1. /\ UNCHANGED <<client, down, cut, ending, sent>> /\ server[k] = "goodbye"
        /\ up[k] # <<>>
    BY <1>13 DEF ServerHearsBye
  <2>2. CASE Head(up[k]) \in {Bye, Eof}
    <3>1. /\ server'[k] = "done" /\ ToSet(up'[k]) = {}
          /\ reported'[k] # reported[k] => ending[k] = "failure"
      BY <1>0, <1>13, <1>b, <2>2 DEF ServerHearsBye, Finish, ServerTo, Typed
    <3>2. QED
      BY <1>a, <2>1, <3>1 DEF Polite, Running, D, S
  <2>3. CASE Head(up[k]) \notin {Bye, Eof}
    <3>1. UNCHANGED <<server, reported>> /\ TakeUp(k)
      BY <1>13, <2>3 DEF ServerHearsBye
    <3>2. U = ToSet(up'[k]) \cup {Head(up[k])}
      BY <1>0, <2>1, <3>1, WayUp DEF U
    <3>3. QED
      BY <1>a, <2>1, <2>3, <3>1, <3>2 DEF Polite, Running, D, S
  <2>4. QED
    BY <2>2, <2>3
<1>14. CASE ServerGivesUp(k)
  <2>1. /\ UNCHANGED <<client, ending, sent>> /\ server[k] = "goodbye" /\ k \in cut'
        /\ server'[k] = "done" /\ ToSet(up'[k]) = {} /\ SendDown(k, Eof)
        /\ reported'[k] # reported[k] => ending[k] = "failure"
    BY <1>0, <1>14, <1>b DEF ServerGivesUp, Finish, ServerTo, Typed
  <2>2. /\ client[k] = "gone" => ToSet(down'[k]) = {}
        /\ client[k] # "gone" => \/ ToSet(down'[k]) = D \cup {Eof}
                                 \/ ToSet(down'[k]) = D /\ Eof \in D
    BY <1>0, <1>b, <2>1, WayDown DEF D
  <2>3. QED
    BY <1>a, <2>1, <2>2, Apart DEF Polite, Running, S
<1>15. CASE Break(k)
  <2>1. /\ UNCHANGED <<client, server, ending, reported, sent>> /\ k \in cut'
        /\ client[k] \notin {"out", "gone"} /\ server[k] # "done"
        /\ ToSet(up'[k]) = {Eof} /\ ToSet(down'[k]) = {Eof}
    BY <1>0, <1>15, <1>b DEF Break, Typed
  <2>2. QED
    BY <1>a, <2>1, Apart DEF Polite, Running, Asking, S
<1>16. QED
  BY <1>1, <1>2, <1>3, <1>4, <1>5, <1>6, <1>7, <1>8, <1>9, <1>10, <1>11, <1>12, <1>13, <1>14,
     <1>15
  DEF Step, ClientEnds, ServerRuns, ServerEnds

(* Every step preserves the invariant.                                     *)
LEMMA PoliteStep == TalkInv /\ PoliteInv /\ [Next]_vars => PoliteInv'
<1> SUFFICES ASSUME TalkInv, PoliteInv, [Next]_vars PROVE PoliteInv'
  OBVIOUS
<1>1. ASSUME NEW k \in Conversations, Step(k) PROVE PoliteInv'
  BY <1>1, OnlyHere, StepIsPolite, OthersStayPolite DEF TalkInv
<1>2. CASE UNCHANGED vars
  BY <1>2 DEF vars, wireVars, historyVars, PoliteInv, Mannerly
<1>3. QED
  BY <1>1, <1>2 DEF Next, Step

(* What the invariant says of one conversation.                            *)
LEMMA PoliteImplies == PoliteInv => NobodyLeftWaiting /\ ReportedIfBad
<1> SUFFICES ASSUME PoliteInv PROVE NobodyLeftWaiting /\ ReportedIfBad
  OBVIOUS
<1>1. ASSUME NEW k \in Conversations
      PROVE  /\ server[k] = "done" /\ client[k] \in {"reading", "goodbye"}
                  => {Bye, Eof} \cap ToSet(down[k]) # {}
             /\ client[k] = "gone" /\ server[k] \in {"reading", "goodbye"}
                  => {Bye, Eof} \cap ToSet(up[k]) # {}
             /\ reported[k] = 1 => k \in cut \/ Garbled \in ToSet(sent[k])
             /\ ending[k] = "success" => k \in cut \/ Garbled \notin ToSet(sent[k])
  <2>1. Mannerly(k)
    BY DEF PoliteInv
  <2>2. QED
    BY <2>1 DEF Mannerly, Polite
<1>2. QED
  BY <1>1 DEF NobodyLeftWaiting, ReportedIfBad

(* Nobody waits on a peer that has gone without a goodbye or the end of    *)
(* the stream on its way (accept.go, dial.go: closing a scope closes the   *)
(* socket).                                                                *)
THEOREM WaitsCorrect == Spec => []NobodyLeftWaiting
BY TalkInitial, TalkStep, PoliteInitial, PoliteStep, PoliteImplies, PTL DEF Spec

(* A conversation is reported only if a message was unreadable or the      *)
(* connection was taken away, and one that met an unreadable message does  *)
(* not end as a success (inbound.go, socket.go).                           *)
THEOREM ReportsCorrect == Spec => []ReportedIfBad
BY TalkInitial, TalkStep, PoliteInitial, PoliteStep, PoliteImplies, PTL DEF Spec

-----------------------------------------------------------------------------
(* Sums.  The sum of some numbers is what the fold over them computes, in  *)
(* whatever order it takes them.                                           *)

One(t) == CHOOSE x \in t : TRUE

(* One round of the fold, where g has done the earlier ones.               *)
Adding(v, g, t) == IF t = {} THEN 0 ELSE v[One(t)] + g[t \ {One(t)}]
Summing(v, g) == \A t \in SUBSET DOMAIN v : g[t] = Adding(v, g, t)
Sums(D, v, g) ==
  IsFiniteSet(D) /\ v \in [D -> Int] /\ g \in [SUBSET D -> Int] /\ Summing(v, g)

(* Induction over the naturals, for a set of them: a set of naturals that  *)
(* is not empty has a least member.                                        *)
LEMMA Least ==
  ASSUME NEW S \in SUBSET Nat, S # {}
  PROVE  \E m \in S : \A k \in S : m <= k
<1> DEFINE R == {ss \in Nat \X Nat : ss[1] < ss[2]}
<1>1. IsWellFoundedOn(R, Nat)
  BY NatLessThanWellFounded DEF OpToRel
<1> HIDE DEF R
<1>2. PICK m \in S : \A k \in S : ~(<<k, m>> \in R)
  BY <1>1, WFMin
<1>3. ASSUME NEW k \in S PROVE m <= k
  <2>1. k \in Nat /\ m \in Nat
    OBVIOUS
  <2>2. ~(k < m)
    BY <1>2, <2>1 DEF R
  <2>3. QED
    BY <2>1, <2>2
<1>4. QED
  BY <1>3

(* What holds of 0 and of every successor holds of every number.           *)
LEMMA Counting ==
  ASSUME NEW S, 0 \in S, \A n \in Nat : n \in S => n + 1 \in S
  PROVE  Nat \subseteq S
<1> SUFFICES ASSUME Nat \ S # {} PROVE FALSE
  OBVIOUS
<1>1. PICK m \in Nat \ S : \A k \in Nat \ S : m <= k
  BY Least
<1>2. m # 0 /\ m - 1 \in Nat
  BY <1>1
<1>3. m - 1 \in S
  BY <1>1, <1>2
<1>4. QED
  BY <1>1, <1>2, <1>3

(* Induction over the subsets of a finite set.                             *)
LEMMA BySubsets ==
  ASSUME NEW D, IsFiniteSet(D), NEW P,
         \A s \in SUBSET D : (\A t \in SUBSET s : t # s => t \in P) => s \in P
  PROVE  SUBSET D \subseteq P
<1> SUFFICES ASSUME (SUBSET D) \ P # {} PROVE FALSE
  OBVIOUS
<1> DEFINE T == (SUBSET D) \ P
           R == StrictSubsetOrdering(D)
<1>1. IsWellFoundedOn(R, SUBSET D)
  <2>1. FiniteSubsetsOf(D) = SUBSET D
    BY FS_FiniteSubsetsOfFinite
  <2>2. IsWellFoundedOn(R, FiniteSubsetsOf(D))
    BY FS_StrictSubsetOrderingWellFounded
  <2>3. QED
    BY <2>1, <2>2
<1>2. PICK s \in T : \A t \in T : ~(<<t, s>> \in R)
  <2>1. T \subseteq SUBSET D /\ T # {}
    OBVIOUS
  <2> HIDE DEF T, R
  <2>2. QED
    BY <1>1, <2>1, WFMin
<1>3. ASSUME NEW t \in SUBSET s, t # s PROVE t \in P
  <2>1. t \in SUBSET D /\ s \in SUBSET D
    OBVIOUS
  <2>2. <<t, s>> \in StrictSubsetOrdering(D)
    BY <1>3, <2>1 DEF StrictSubsetOrdering
  <2>3. QED
    BY <1>2, <2>1, <2>2
<1>4. QED
  BY <1>3

(* The one that is chosen is one of them.                                  *)
LEMMA OneOf == ASSUME NEW t, t # {} PROVE One(t) \in t
BY DEF One

(* There is such a sum, of any finitely many integers.                     *)
LEMMA SumExists ==
  ASSUME NEW D, IsFiniteSet(D), NEW v \in [D -> Int]
  PROVE  \E g : Sums(D, v, g)
<1> DEFINE Upto(n) == {t \in SUBSET D : Cardinality(t) <= n}
           S == {n \in Nat : \E g \in [SUBSET D -> Int] :
                               \A t \in Upto(n) : g[t] = Adding(v, g, t)}
<1>1. \A t \in SUBSET D : IsFiniteSet(t) /\ Cardinality(t) \in Nat
  BY FS_Subset, FS_CardinalityType
<1>2. \A t \in SUBSET D : t # {} =>
        /\ One(t) \in t /\ v[One(t)] \in Int /\ t \ {One(t)} \in SUBSET D
        /\ Cardinality(t \ {One(t)}) = Cardinality(t) - 1
  BY <1>1, OneOf, FS_RemoveElement
<1>3. 0 \in S
  <2> DEFINE g == [t \in SUBSET D |-> 0]
  <2>1. \A t \in Upto(0) : t = {} /\ g[t] = 0
    <3>1. \A t \in Upto(0) : t \in SUBSET D /\ Cardinality(t) = 0
      BY <1>1
    <3>2. QED
      BY <1>1, <3>1, FS_EmptySet
  <2>2. \A t \in Upto(0) : g[t] = Adding(v, g, t)
    BY <2>1 DEF Adding
  <2>3. g \in [SUBSET D -> Int]
    OBVIOUS
  <2> HIDE DEF g, Upto
  <2>4. QED
    BY <2>2, <2>3
<1>4. ASSUME NEW n \in Nat, n \in S PROVE n + 1 \in S
  <2>1. PICK f \in [SUBSET D -> Int] : \A t \in Upto(n) : f[t] = Adding(v, f, t)
    BY <1>4
  <2> DEFINE g == [t \in SUBSET D |-> IF Cardinality(t) = n + 1 THEN Adding(v, f, t) ELSE f[t]]
  <2>2. \A t \in SUBSET D : Adding(v, f, t) \in Int
    BY <1>2 DEF Adding
  <2>3. g \in [SUBSET D -> Int]
    BY <2>2
  <2>4. \A t \in Upto(n + 1) : g[t] = Adding(v, f, t)
    <3>1. \A t \in Upto(n + 1) : t \in SUBSET D /\ (Cardinality(t) = n + 1 \/ t \in Upto(n))
      BY <1>1
    <3> HIDE DEF Upto
    <3>2. QED
      BY <2>1, <3>1
  <2>5. ASSUME NEW t \in Upto(n + 1) PROVE Adding(v, g, t) = Adding(v, f, t)
    <3>1. CASE t = {}
      BY <3>1 DEF Adding
    <3>2. CASE t # {}
      <4>1. /\ t \ {One(t)} \in SUBSET D
            /\ Cardinality(t \ {One(t)}) # n + 1
        BY <1>1, <1>2, <3>2
      <4>2. g[t \ {One(t)}] = f[t \ {One(t)}]
        BY <4>1
      <4> HIDE DEF g
      <4>3. QED
        BY <3>2, <4>2 DEF Adding
    <3>3. QED
      BY <3>1, <3>2
  <2> HIDE DEF g, Upto
  <2>6. QED
    BY <2>3, <2>4, <2>5
<1>5. Cardinality(D) \in S
  <2> HIDE DEF S
  <2>1. Nat \subseteq S
    BY <1>3, <1>4, Counting
  <2>2. QED
    BY <1>1, <2>1
<1>6. PICK g \in [SUBSET D -> Int] : \A t \in Upto(Cardinality(D)) : g[t] = Adding(v, g, t)
  BY <1>5
<1>7. \A t \in SUBSET D : t \in Upto(Cardinality(D))
  BY FS_Subset
<1>8. QED
  BY <1>6, <1>7 DEF Sums, Summing

(* Sums of the same numbers are the same.                                  *)
LEMMA SumsAgree ==
  ASSUME NEW D, IsFiniteSet(D), NEW v, NEW w, NEW g, NEW h,
         D \subseteq DOMAIN v, D \subseteq DOMAIN w, \A x \in D : v[x] = w[x],
         Summing(v, g), Summing(w, h)
  PROVE  g[D] = h[D]
<1> DEFINE P == {s \in SUBSET D : g[s] = h[s]}
<1>1. ASSUME NEW s \in SUBSET D, \A t \in SUBSET s : t # s => t \in P PROVE s \in P
  <2>1. g[s] = Adding(v, g, s) /\ h[s] = Adding(w, h, s)
    BY DEF Summing
  <2>2. CASE s = {}
    BY <2>1, <2>2 DEF Adding
  <2>3. CASE s # {}
    <3>1. One(s) \in s
      BY <2>3, OneOf
    <3>2. g[s \ {One(s)}] = h[s \ {One(s)}] /\ v[One(s)] = w[One(s)]
      BY <1>1, <3>1
    <3>3. QED
      BY <2>1, <2>3, <3>2 DEF Adding
  <2>4. QED
    BY <2>2, <2>3
<1> HIDE DEF P
<1>2. SUBSET D \subseteq P
  BY <1>1, BySubsets
<1>3. QED
  BY <1>2 DEF P

(* A sum is any one of the numbers and the sum of the others.              *)
LEMMA SumOfOthers ==
  ASSUME NEW D, NEW v, NEW g, Sums(D, v, g)
  PROVE  \A x \in D : g[D] = v[x] + g[D \ {x}]
<1>0. /\ IsFiniteSet(D) /\ DOMAIN v = D /\ Summing(v, g)
      /\ (\A y \in D : v[y] \in Int) /\ (\A t \in SUBSET D : g[t] \in Int)
  BY DEF Sums
<1> DEFINE P == {s \in SUBSET D : \A y \in s : g[s] = v[y] + g[s \ {y}]}
<1>1. ASSUME NEW s \in SUBSET D, \A t \in SUBSET s : t # s => t \in P PROVE s \in P
  <2> SUFFICES ASSUME NEW y \in s PROVE g[s] = v[y] + g[s \ {y}]
    OBVIOUS
  <2>1. One(s) \in s /\ g[s] = v[One(s)] + g[s \ {One(s)}]
    BY <1>0, OneOf DEF Summing, Adding
  <2>2. CASE y = One(s)
    BY <2>1, <2>2
  <2>3. CASE y # One(s)
    <3> PICK z : z = One(s)
      OBVIOUS
    <3>1. s \ {z} \in P /\ s \ {y} \in P /\ y \in s \ {z} /\ z \in s \ {y}
      BY <1>1, <2>1, <2>3
    <3>2. (s \ {z}) \ {y} = (s \ {y}) \ {z}
      OBVIOUS
    <3>3. /\ g[s \ {z}] = v[y] + g[(s \ {y}) \ {z}]
          /\ g[s \ {y}] = v[z] + g[(s \ {y}) \ {z}]
      BY <3>1, <3>2
    <3>4. v[y] \in Int /\ v[z] \in Int /\ g[(s \ {y}) \ {z}] \in Int
      BY <1>0, <2>1
    <3>5. g[s] = v[z] + g[s \ {z}]
      BY <2>1
    <3> HIDE DEF P
    <3>6. QED
      BY <3>3, <3>4, <3>5
  <2>4. QED
    BY <2>2, <2>3
<1> HIDE DEF P
<1>2. SUBSET D \subseteq P
  BY <1>0, <1>1, BySubsets
<1>3. QED
  BY <1>2 DEF P

(* The sum of the changes in a sequence, and of those in all of them.      *)
Added(s) == FoldSeq(LAMBDA entry, sum : entry.add + sum, 0, s)
Totals(a) == MapThenSumSet(LAMBDA k : Added(a[k]), Conversations)

(* What the fold over a sequence of changes computes is their sum.         *)
LEMMA AddedIs ==
  ASSUME NEW s \in Seq(Entry), NEW v, v = [i \in 1 .. Len(s) |-> s[i].add]
  PROVE  \E g : Sums(1 .. Len(s), v, g) /\ Added(s) = g[1 .. Len(s)]
<1> DEFINE D == 1 .. Len(s)
           Fold(g, t) == IF t = {} THEN 0
                         ELSE s[CHOOSE x \in t : TRUE].add + g[t \ {CHOOSE x \in t : TRUE}]
           iter == CHOOSE g : g = [t \in SUBSET D |-> Fold(g, t)]
<1>1. Len(s) \in Nat /\ DOMAIN s = D /\ \A i \in D : s[i] \in Entry
  BY LenProperties, ElementOfSeq
<1>2. Added(s) = iter[D]
  BY <1>1 DEF Added, FoldSeq, FoldFunction, FoldFunctionOnSet, MapThenFoldSet
<1>3. v \in [D -> Int] /\ IsFiniteSet(D) /\ DOMAIN v = D
  BY <1>1, FS_Interval DEF Entry
<1> HIDE DEF D
<1>4. \A g : \A t \in SUBSET D : Fold(g, t) = Adding(v, g, t)
  <2>1. \A t \in SUBSET D : t # {} => v[CHOOSE x \in t : TRUE] = s[CHOOSE x \in t : TRUE].add
    BY OneOf DEF One, D
  <2>2. QED
    BY <2>1 DEF Adding, One
<1> HIDE DEF Fold
<1>5. PICK g : Sums(D, v, g)
  BY <1>3, SumExists
<1>6. g = [t \in SUBSET D |-> Fold(g, t)]
  BY <1>3, <1>4, <1>5 DEF Sums, Summing
<1>7. iter = [t \in SUBSET D |-> Fold(iter, t)]
  BY <1>6
<1> HIDE DEF iter
<1>8. Summing(v, iter)
  <2>1. \A t \in SUBSET D : iter[t] = Fold(iter, t)
    BY <1>7
  <2>2. QED
    BY <1>3, <1>4, <2>1 DEF Summing
<1>9. iter[D] = g[D]
  <2>1. Summing(v, g)
    BY <1>5 DEF Sums
  <2>2. QED
    BY <1>3, <1>8, <2>1, SumsAgree
<1>10. QED
  BY <1>2, <1>5, <1>9 DEF D

(* One more number adds itself.                                            *)
LEMMA SumMore ==
  ASSUME NEW E, NEW m, NEW v, NEW w, NEW g, NEW h, m \in E,
         Sums(E \ {m}, v, g), Sums(E, w, h), \A x \in E \ {m} : v[x] = w[x]
  PROVE  h[E] = w[m] + g[E \ {m}] /\ g[E \ {m}] \in Int
<1>1. \A x \in E : h[E] = w[x] + h[E \ {x}]
  BY SumOfOthers
<1> PICK D : D = E \ {m}
  OBVIOUS
<1>2. /\ IsFiniteSet(D) /\ D \subseteq DOMAIN v /\ D \subseteq DOMAIN w
      /\ (\A x \in D : v[x] = w[x]) /\ Summing(v, g) /\ Summing(w, h)
  BY DEF Sums
<1>3. g[D] = h[D]
  BY <1>2, SumsAgree
<1>4. g[D] \in Int
  BY DEF Sums
<1>5. QED
  BY <1>1, <1>3, <1>4

(* One more change adds itself.                                            *)
LEMMA AddedMore ==
  ASSUME NEW s \in Seq(Entry), NEW e \in Entry
  PROVE  Added(s) \in Int /\ Added(Append(s, e)) = e.add + Added(s)
<1> DEFINE r == Append(s, e)
           v == [i \in 1 .. Len(s) |-> s[i].add]
           w == [i \in 1 .. Len(r) |-> r[i].add]
           E == 1 .. Len(r)
<1> PICK m : m = Len(s) + 1
  OBVIOUS
<1>1. /\ Len(s) \in Nat /\ r \in Seq(Entry) /\ Len(r) = m /\ r[m] = e
      /\ \A i \in 1 .. Len(s) : r[i] = s[i]
  BY LenProperties, AppendProperties
<1>2. PICK g : Sums(1 .. Len(s), v, g) /\ Added(s) = g[1 .. Len(s)]
  BY AddedIs
<1>3. PICK h : Sums(E, w, h) /\ Added(r) = h[E]
  <2> HIDE DEF r
  <2>1. QED
    BY <1>1, AddedIs
<1>4. m \in E /\ 1 .. Len(s) = E \ {m}
  BY <1>1
<1>5. w[m] = e.add /\ \A i \in E \ {m} : v[i] = w[i]
  BY <1>1, <1>4
<1>6. Sums(E \ {m}, v, g) /\ Added(s) = g[E \ {m}]
  BY <1>2, <1>4
<1> HIDE DEF v, w, E, r
<1>7. h[E] = w[m] + g[E \ {m}] /\ g[E \ {m}] \in Int
  BY <1>3, <1>4, <1>5, <1>6, SumMore
<1>8. QED
  BY <1>3, <1>5, <1>6, <1>7 DEF r

(* The sum over all conversations.                                         *)
LEMMA TotalsIs ==
  ASSUME NEW a \in [Conversations -> Seq(Entry)],
         NEW v, v = [k \in Conversations |-> Added(a[k])]
  PROVE  /\ v \in [Conversations -> Int]
         /\ \E g : Sums(Conversations, v, g) /\ Totals(a) = g[Conversations]
<1> DEFINE D == Conversations
           Fold(g, t) == IF t = {} THEN 0
                         ELSE Added(a[CHOOSE x \in t : TRUE]) + g[t \ {CHOOSE x \in t : TRUE}]
           iter == CHOOSE g : g = [t \in SUBSET D |-> Fold(g, t)]
<1>1. Totals(a) = iter[D]
  BY DEF Totals, MapThenSumSet, MapThenFoldSet
<1>2. \A k \in D : Added(a[k]) \in Int
  <2>1. [add |-> 0, total |-> 0] \in Entry
    BY DEF Entry
  <2>2. QED
    BY <2>1, AddedMore
<1>3. v \in [D -> Int] /\ IsFiniteSet(D) /\ DOMAIN v = D
  BY <1>2, ConversationAssumption
<1> HIDE DEF D
<1>4. \A g : \A t \in SUBSET D : Fold(g, t) = Adding(v, g, t)
  <2>1. \A t \in SUBSET D : t # {} =>
          v[CHOOSE x \in t : TRUE] = Added(a[CHOOSE x \in t : TRUE])
    BY OneOf DEF One, D
  <2>2. QED
    BY <2>1 DEF Adding, One
<1> HIDE DEF Fold
<1>5. PICK g : Sums(D, v, g)
  BY <1>3, SumExists
<1>6. g = [t \in SUBSET D |-> Fold(g, t)]
  BY <1>3, <1>4, <1>5 DEF Sums, Summing
<1>7. iter = [t \in SUBSET D |-> Fold(iter, t)]
  BY <1>6
<1> HIDE DEF iter
<1>8. Summing(v, iter)
  <2>1. \A t \in SUBSET D : iter[t] = Fold(iter, t)
    BY <1>7
  <2>2. QED
    BY <1>3, <1>4, <2>1 DEF Summing
<1>9. iter[D] = g[D]
  <2>1. Summing(v, g)
    BY <1>5 DEF Sums
  <2>2. QED
    BY <1>3, <1>8, <2>1, SumsAgree
<1>10. QED
  BY <1>1, <1>3, <1>5, <1>9 DEF D

(* One more change, in one conversation, adds itself to the sum of all.    *)
LEMMA TotalsMore ==
  ASSUME NEW a \in [Conversations -> Seq(Entry)], NEW k \in Conversations, NEW e \in Entry
  PROVE  Totals([a EXCEPT ![k] = Append(a[k], e)]) = Totals(a) + e.add
<1> DEFINE D == Conversations
           b == [a EXCEPT ![k] = Append(a[k], e)]
           v == [j \in D |-> Added(a[j])]
           w == [j \in D |-> Added(b[j])]
<1>1. b \in [D -> Seq(Entry)] /\ b[k] = Append(a[k], e) /\ \A j \in D \ {k} : b[j] = a[j]
  BY AppendProperties
<1>2. PICK g : Sums(D, v, g) /\ Totals(a) = g[D]
  BY TotalsIs
<1>3. PICK h : Sums(D, w, h) /\ Totals(b) = h[D]
  <2> HIDE DEF b
  <2>1. QED
    BY <1>1, TotalsIs
<1>4. w[k] = e.add + v[k] /\ \A j \in D \ {k} : w[j] = v[j]
  <2>1. Added(b[k]) = e.add + Added(a[k])
    BY <1>1, AddedMore
  <2> HIDE DEF b
  <2>2. QED
    BY <1>1, <2>1
<1>5. e.add \in Int /\ k \in D
  BY DEF Entry
<1> HIDE DEF D, b, v, w
<1> PICK C : C = D \ {k}
  OBVIOUS
<1>6. g[D] = v[k] + g[C] /\ h[D] = w[k] + h[C]
  <2>1. \A x \in D : g[D] = v[x] + g[D \ {x}]
    BY <1>2, SumOfOthers
  <2>2. \A x \in D : h[D] = w[x] + h[D \ {x}]
    BY <1>3, SumOfOthers
  <2>3. QED
    BY <1>5, <2>1, <2>2
<1>7. /\ IsFiniteSet(C) /\ C \subseteq DOMAIN v /\ C \subseteq DOMAIN w
      /\ (\A x \in C : v[x] = w[x]) /\ Summing(v, g) /\ Summing(w, h)
  BY <1>2, <1>3, <1>4, FS_RemoveElement DEF Sums
<1>8. g[C] = h[C]
  BY <1>7, SumsAgree
<1>9. v[k] \in Int /\ g[C] \in Int
  BY <1>2, <1>5 DEF Sums
<1>10. QED
  BY <1>2, <1>3, <1>4, <1>5, <1>6, <1>8, <1>9 DEF b

(* Nothing said adds up to nothing.                                        *)
LEMMA NothingAdded ==
  ASSUME NEW a, a = [k \in Conversations |-> <<>>]
  PROVE  Totals(a) = 0
<1> DEFINE D == Conversations
           v == [k \in D |-> Added(a[k])]
<1>1. Added(<<>>) = 0
  <2> DEFINE u == [i \in 1 .. Len(<<>>) |-> <<>>[i].add]
  <2>1. <<>> \in Seq(Entry) /\ 1 .. Len(<<>>) = {}
    BY EmptySeq
  <2>2. PICK g : Sums(1 .. Len(<<>>), u, g) /\ Added(<<>>) = g[1 .. Len(<<>>)]
    BY <2>1, AddedIs
  <2>3. QED
    BY <2>1, <2>2 DEF Sums, Summing, Adding
<1>2. a \in [D -> Seq(Entry)] /\ \A k \in D : a[k] = <<>>
  BY EmptySeq
<1>3. PICK g : Summing(v, g) /\ Totals(a) = g[D]
  BY <1>2, TotalsIs DEF Sums
<1>4. \A k \in D : v[k] = 0
  BY <1>1, <1>2
<1>5. IsFiniteSet(D) /\ DOMAIN v = D
  BY ConversationAssumption
<1> DEFINE P == {s \in SUBSET D : g[s] = 0}
<1> HIDE DEF v
<1>6. ASSUME NEW s \in SUBSET D, \A t \in SUBSET s : t # s => t \in P PROVE s \in P
  <2>1. g[s] = Adding(v, g, s)
    BY <1>3, <1>5 DEF Summing
  <2>2. CASE s = {}
    BY <2>1, <2>2 DEF Adding
  <2>3. CASE s # {}
    <3>1. One(s) \in s
      BY <2>3, OneOf
    <3>2. g[s \ {One(s)}] = 0 /\ v[One(s)] = 0
      BY <1>4, <1>6, <3>1
    <3>3. QED
      BY <2>1, <2>3, <3>2 DEF Adding
  <2>4. QED
    BY <2>2, <2>3
<1> HIDE DEF P
<1>7. SUBSET D \subseteq P
  BY <1>5, <1>6, BySubsets
<1>8. QED
  BY <1>3, <1>7 DEF P

(* The Ref holds the sum of every change applied.                          *)
TallyInv == total = Totals(applied)

(* Every step keeps it: only applyTally changes either side, by the same.  *)
LEMMA TallyStep == TalkInv /\ TallyInv /\ [Next]_vars => TallyInv'
<1> SUFFICES ASSUME TalkInv, TallyInv, [Next]_vars PROVE TallyInv'
  OBVIOUS
<1>1. CASE UNCHANGED <<total, applied>>
  BY <1>1 DEF TallyInv
<1>2. ASSUME NEW k \in Conversations, applyTally(k) PROVE TallyInv'
  <2> DEFINE e == [add |-> held[k], total |-> total + held[k]]
  <2>1. total' = total + held[k] /\ applied' = [applied EXCEPT ![k] = Append(applied[k], e)]
    BY <1>2 DEF applyTally
  <2>2. e \in Entry /\ e.add = held[k] /\ applied \in [Conversations -> Seq(Entry)]
    BY DEF TalkInv, Typed, Entry
  <2> HIDE DEF e
  <2>3. Totals([applied EXCEPT ![k] = Append(applied[k], e)]) = Totals(applied) + e.add
    BY <2>2, TotalsMore
  <2>4. QED
    BY <2>1, <2>2, <2>3 DEF TallyInv
<1>3. ASSUME NEW k \in Conversations,
             \/ Dial(k) \/ (\E frame \in Frames(k) : Send(k, frame)) \/ BeginReceive(k)
             \/ Receive(k) \/ Leave(k) \/ LeaveReading(k) \/ ClientEnds(k)
             \/ Read(k) \/ Answer(k) \/ Interrupt(k) \/ ServerEnds(k) \/ Break(k)
      PROVE  UNCHANGED <<total, applied>>
  <2>1. CASE Dial(k) \/ (\E frame \in Frames(k) : Send(k, frame)) \/ BeginReceive(k) \/ Receive(k)
    BY <2>1 DEF Dial, Send, BeginReceive, Receive, historyVars
  <2>2. CASE Leave(k) \/ LeaveReading(k) \/ ClientEnds(k)
    BY <2>2 DEF Leave, LeaveReading, ClientEnds, ClientHearsBye, ClientGivesUp, historyVars
  <2>3. CASE Read(k) \/ Answer(k) \/ Interrupt(k)
    BY <2>3 DEF Read, Answer, Interrupt, historyVars
  <2>4. CASE ServerEnds(k) \/ Break(k)
    BY <2>4 DEF ServerEnds, closeSocket, ServerHearsBye, ServerGivesUp, Break, historyVars
  <2>5. QED
    BY <1>3, <2>1, <2>2, <2>3, <2>4
<1>4. QED
  BY <1>1, <1>2, <1>3 DEF Next, ServerRuns, vars, historyVars

(* The invariant is the run's property, with the fold over each            *)
(* conversation's changes given a name.                                    *)
LEMMA TallyIs == TallyInv <=> TallyAddsUp
BY DEF TallyInv, TallyAddsUp, Totals, MapThenSumSet, MapThenFoldSet, Contribution, Added

(* No update of the total is lost, however many conversations change it    *)
(* (applyTally of tally.go): it is the sum of every change any of them     *)
(* applied.                                                                *)
THEOREM TallyCorrect == Spec => []TallyAddsUp
<1>1. Init => TallyInv
  BY NothingAdded DEF Init, TallyInv
<1>2. QED
  BY <1>1, TalkInitial, TalkStep, TallyStep, TallyIs, PTL DEF Spec
=============================================================================

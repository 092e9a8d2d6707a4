----------------------- MODULE CarrierFraming_proofs ------------------------
(***************************************************************************)
(* Each direction of a carrier is a MessageChannel, for every length of    *)
(* the prefix and of the messages, every size of chunk, batch and buffer.  *)
(*                                                                         *)
(* The buffers and channels a message passes are one pipe of bytes, from   *)
(* the reader's buffer back to the writer or to the first channel that is  *)
(* over.  Reading a chunk, forwarding, batching and flushing move bytes    *)
(* within the pipe and leave it as it is; what changes it is a message     *)
(* that is sent or received, and a stream that breaks.                     *)
(***************************************************************************)
EXTENDS CarrierFraming, SequenceTheorems, TLAPS

-----------------------------------------------------------------------------
(* The bytes of a pipe                                                     *)

\* The messages a stream carries, the gate token among them.
Carried == Messages \cup {Token}

\* A byte on a stream.
Bytes == [msg : Carried, at : Nat]

\* The length of a frame.
Size(m) == HEADER + m.len

\* The gate token comes before the first message.
Nth(s, k) == IF k = 0 THEN Token ELSE s[k]

\* The messages of a direction, in the order of their numbers.
Numbered(s) == s \in Seq(Messages) /\ \A i \in 1 .. Len(s) : s[i].id = i

\* Every byte is one of a message that was sent.
Genuine(p, s) ==
  \A i \in 1 .. Len(p) : /\ p[i].msg.id \in 0 .. Len(s)
                         /\ p[i].msg = Nth(s, p[i].msg.id)
                         /\ p[i].at \in 1 .. Size(p[i].msg)

\* A message that has begun goes on to its end.
GoesOn(p) ==
  \A i, j \in 1 .. Len(p) :
    i <= j /\ p[i].at + (j - i) <= Size(p[i].msg)
      => p[j] = [msg |-> p[i].msg, at |-> p[i].at + (j - i)]

\* After its end the next message begins.
Follows(p, s) ==
  \A i \in 1 .. Len(p) :
    i < Len(p) /\ p[i].at = Size(p[i].msg)
      => /\ p[i].msg.id < Len(s)
         /\ p[i + 1] = [msg |-> Nth(s, p[i].msg.id + 1), at |-> 1]

\* The pipe begins with message f.
Begins(p, s, f) ==
  Len(p) > 0 => f <= Len(s) /\ p[1] = [msg |-> Nth(s, f), at |-> 1]

\* It ends with the last one that was sent.
Entire(p, s, f) ==
  IF Len(p) = 0 THEN f = Len(s) + 1
  ELSE /\ p[Len(p)].msg.id = Len(s)
       /\ p[Len(p)].at = Size(p[Len(p)].msg)

\* The bytes p are those of the messages s from message f on; all of them
\* when nothing has been cut off.
Flow(p, s, f, whole) ==
  /\ p \in Seq(Bytes) /\ Numbered(s) /\ f \in Nat
  /\ Genuine(p, s) /\ GoesOn(p) /\ Follows(p, s) /\ Begins(p, s, f)
  /\ whole => Entire(p, s, f)

-----------------------------------------------------------------------------
(* Frames                                                                  *)

\* Every message has a frame of at least two bytes.
LEMMA CarriedSize ==
  ASSUME NEW m \in Carried
  PROVE  /\ m.id \in Nat /\ m.len \in Nat \ {0}
         /\ Size(m) \in Nat /\ Size(m) > HEADER /\ HEADER \in Nat \ {0}
         /\ Token.id = 0
<1>1. /\ HEADER \in Nat \ {0} /\ Lengths \subseteq Nat \ {0}
      /\ MaxMessages \in Nat
  BY FramingAssumption
<1>2. Token.id = 0 /\ Token.len = 1
  BY DEF Token
<1>3. m.id \in Nat /\ m.len \in Nat \ {0}
  <2>1. CASE m \in Messages
    <3>1. m.id \in 1 .. MaxMessages /\ m.len \in Lengths
      BY <2>1 DEF Messages
    <3>2. m.len \in Nat \ {0}
      BY <1>1, <3>1
    <3>3. m.id \in Nat
      BY <1>1, <3>1
    <3> QED
      BY <3>2, <3>3
  <2>2. CASE m = Token
    BY <1>2, <2>2
  <2> QED
    BY <2>1, <2>2 DEF Carried
<1> QED
  BY <1>1, <1>2, <1>3 DEF Size

\* A frame is the bytes of its message in order.
LEMMA FrameBytes ==
  ASSUME NEW m \in Carried
  PROVE  /\ Frame(m) \in Seq(Bytes) /\ Len(Frame(m)) = Size(m)
         /\ \A i \in 1 .. Size(m) : Frame(m)[i] = [msg |-> m, at |-> i]
<1>1. Size(m) \in Nat
  BY CarriedSize
<1>2. Frame(m) = [i \in 1 .. Size(m) |-> [msg |-> m, at |-> i]]
  BY DEF Frame, Size
<1>3. \A i \in 1 .. Size(m) : [msg |-> m, at |-> i] \in Bytes
  BY <1>1 DEF Bytes
<1> QED
  BY <1>1, <1>2, <1>3, IsASeq

\* The messages of a direction are carried, and numbered.
LEMMA NthCarried ==
  ASSUME NEW s, Numbered(s), NEW k \in 0 .. Len(s)
  PROVE  Len(s) \in Nat /\ Nth(s, k) \in Carried /\ Nth(s, k).id = k
<1>1. CASE k = 0
  BY <1>1 DEF Nth, Carried, Token, Numbered
<1>2. CASE k # 0
  <2>1. k \in 1 .. Len(s) /\ Len(s) \in Nat /\ s[k] \in Messages /\ s[k].id = k
    BY <1>2 DEF Numbered
  <2> QED
    BY <1>2, <2>1 DEF Nth, Carried
<1> QED
  BY <1>1, <1>2

\* A new message leaves the earlier ones where they are.
LEMMA AppendNumbered ==
  ASSUME NEW s, Numbered(s), NEW m \in Messages, m.id = Len(s) + 1
  PROVE  /\ Numbered(Append(s, m)) /\ Len(Append(s, m)) = Len(s) + 1
         /\ \A k \in 0 .. Len(s) : Nth(Append(s, m), k) = Nth(s, k)
         /\ Nth(Append(s, m), Len(s) + 1) = m
<1> DEFINE t == Append(s, m)
<1>1. s \in Seq(Messages) /\ Len(s) \in Nat
  BY DEF Numbered
<1>2. /\ t \in Seq(Messages) /\ Len(t) = Len(s) + 1
      /\ \A k \in 1 .. Len(s) : t[k] = s[k]
      /\ t[Len(s) + 1] = m
  BY <1>1
<1> HIDE DEF t
<1> QED
  BY <1>1, <1>2 DEF Numbered, Nth, t

-----------------------------------------------------------------------------
(* What happens to a flow                                                  *)

\* A message is sent that does not get into the pipe.
LEMMA FlowOutside ==
  ASSUME NEW p, NEW s, NEW f, Flow(p, s, f, FALSE),
         NEW m \in Messages, m.id = Len(s) + 1
  PROVE  Flow(p, Append(s, m), f, FALSE)
<1> DEFINE t == Append(s, m)
<1>1. /\ Numbered(s) /\ Numbered(t) /\ Len(t) = Len(s) + 1 /\ Len(s) \in Nat
      /\ \A k \in 0 .. Len(s) : Nth(t, k) = Nth(s, k)
      /\ f \in Nat /\ p \in Seq(Bytes)
  BY AppendNumbered DEF Flow, Numbered
<1> HIDE DEF t
<1>2. Genuine(p, t)
  BY <1>1 DEF Flow, Genuine
<1>3. Follows(p, t)
  <2> SUFFICES ASSUME NEW i \in 1 .. Len(p), i < Len(p),
                      p[i].at = Size(p[i].msg)
               PROVE  /\ p[i].msg.id < Len(t)
                      /\ p[i + 1] = [msg |-> Nth(t, p[i].msg.id + 1), at |-> 1]
    BY DEF Follows
  <2>1. p[i].msg.id \in 0 .. Len(s)
    BY DEF Flow, Genuine
  <2>2. /\ p[i].msg.id < Len(s)
        /\ p[i + 1] = [msg |-> Nth(s, p[i].msg.id + 1), at |-> 1]
    BY DEF Flow, Follows
  <2>3. p[i].msg.id + 1 \in 0 .. Len(s)
    BY <1>1, <2>1, <2>2
  <2> QED
    BY <1>1, <2>1, <2>2, <2>3
<1>4. Begins(p, t, f)
  BY <1>1 DEF Flow, Begins
<1> QED
  BY <1>1, <1>2, <1>3, <1>4 DEF Flow, t

\* A message is sent.
LEMMA FlowGrows ==
  ASSUME NEW p, NEW s, NEW f, Flow(p, s, f, TRUE),
         NEW m \in Messages, m.id = Len(s) + 1
  PROVE  Flow(p \o Frame(m), Append(s, m), f, TRUE)
<1> DEFINE t == Append(s, m)
           q == p \o Frame(m)
           n == Len(p)
<1>0. n = Len(p) /\ m.id \in Nat
  BY CarriedSize DEF Carried
<1>1. /\ Numbered(s) /\ Numbered(t) /\ Len(t) = Len(s) + 1 /\ Len(s) \in Nat
      /\ \A k \in 0 .. Len(s) : Nth(t, k) = Nth(s, k)
      /\ Nth(t, Len(s) + 1) = m
      /\ f \in Nat /\ p \in Seq(Bytes) /\ n \in Nat
  BY AppendNumbered DEF Flow, Numbered
<1>2. /\ m \in Carried /\ Size(m) \in Nat /\ Size(m) > 1
      /\ Frame(m) \in Seq(Bytes) /\ Len(Frame(m)) = Size(m)
      /\ \A i \in 1 .. Size(m) : Frame(m)[i] = [msg |-> m, at |-> i]
  BY FrameBytes, CarriedSize DEF Carried
<1>3. /\ q \in Seq(Bytes) /\ Len(q) = n + Size(m)
      /\ \A i \in 1 .. n : q[i] = p[i]
      /\ \A i \in n + 1 .. n + Size(m) :
           q[i] = [msg |-> m, at |-> i - n] /\ q[i].msg = m /\ q[i].at = i - n
  <2>1. \A i \in 1 .. n + Size(m) :
          q[i] = IF i <= n THEN p[i] ELSE Frame(m)[i - n]
    BY <1>1, <1>2, ConcatProperties
  <2>2. q \in Seq(Bytes) /\ Len(q) = n + Size(m)
    <3>1. q \in Seq(Bytes) /\ Len(q) = Len(p) + Len(Frame(m))
      BY <1>1, <1>2, ConcatProperties
    <3> QED
      BY <1>2, <3>1
  <2> HIDE DEF q
  <2>3. ASSUME NEW i \in n + 1 .. n + Size(m)
        PROVE  /\ q[i] = [msg |-> m, at |-> i - n]
               /\ q[i].msg = m /\ q[i].at = i - n
    <3>1. i \in 1 .. n + Size(m) /\ ~(i <= n) /\ i - n \in 1 .. Size(m)
      BY <1>1, <1>2
    <3> QED
      BY <1>2, <2>1, <3>1
  <2>4. \A i \in 1 .. n : q[i] = p[i]
    BY <1>1, <1>2, <2>1
  <2> QED
    BY <2>2, <2>3, <2>4
<1> HIDE DEF t, q, n
<1>4. \A i \in 1 .. n : /\ p[i].msg.id \in 0 .. Len(s)
                        /\ p[i].msg = Nth(s, p[i].msg.id)
                        /\ p[i].msg \in Carried
                        /\ p[i].at \in 1 .. Size(p[i].msg)
                        /\ Size(p[i].msg) \in Nat
  BY <1>0, <1>1, NthCarried, CarriedSize DEF Flow, Genuine
<1>5. Genuine(q, t)
  <2> SUFFICES ASSUME NEW i \in 1 .. Len(q)
               PROVE  /\ q[i].msg.id \in 0 .. Len(t)
                      /\ q[i].msg = Nth(t, q[i].msg.id)
                      /\ q[i].at \in 1 .. Size(q[i].msg)
    BY DEF Genuine
  <2>1. CASE i \in 1 .. n
    BY <1>0, <1>1, <1>3, <1>4, <2>1
  <2>2. CASE i \in n + 1 .. n + Size(m)
    <3>1. q[i].msg = m /\ q[i].at = i - n
      BY <1>3, <2>2
    <3>2. i - n \in 1 .. Size(m)
      BY <1>1, <1>2, <2>2
    <3>3. m.id \in 0 .. Len(t) /\ m = Nth(t, m.id)
      BY <1>0, <1>1
    <3> QED
      BY <3>1, <3>2, <3>3
  <2> QED
    BY <1>0, <1>1, <1>2, <1>3, <2>1, <2>2
<1>6. n > 0 => /\ p[n].msg.id = Len(s) /\ p[n].at = Size(p[n].msg)
  BY <1>0, <1>1 DEF Flow, Entire
<1>7. GoesOn(q)
  <2> SUFFICES ASSUME NEW i \in 1 .. Len(q), NEW j \in 1 .. Len(q),
                      i <= j, q[i].at + (j - i) <= Size(q[i].msg)
               PROVE  q[j] = [msg |-> q[i].msg, at |-> q[i].at + (j - i)]
    BY DEF GoesOn
  <2>1. CASE i \in 1 .. n /\ j \in 1 .. n
    BY <1>0, <1>1, <1>3, <2>1 DEF Flow, GoesOn
  <2>2. CASE i \in 1 .. n /\ j > n
    <3>1. p[i].at + (n - i) <= Size(p[i].msg)
      BY <1>0, <1>1, <1>2, <1>3, <1>4, <2>2
    <3>2. p[n] = [msg |-> p[i].msg, at |-> p[i].at + (n - i)]
      BY <1>0, <1>1, <2>2, <3>1 DEF Flow, GoesOn
    <3>3. p[i].at + (n - i) = Size(p[i].msg)
      BY <1>0, <1>1, <1>6, <2>2, <3>2
    <3> QED
      BY <1>0, <1>1, <1>2, <1>3, <1>4, <2>2, <3>3
  <2>3. CASE i > n /\ j > n
    <3>1. i \in n + 1 .. n + Size(m) /\ j \in n + 1 .. n + Size(m)
      BY <1>1, <1>2, <1>3, <2>3
    <3>2. (i - n) + (j - i) = j - n
      BY <1>1
    <3> QED
      BY <1>3, <3>1, <3>2
  <2> QED
    BY <1>0, <1>1, <1>2, <1>3, <2>1, <2>2, <2>3
<1>8. Follows(q, t)
  <2> SUFFICES ASSUME NEW i \in 1 .. Len(q), i < Len(q),
                      q[i].at = Size(q[i].msg)
               PROVE  /\ q[i].msg.id < Len(t)
                      /\ q[i + 1] = [msg |-> Nth(t, q[i].msg.id + 1), at |-> 1]
    BY DEF Follows
  <2>1. CASE i < n
    <3>1. /\ i \in 1 .. n /\ i + 1 \in 1 .. n
          /\ q[i] = p[i] /\ q[i + 1] = p[i + 1]
      BY <1>1, <1>3, <2>1
    <3>2. p[i].msg.id \in 0 .. Len(s)
      BY <1>4, <3>1
    <3>3. /\ p[i].msg.id < Len(s)
          /\ p[i + 1] = [msg |-> Nth(s, p[i].msg.id + 1), at |-> 1]
      BY <1>0, <2>1, <3>1 DEF Flow, Follows
    <3>4. p[i].msg.id + 1 \in 0 .. Len(s)
      BY <1>1, <3>2, <3>3
    <3> QED
      BY <1>1, <3>1, <3>2, <3>3, <3>4
  <2>2. CASE i = n
    BY <1>0, <1>1, <1>2, <1>3, <1>6, <2>2
  <2>3. CASE i > n
    <3>1. i \in n + 1 .. n + Size(m) /\ i - n < Size(m)
      BY <1>1, <1>2, <1>3, <2>3
    <3>2. q[i].msg = m /\ q[i].at = i - n
      BY <1>3, <3>1
    <3>3. i - n = Size(m)
      BY <3>2
    <3> QED
      BY <1>1, <1>2, <3>1, <3>3
  <2> QED
    BY <1>0, <1>1, <1>2, <1>3, <2>1, <2>2, <2>3
<1>9. Begins(q, t, f)
  <2>1. CASE n > 0
    BY <1>0, <1>1, <1>2, <1>3, <2>1 DEF Flow, Begins
  <2>2. CASE n = 0
    BY <1>0, <1>1, <1>2, <1>3, <2>2 DEF Flow, Begins, Entire
  <2> QED
    BY <1>0, <1>1, <2>1, <2>2
<1>10. Entire(q, t, f)
  <2>1. n + Size(m) \in n + 1 .. n + Size(m) /\ n + Size(m) # 0
    BY <1>1, <1>2
  <2> QED
    BY <1>0, <1>1, <1>2, <1>3, <2>1 DEF Entire
<1> QED
  BY <1>0, <1>1, <1>3, <1>5, <1>7, <1>8, <1>9, <1>10 DEF Flow, t, q, n

\* The stream breaks: a first part of the pipe is left.
LEMMA FlowBreaks ==
  ASSUME NEW p, NEW s, NEW f, NEW w, Flow(p, s, f, w),
         NEW q \in Seq(Bytes), Len(q) <= Len(p),
         \A i \in 1 .. Len(q) : q[i] = p[i]
  PROVE  Flow(q, s, f, FALSE)
<1>1. Len(p) \in Nat /\ Len(q) \in Nat
  BY DEF Flow
<1>2. Genuine(q, s)
  BY <1>1 DEF Flow, Genuine
<1>3. GoesOn(q)
  <2> SUFFICES ASSUME NEW i \in 1 .. Len(q), NEW j \in 1 .. Len(q),
                      i <= j, q[i].at + (j - i) <= Size(q[i].msg)
               PROVE  q[j] = [msg |-> q[i].msg, at |-> q[i].at + (j - i)]
    BY DEF GoesOn
  <2>1. /\ i \in 1 .. Len(p) /\ j \in 1 .. Len(p)
        /\ q[i] = p[i] /\ q[j] = p[j]
    BY <1>1
  <2> QED
    BY <2>1 DEF Flow, GoesOn
<1>4. Follows(q, s)
  BY <1>1 DEF Flow, Follows
<1>5. Begins(q, s, f)
  BY <1>1 DEF Flow, Begins
<1> QED
  BY <1>2, <1>3, <1>4, <1>5 DEF Flow

\* b is x followed by y: an equation the provers do not rewrite with.
Splits(b, x, y) == b = x \o y

\* A frame at the front of a pipe, or anywhere in it: where a prefix is read,
\* the message of that prefix follows.
LEMMA FrameAtFront ==
  ASSUME NEW p, NEW s, NEW f, NEW w, Flow(p, s, f, w),
         NEW a \in Seq(Bytes), NEW b \in Seq(Bytes), NEW c \in Seq(Bytes),
         p = (a \o b) \o c, HasMessage(b)
  PROVE  /\ FirstMessage(b) \in Carried
         /\ FrameSize(b) = Size(FirstMessage(b))
         /\ Len(b) >= Size(FirstMessage(b))
         /\ Splits(b, Frame(FirstMessage(b)), Rest(b))
         /\ Rest(b) \in Seq(Bytes)
<1> DEFINE m == FirstMessage(b)
           n == Len(a)
<1>1. /\ HEADER \in Nat \ {0} /\ Len(b) \in Nat /\ Len(a) \in Nat
      /\ Len(c) \in Nat
  BY FramingAssumption
<1>2. /\ Len(b) >= HEADER /\ FrameSize(b) > 0 /\ Len(b) >= FrameSize(b)
  BY DEF HasMessage
<1>3. /\ FrameSize(b) = Size(m) /\ b[1] = [msg |-> m, at |-> 1]
  BY <1>1, <1>2 DEF FrameSize, Size, FirstMessage
<1>4. m \in Carried /\ b[1] \in Bytes
  <2>1. 1 \in 1 .. Len(b)
    BY <1>1, <1>2
  <2>2. b[1] \in Bytes
    BY <2>1, ElementOfSeq
  <2> QED
    BY <2>2 DEF FirstMessage, Bytes
<1>5. Size(m) \in Nat /\ Size(m) > 1 /\ Len(b) >= Size(m)
  BY <1>2, <1>3, <1>4, CarriedSize
<1>6. /\ Len(p) = n + Len(b) + Len(c) /\ p \in Seq(Bytes)
      /\ \A i \in 1 .. Len(b) : p[n + i] = b[i]
  <2>1. /\ a \o b \in Seq(Bytes) /\ Len(a \o b) = Len(a) + Len(b)
        /\ \A i \in 1 .. Len(a) + Len(b) :
             (a \o b)[i] = IF i <= Len(a) THEN a[i] ELSE b[i - Len(a)]
    BY ConcatProperties
  <2> DEFINE e == a \o b
  <2> HIDE DEF e
  <2>2. /\ e \in Seq(Bytes) /\ Len(e) = Len(a) + Len(b)
        /\ \A i \in 1 .. Len(a) + Len(b) :
             e[i] = IF i <= Len(a) THEN a[i] ELSE b[i - Len(a)]
    BY <2>1 DEF e
  <2>3. /\ e \o c \in Seq(Bytes) /\ Len(e \o c) = Len(e) + Len(c)
        /\ \A i \in 1 .. Len(e) + Len(c) :
             (e \o c)[i] = IF i <= Len(e) THEN e[i] ELSE c[i - Len(e)]
    <3>1. e \in Seq(Bytes)
      BY <2>2
    <3> QED
      BY <3>1, ConcatProperties
  <2>4. p = e \o c
    BY DEF e
  <2>5. ASSUME NEW i \in 1 .. Len(b) PROVE p[n + i] = b[i]
    <3>1. /\ n + i \in 1 .. Len(e) + Len(c) /\ n + i \in 1 .. Len(a) + Len(b)
          /\ n + i <= Len(e) /\ ~(n + i <= Len(a)) /\ (n + i) - Len(a) = i
      BY <1>1, <2>2
    <3> QED
      BY <2>2, <2>3, <2>4, <3>1
  <2> QED
    BY <1>1, <2>2, <2>3, <2>4, <2>5
<1> HIDE DEF m, n
<1>7. ASSUME NEW i \in 1 .. Size(m) PROVE b[i] = [msg |-> m, at |-> i]
  <2>1. /\ n \in Nat /\ n + 1 \in 1 .. Len(p) /\ n + i \in 1 .. Len(p)
        /\ i \in 1 .. Len(b) /\ 1 \in 1 .. Len(b)
    BY <1>1, <1>5, <1>6 DEF n
  <2>2. p[n + 1] = [msg |-> m, at |-> 1] /\ p[n + i] = b[i]
    BY <1>3, <1>6, <2>1
  <2>3. p[n + 1].msg = m /\ p[n + 1].at = 1
    BY <2>2
  <2>4. /\ n + 1 <= n + i /\ 1 + ((n + i) - (n + 1)) = i
        /\ 1 + ((n + i) - (n + 1)) <= Size(m)
    BY <1>5, <2>1
  <2>5. p[n + i] = [msg |-> m, at |-> 1 + ((n + i) - (n + 1))]
    BY <2>1, <2>3, <2>4 DEF Flow, GoesOn
  <2> QED
    BY <2>2, <2>4, <2>5
<1>8. /\ Frame(m) \in Seq(Bytes) /\ Len(Frame(m)) = Size(m)
      /\ \A i \in 1 .. Size(m) : Frame(m)[i] = b[i]
  BY <1>4, <1>7, FrameBytes
<1>9. Frame(m) = SubSeq(b, 1, Size(m))
  <2>1. /\ SubSeq(b, 1, Size(m)) \in Seq(Bytes)
        /\ Len(SubSeq(b, 1, Size(m))) = Size(m)
        /\ \A i \in 1 .. Size(m) : SubSeq(b, 1, Size(m))[i] = b[i]
    BY <1>1, <1>5
  <2> QED
    BY <1>8, <2>1, SeqEqual
<1>10. Rest(b) = SubSeq(b, Size(m) + 1, Len(b))
  BY <1>3 DEF Rest
<1>11. SubSeq(b, 1, Size(m)) \o SubSeq(b, Size(m) + 1, Len(b)) = b
  <2>1. /\ 1 \in 1 .. Len(b) + 1 /\ Size(m) \in 1 - 1 .. Len(b)
        /\ Len(b) \in Size(m) .. Len(b)
    BY <1>1, <1>5
  <2>2. SubSeq(b, 1, Size(m)) \o SubSeq(b, Size(m) + 1, Len(b))
          = SubSeq(b, 1, Len(b))
    BY <2>1, ConcatAdjacentSubSeq
  <2> QED
    BY <2>2, SubSeqFull
<1>12. Rest(b) \in Seq(Bytes)
  BY <1>1, <1>5, <1>10
<1> QED
  BY <1>3, <1>4, <1>5, <1>9, <1>10, <1>11, <1>12 DEF m, Splits

\* The first message is taken out.
LEMMA FlowTaken ==
  ASSUME NEW p, NEW s, NEW f, NEW w, Flow(p, s, f, w),
         NEW m \in Carried, NEW q \in Seq(Bytes), p = Frame(m) \o q
  PROVE  f <= Len(s) /\ m = Nth(s, f) /\ Flow(q, s, f + 1, w)
<1> DEFINE n == Size(m)
<1>1. /\ n \in Nat /\ n > 1 /\ Frame(m) \in Seq(Bytes) /\ Len(Frame(m)) = n
      /\ \A i \in 1 .. n : Frame(m)[i] = [msg |-> m, at |-> i]
  BY FrameBytes, CarriedSize
<1>2. /\ p \in Seq(Bytes) /\ Numbered(s) /\ f \in Nat /\ Len(s) \in Nat
      /\ Len(q) \in Nat
  BY DEF Flow, Numbered
<1>3. /\ Len(p) = n + Len(q)
      /\ \A i \in 1 .. n + Len(q) :
           p[i] = IF i <= n THEN Frame(m)[i] ELSE q[i - n]
  <2>1. /\ Len(p) = Len(Frame(m)) + Len(q)
        /\ \A i \in 1 .. Len(Frame(m)) + Len(q) :
             p[i] = IF i <= Len(Frame(m)) THEN Frame(m)[i]
                    ELSE q[i - Len(Frame(m))]
    BY <1>1, ConcatProperties
  <2> QED
    BY <1>1, <2>1
<1>4. n = Size(m)
  OBVIOUS
<1> HIDE DEF n
<1>5. ASSUME NEW i \in 1 .. Len(q)
      PROVE  p[n + i] = q[i] /\ n + i \in 1 .. Len(p)
  <2>1. n + i \in 1 .. n + Len(q) /\ ~(n + i <= n) /\ (n + i) - n = i
    BY <1>1, <1>2
  <2> QED
    BY <1>3, <2>1
<1>6. /\ p[1] = [msg |-> m, at |-> 1] /\ p[n] = [msg |-> m, at |-> n]
      /\ 1 \in 1 .. Len(p) /\ n \in 1 .. Len(p)
  <2>1. /\ 1 \in 1 .. n + Len(q) /\ n \in 1 .. n + Len(q)
        /\ 1 \in 1 .. n /\ n \in 1 .. n /\ 1 <= n /\ n <= n
    BY <1>1, <1>2
  <2> QED
    BY <1>1, <1>3, <2>1
<1>7. f <= Len(s) /\ m = Nth(s, f)
  <2>1. Len(p) > 0
    BY <1>1, <1>2, <1>3
  <2>2. f <= Len(s) /\ p[1] = [msg |-> Nth(s, f), at |-> 1]
    BY <2>1 DEF Flow, Begins
  <2> QED
    BY <1>6, <2>2
<1>8. m.id = f
  BY <1>2, <1>7, NthCarried
<1>9. Genuine(q, s)
  BY <1>5 DEF Flow, Genuine
<1>10. GoesOn(q)
  <2> SUFFICES ASSUME NEW i \in 1 .. Len(q), NEW j \in 1 .. Len(q),
                      i <= j, q[i].at + (j - i) <= Size(q[i].msg)
               PROVE  q[j] = [msg |-> q[i].msg, at |-> q[i].at + (j - i)]
    BY DEF GoesOn
  <2>1. /\ n + i \in 1 .. Len(p) /\ n + j \in 1 .. Len(p)
        /\ q[i] = p[n + i] /\ q[j] = p[n + j]
    BY <1>5
  <2>2. n + i <= n + j /\ (n + j) - (n + i) = j - i
    BY <1>1, <1>2
  <2> QED
    BY <2>1, <2>2 DEF Flow, GoesOn
<1>11. Follows(q, s)
  <2> SUFFICES ASSUME NEW i \in 1 .. Len(q), i < Len(q),
                      q[i].at = Size(q[i].msg)
               PROVE  /\ q[i].msg.id < Len(s)
                      /\ q[i + 1] = [msg |-> Nth(s, q[i].msg.id + 1), at |-> 1]
    BY DEF Follows
  <2>1. i + 1 \in 1 .. Len(q) /\ n + i < Len(p) /\ (n + i) + 1 = n + (i + 1)
    BY <1>1, <1>2, <1>3
  <2>2. q[i] = p[n + i] /\ q[i + 1] = p[n + (i + 1)] /\ n + i \in 1 .. Len(p)
    BY <1>5, <2>1
  <2> QED
    BY <2>1, <2>2 DEF Flow, Follows
<1>12. Begins(q, s, f + 1)
  <2> SUFFICES ASSUME Len(q) > 0
               PROVE  /\ f + 1 <= Len(s)
                      /\ q[1] = [msg |-> Nth(s, f + 1), at |-> 1]
    BY DEF Begins
  <2>1. n < Len(p) /\ 1 \in 1 .. Len(q)
    BY <1>1, <1>2, <1>3
  <2>2. p[n].msg = m /\ p[n].at = Size(m)
    BY <1>4, <1>6
  <2>3. m.id < Len(s) /\ p[n + 1] = [msg |-> Nth(s, m.id + 1), at |-> 1]
    BY <1>6, <2>1, <2>2 DEF Flow, Follows
  <2> QED
    BY <1>2, <1>5, <1>8, <2>1, <2>3
<1>13. ASSUME w PROVE Entire(q, s, f + 1)
  <2>1. Len(p) # 0
    BY <1>1, <1>2, <1>3
  <2>2. p[Len(p)].msg.id = Len(s) /\ p[Len(p)].at = Size(p[Len(p)].msg)
    BY <1>13, <2>1 DEF Flow, Entire
  <2>3. CASE Len(q) = 0
    <3>1. Len(p) = n
      BY <1>1, <1>3, <2>3
    <3>2. m.id = Len(s)
      BY <1>6, <2>2, <3>1
    <3> QED
      BY <1>8, <2>3, <3>2 DEF Entire
  <2>4. CASE Len(q) # 0
    <3>1. Len(q) \in 1 .. Len(q)
      BY <1>2, <2>4
    <3>2. p[Len(p)] = q[Len(q)]
      BY <1>3, <1>5, <3>1
    <3> QED
      BY <2>2, <2>4, <3>2 DEF Entire
  <2> QED
    BY <2>3, <2>4
<1> QED
  BY <1>2, <1>7, <1>9, <1>10, <1>11, <1>12, <1>13 DEF Flow

\* The gate token is put in front.
LEMMA FlowWithToken ==
  ASSUME NEW p, NEW s, Flow(p, s, 1, TRUE)
  PROVE  Flow(Frame(Token) \o p, s, 0, TRUE)
<1> DEFINE n == Size(Token)
           q == Frame(Token) \o p
<1>1. /\ n \in Nat /\ n > 1 /\ Token \in Carried /\ Token.id = 0
      /\ Frame(Token) \in Seq(Bytes) /\ Len(Frame(Token)) = n
      /\ \A i \in 1 .. n : Frame(Token)[i] = [msg |-> Token, at |-> i]
  BY FrameBytes, CarriedSize DEF Carried
<1>2. /\ p \in Seq(Bytes) /\ Numbered(s) /\ Len(s) \in Nat /\ Len(p) \in Nat
  BY DEF Flow, Numbered
<1>3. /\ q \in Seq(Bytes) /\ Len(q) = n + Len(p)
      /\ \A i \in 1 .. n + Len(p) :
           q[i] = IF i <= n THEN Frame(Token)[i] ELSE p[i - n]
  <2>1. /\ q \in Seq(Bytes) /\ Len(q) = Len(Frame(Token)) + Len(p)
        /\ \A i \in 1 .. Len(Frame(Token)) + Len(p) :
             q[i] = IF i <= Len(Frame(Token)) THEN Frame(Token)[i]
                    ELSE p[i - Len(Frame(Token))]
    BY <1>1, <1>2, ConcatProperties
  <2> QED
    BY <1>1, <2>1
<1>4. n = Size(Token)
  OBVIOUS
<1> HIDE DEF n, q
<1>5. ASSUME NEW i \in 1 .. n
      PROVE  q[i] = [msg |-> Token, at |-> i] /\ q[i].msg = Token /\ q[i].at = i
  <2>1. i \in 1 .. n + Len(p) /\ i <= n
    BY <1>1, <1>2
  <2> QED
    BY <1>1, <1>3, <2>1
<1>6. ASSUME NEW i \in n + 1 .. n + Len(p)
      PROVE  q[i] = p[i - n] /\ i - n \in 1 .. Len(p)
  <2>1. i \in 1 .. n + Len(p) /\ ~(i <= n)
    BY <1>1, <1>2
  <2> QED
    BY <1>1, <1>2, <1>3, <2>1
<1>7. \A i \in 1 .. Len(q) : i \in 1 .. n \/ i \in n + 1 .. n + Len(p)
  BY <1>1, <1>2, <1>3
<1>8. Nth(s, 0) = Token
  BY DEF Nth
<1>9. Genuine(q, s)
  <2> SUFFICES ASSUME NEW i \in 1 .. Len(q)
               PROVE  /\ q[i].msg.id \in 0 .. Len(s)
                      /\ q[i].msg = Nth(s, q[i].msg.id)
                      /\ q[i].at \in 1 .. Size(q[i].msg)
    BY DEF Genuine
  <2>1. CASE i \in 1 .. n
    BY <1>1, <1>2, <1>4, <1>5, <1>8, <2>1
  <2>2. CASE i \in n + 1 .. n + Len(p)
    BY <1>6, <2>2 DEF Flow, Genuine
  <2> QED
    BY <1>7, <2>1, <2>2
<1>10. \A i \in 1 .. Len(p) : /\ p[i].at \in Nat /\ Size(p[i].msg) \in Nat
  BY <1>2, NthCarried, CarriedSize DEF Flow, Genuine
<1>11. GoesOn(q)
  <2> SUFFICES ASSUME NEW i \in 1 .. Len(q), NEW j \in 1 .. Len(q),
                      i <= j, q[i].at + (j - i) <= Size(q[i].msg)
               PROVE  q[j] = [msg |-> q[i].msg, at |-> q[i].at + (j - i)]
    BY DEF GoesOn
  <2>1. CASE i \in 1 .. n
    <3>1. q[i].msg = Token /\ q[i].at = i
      BY <1>5, <2>1
    <3>2. i + (j - i) = j /\ j \in 1 .. n
      BY <1>1, <1>3, <1>4, <2>1, <3>1
    <3> QED
      BY <1>5, <3>1, <3>2
  <2>2. CASE i \in n + 1 .. n + Len(p)
    <3>1. j \in n + 1 .. n + Len(p)
      BY <1>1, <1>2, <1>3, <2>2
    <3>2. /\ q[i] = p[i - n] /\ i - n \in 1 .. Len(p)
          /\ q[j] = p[j - n] /\ j - n \in 1 .. Len(p)
      BY <1>6, <2>2, <3>1
    <3>3. i - n <= j - n /\ (j - n) - (i - n) = j - i
      BY <1>1, <2>2, <3>1
    <3> QED
      BY <3>2, <3>3 DEF Flow, GoesOn
  <2> QED
    BY <1>7, <2>1, <2>2
<1>12. Follows(q, s)
  <2> SUFFICES ASSUME NEW i \in 1 .. Len(q), i < Len(q),
                      q[i].at = Size(q[i].msg)
               PROVE  /\ q[i].msg.id < Len(s)
                      /\ q[i + 1] = [msg |-> Nth(s, q[i].msg.id + 1), at |-> 1]
    BY DEF Follows
  <2>1. CASE i \in 1 .. n
    <3>1. i = n /\ q[i].msg.id = 0
      BY <1>1, <1>4, <1>5, <2>1
    <3>2. i + 1 \in n + 1 .. n + Len(p) /\ (i + 1) - n = 1 /\ Len(p) > 0
      BY <1>1, <1>2, <1>3, <3>1
    <3>3. q[i + 1] = p[1]
      BY <1>6, <3>2
    <3>4. 1 <= Len(s) /\ p[1] = [msg |-> Nth(s, 1), at |-> 1]
      BY <3>2 DEF Flow, Begins
    <3> QED
      BY <1>2, <3>1, <3>3, <3>4
  <2>2. CASE i \in n + 1 .. n + Len(p)
    <3>1. /\ i + 1 \in n + 1 .. n + Len(p) /\ (i + 1) - n = (i - n) + 1
          /\ i - n < Len(p)
      BY <1>1, <1>2, <1>3, <2>2
    <3>2. /\ q[i] = p[i - n] /\ i - n \in 1 .. Len(p)
          /\ q[i + 1] = p[(i + 1) - n]
      BY <1>6, <2>2, <3>1
    <3> QED
      BY <3>1, <3>2 DEF Flow, Follows
  <2> QED
    BY <1>7, <2>1, <2>2
<1>13. Begins(q, s, 0)
  <2>1. 1 \in 1 .. n
    BY <1>1
  <2> QED
    BY <1>2, <1>5, <1>8, <2>1 DEF Begins
<1>14. Entire(q, s, 0)
  <2>1. CASE Len(p) = 0
    <3>1. Len(s) = 0
      BY <1>2, <2>1 DEF Flow, Entire
    <3>2. Len(q) = n /\ n \in 1 .. n /\ Len(q) # 0
      BY <1>1, <1>3, <2>1
    <3> QED
      BY <1>1, <1>4, <1>5, <3>1, <3>2 DEF Entire
  <2>2. CASE Len(p) # 0
    <3>1. /\ Len(q) \in n + 1 .. n + Len(p) /\ Len(q) - n = Len(p)
          /\ Len(q) # 0
      BY <1>1, <1>2, <1>3, <2>2
    <3>2. q[Len(q)] = p[Len(p)]
      BY <1>6, <3>1
    <3> QED
      BY <2>2, <3>1, <3>2 DEF Flow, Entire
  <2> QED
    BY <2>1, <2>2
<1> QED
  BY <1>2, <1>3, <1>9, <1>11, <1>12, <1>13, <1>14 DEF Flow, q

\* A reader that is at the front of the pipe never meets a garbled prefix, and
\* when nothing comes any more and nothing was cut off it has read everything.
LEMMA FlowEnds ==
  ASSUME NEW p, NEW s, NEW f, NEW w, Flow(p, s, f, w),
         NEW b \in Seq(Bytes), NEW c \in Seq(Bytes), p = b \o c
  PROVE  /\ ~Garbled(b)
         /\ w /\ c = <<>> /\ ~HasMessage(b) => Len(b) = 0 /\ f = Len(s) + 1
<1>1. /\ HEADER \in Nat \ {0} /\ Len(b) \in Nat /\ Len(c) \in Nat
      /\ Len(s) \in Nat /\ f \in Nat
  BY FramingAssumption DEF Flow, Numbered
<1>2. /\ Len(p) = Len(b) + Len(c) /\ p \in Seq(Bytes)
      /\ \A i \in 1 .. Len(b) : p[i] = b[i] /\ i \in 1 .. Len(p)
  <2>1. /\ b \o c \in Seq(Bytes) /\ Len(b \o c) = Len(b) + Len(c)
        /\ \A i \in 1 .. Len(b) + Len(c) :
             (b \o c)[i] = IF i <= Len(b) THEN b[i] ELSE c[i - Len(b)]
    BY ConcatProperties
  <2> QED
    BY <1>1, <2>1
<1> DEFINE m == b[1].msg
<1>3. ASSUME Len(b) > 0
      PROVE  /\ m \in Carried /\ Size(m) \in Nat /\ Size(m) > HEADER
             /\ f <= Len(s) /\ m = Nth(s, f) /\ 1 \in 1 .. Len(b)
             /\ \A i \in 1 .. Len(b) :
                  i <= Size(m) => b[i] = [msg |-> m, at |-> i]
  <2>1. 1 \in 1 .. Len(b) /\ Len(p) > 0
    BY <1>1, <1>2, <1>3
  <2>2. f <= Len(s) /\ p[1] = [msg |-> Nth(s, f), at |-> 1] /\ p[1] = b[1]
    BY <1>2, <2>1 DEF Flow, Begins
  <2>3. m = Nth(s, f) /\ m \in Carried /\ p[1].msg = m /\ p[1].at = 1
    <3>1. f \in 0 .. Len(s) /\ Numbered(s)
      BY <1>1, <2>2 DEF Flow
    <3>2. Nth(s, f) \in Carried
      BY <3>1, NthCarried
    <3>3. b[1] = [msg |-> Nth(s, f), at |-> 1]
      BY <2>2
    <3>4. b[1].msg = Nth(s, f) /\ b[1].at = 1
      BY <3>3
    <3> QED
      BY <2>2, <3>2, <3>4
  <2>4. Size(m) \in Nat /\ Size(m) > HEADER
    BY <2>3, CarriedSize
  <2> HIDE DEF m
  <2>5. ASSUME NEW i \in 1 .. Len(b), i <= Size(m)
        PROVE  b[i] = [msg |-> m, at |-> i]
    <3>1. /\ 1 \in 1 .. Len(p) /\ i \in 1 .. Len(p) /\ p[i] = b[i]
      BY <1>2, <2>1
    <3>2. 1 <= i /\ 1 + (i - 1) = i /\ 1 + (i - 1) <= Size(m)
      BY <1>1, <2>4, <2>5
    <3>3. p[i] = [msg |-> m, at |-> 1 + (i - 1)]
      BY <2>3, <3>1, <3>2 DEF Flow, GoesOn
    <3> QED
      BY <3>1, <3>2, <3>3
  <2> QED
    BY <2>1, <2>2, <2>3, <2>4, <2>5
<1>4. Len(b) >= HEADER => FrameSize(b) = Size(m)
  <2> SUFFICES ASSUME Len(b) >= HEADER PROVE FrameSize(b) = Size(m)
    OBVIOUS
  <2>1. \A i \in 1 .. HEADER : b[i] = [msg |-> m, at |-> i]
    BY <1>1, <1>3
  <2> QED
    BY <2>1 DEF FrameSize, Size
<1>5. ~Garbled(b)
  BY <1>1, <1>3, <1>4 DEF Garbled
<1>6. ASSUME w, c = <<>>, ~HasMessage(b), Len(b) > 0
      PROVE  FALSE
  <2> HIDE DEF m
  <2>1. Len(b) < Size(m)
    BY <1>1, <1>3, <1>4, <1>6 DEF HasMessage
  <2>2. Len(p) = Len(b) /\ Len(b) \in 1 .. Len(b) /\ Len(p) # 0
    BY <1>1, <1>2, <1>6
  <2>3. p[Len(p)] = [msg |-> m, at |-> Len(b)]
    BY <1>2, <1>3, <1>6, <2>1, <2>2
  <2>4. p[Len(p)].at = Size(p[Len(p)].msg)
    BY <1>6, <2>2 DEF Flow, Entire
  <2> QED
    BY <2>1, <2>3, <2>4, <1>1, <1>3, <1>6
<1>7. ASSUME w, c = <<>>, Len(b) = 0 PROVE f = Len(s) + 1
  BY <1>1, <1>2, <1>7 DEF Flow, Entire
<1> QED
  BY <1>1, <1>5, <1>6, <1>7
-----------------------------------------------------------------------------
(* Moving bytes within a pipe                                              *)

\* Putting parts together gives bytes, and an empty part adds nothing.
LEMMA Joined ==
  ASSUME NEW a \in Seq(Bytes), NEW b \in Seq(Bytes)
  PROVE  a \o b \in Seq(Bytes) /\ a \o <<>> = a /\ <<>> \o a = a
         /\ <<>> \in Seq(Bytes)
  BY ConcatProperties, ConcatEmptySeq

\* The same bytes: an equation the provers do not rewrite with.
Same(p, q) == p = q

\* It does not matter which parts are put together first.
LEMMA Regroup ==
  ASSUME NEW a \in Seq(Bytes), NEW b \in Seq(Bytes), NEW c \in Seq(Bytes)
  PROVE  Same((a \o b) \o c, a \o (b \o c))
  BY ConcatAssociative DEF Same

\* A chunk is read.
LEMMA ChunkMoves ==
  ASSUME NEW b \in Seq(Bytes), NEW d \in Seq(Bytes), NEW n \in 1 .. Len(d)
  PROVE  /\ SubSeq(d, 1, n) \in Seq(Bytes)
         /\ SubSeq(d, n + 1, Len(d)) \in Seq(Bytes)
         /\ b \o SubSeq(d, 1, n) \in Seq(Bytes)
         /\ (b \o SubSeq(d, 1, n)) \o SubSeq(d, n + 1, Len(d)) = b \o d
<1> DEFINE x == SubSeq(d, 1, n)
           y == SubSeq(d, n + 1, Len(d))
<1>1. Len(d) \in Nat /\ n \in Nat
  OBVIOUS
<1>2. x \in Seq(Bytes) /\ y \in Seq(Bytes)
  BY <1>1
<1>3. x \o y = d
  <2>1. 1 \in 1 .. Len(d) + 1 /\ n \in 1 - 1 .. Len(d) /\ Len(d) \in n .. Len(d)
    BY <1>1
  <2>2. x \o y = SubSeq(d, 1, Len(d))
    BY <2>1, ConcatAdjacentSubSeq
  <2> QED
    BY <2>2, SubSeqFull
<1> HIDE DEF x, y
<1>4. Same((b \o x) \o y, b \o (x \o y))
  BY <1>2, Regroup
<1>5. b \o x \in Seq(Bytes)
  BY <1>2, Joined
<1> QED
  BY <1>2, <1>3, <1>4, <1>5 DEF x, y, Same

\* What is at the head of the back part goes to the end of the front part.
LEMMA HeadMoves ==
  ASSUME NEW a \in Seq(Bytes), NEW u \in Seq(Bytes), NEW x \in Seq(Bytes),
         NEW y \in Seq(Bytes), NEW t \in Seq(Bytes)
  PROVE  Same((a \o (u \o x)) \o (y \o t), (a \o u) \o ((x \o y) \o t))
<1>1. /\ Same((a \o u) \o x, a \o (u \o x))
      /\ Same((x \o y) \o t, x \o (y \o t))
  BY Regroup
<1>2. a \o u \in Seq(Bytes) /\ y \o t \in Seq(Bytes)
  BY Joined
<1> DEFINE au == a \o u
           yt == y \o t
<1>3. au \in Seq(Bytes) /\ yt \in Seq(Bytes)
  BY <1>2
<1> HIDE DEF au, yt
<1>4. Same((au \o x) \o yt, au \o (x \o yt))
  BY <1>3, Regroup
<1> QED
  BY <1>1, <1>4 DEF Same, au, yt

\* A frame leaves a buffer whole.
LEMMA TakenTyped ==
  ASSUME NEW b \in Seq(Bytes), HasMessage(b)
  PROVE  /\ FirstMessage(b) \in Carried
         /\ Frame(FirstMessage(b)) \in Seq(Bytes)
         /\ Rest(b) \in Seq(Bytes)
<1>1. /\ HEADER \in Nat \ {0} /\ Len(b) \in Nat
  BY FramingAssumption
<1>2. /\ Len(b) >= HEADER /\ FrameSize(b) > 0 /\ Len(b) >= FrameSize(b)
  BY DEF HasMessage
<1>3. FirstMessage(b) \in Carried
  <2>1. 1 \in 1 .. Len(b)
    BY <1>1, <1>2
  <2>2. b[1] \in Bytes
    BY <2>1, ElementOfSeq
  <2> QED
    BY <2>2 DEF FirstMessage, Bytes
<1>4. FrameSize(b) = Size(FirstMessage(b)) \/ FrameSize(b) = 0
  BY DEF FrameSize, Size, FirstMessage
<1>5. FrameSize(b) \in Nat
  BY <1>3, <1>4, CarriedSize
<1>6. Rest(b) \in Seq(Bytes)
  BY <1>1, <1>2, <1>5 DEF Rest
<1> QED
  BY <1>3, <1>6, FrameBytes

\* What the BufWriter holds and what it has passed on are what was written.
LEMMA WrittenKeeps ==
  ASSUME NEW g \in Seq(Bytes), NEW h \in Seq(Bytes), NEW x \in Seq(Bytes),
         NEW w, w = [gone |-> g, held |-> h]
  PROVE  /\ Written(w, x) \in [gone : Seq(Bytes), held : Seq(Bytes)]
         /\ Same(Written(w, x).gone \o Written(w, x).held, g \o (h \o x))
<1>1. /\ g \o h \in Seq(Bytes) /\ h \o x \in Seq(Bytes)
      /\ (g \o h) \o x = g \o (h \o x) /\ (g \o h) \o x \in Seq(Bytes)
      /\ ((g \o h) \o x) \o <<>> = (g \o h) \o x /\ <<>> \in Seq(Bytes)
  <2>1. g \o h \in Seq(Bytes)
    BY Joined
  <2>2. h \o x \in Seq(Bytes) /\ <<>> \in Seq(Bytes)
    BY Joined
  <2>3. Same((g \o h) \o x, g \o (h \o x))
    BY Regroup
  <2> DEFINE e == g \o h
  <2> HIDE DEF e
  <2>4. e \in Seq(Bytes)
    BY <2>1 DEF e
  <2>5. e \o x \in Seq(Bytes)
    BY <2>4, Joined
  <2> DEFINE c == e \o x
  <2> HIDE DEF c
  <2>6. c \in Seq(Bytes) /\ c \o <<>> = c
    BY <2>5, Joined DEF c
  <2> QED
    BY <2>1, <2>2, <2>3, <2>6 DEF e, c, Same
<1>2. w.gone = g /\ w.held = h
  OBVIOUS
<1>3. \/ Written(w, x) = [gone |-> (g \o h) \o x, held |-> <<>>]
      \/ Written(w, x) = [gone |-> g \o h, held |-> x]
      \/ Written(w, x) = [w EXCEPT !.held = h \o x]
  BY <1>2 DEF Written
<1>4. \A k : [w EXCEPT !.held = k] = [gone |-> g, held |-> k]
  OBVIOUS
<1> DEFINE v == Written(w, x)
<1> SUFFICES /\ v \in [gone : Seq(Bytes), held : Seq(Bytes)]
             /\ v.gone \o v.held = g \o (h \o x)
  BY DEF Same
<1>5. \/ v = [gone |-> (g \o h) \o x, held |-> <<>>]
      \/ v = [gone |-> g \o h, held |-> x]
      \/ v = [w EXCEPT !.held = h \o x]
  BY <1>3
<1> HIDE DEF v
<1>6. CASE v = [gone |-> (g \o h) \o x, held |-> <<>>]
  BY <1>1, <1>6
<1>7. CASE v = [gone |-> g \o h, held |-> x]
  BY <1>1, <1>7
<1>8. CASE v = [w EXCEPT !.held = h \o x]
  <2>1. v = [gone |-> g, held |-> h \o x]
    BY <1>4, <1>8
  <2> QED
    BY <1>1, <2>1
<1> QED
  BY <1>5, <1>6, <1>7, <1>8

\* A stream breaks.
LEMMA FlowCut ==
  ASSUME NEW p, NEW s, NEW f, NEW w, Flow(p, s, f, w),
         NEW q \in Seq(Bytes), NEW r \in Seq(Bytes), p = q \o r
  PROVE  Flow(q, s, f, FALSE)
<1>1. /\ Len(p) = Len(q) + Len(r) /\ Len(q) \in Nat /\ Len(r) \in Nat
      /\ \A i \in 1 .. Len(q) + Len(r) :
           p[i] = IF i <= Len(q) THEN q[i] ELSE r[i - Len(q)]
  BY ConcatProperties
<1>2. Len(q) <= Len(p) /\ \A i \in 1 .. Len(q) : q[i] = p[i]
  BY <1>1
<1> QED
  BY <1>2, FlowBreaks

\* Less is claimed of the end.
LEMMA FlowWeaker ==
  ASSUME NEW p, NEW s, NEW f, NEW w, Flow(p, s, f, w), NEW v, v => w
  PROVE  Flow(p, s, f, v)
  BY DEF Flow

-----------------------------------------------------------------------------
(* The invariant                                                           *)

\* The byte channels.
Chans == {"upload", "download", "queue", "stdin", "stdout"}

\* The buffers of readers and writers.
Buffers == {"server", "client", "batch", "local", "bridge", "output"}

\* What a channel may be.
Channels == [data : Seq(Bytes), over : {"no", "end", "error"}]

\* Every variable has its type.
Typed ==
  /\ kind \in {"h2", "h3"}
  /\ sent \in [Dirs -> Seq(Messages)]
  /\ received \in [Dirs -> Seq(Messages)]
  /\ chan \in [Chans -> Channels]
  /\ buf \in [Buffers -> Seq(Bytes)]
  /\ status \in [client : {"up", "closed", "failed", "left"},
                 bridge : {"none", "connecting", "up", "gone"},
                 server : {"none", "gate", "up", "closed", "failed", "left"}]

\* The pipe of a direction: what the reader has not taken out yet, back to the
\* first channel that is over.
UpPipe(k, ch, b) ==
  (b["server"] \o ch["upload"].data) \o
     (IF k = "h3" /\ ch["upload"].over = "no"
      THEN b["local"] \o ch["stdin"].data ELSE <<>>)

\* HTTP/2 has the batch task in it, HTTP/3 the bridge.
DownPipe(k, ch, b) ==
  IF k = "h2"
  THEN (b["client"] \o ch["download"].data) \o
          (IF ch["download"].over = "no"
           THEN b["batch"] \o ch["queue"].data ELSE <<>>)
  ELSE (b["client"] \o ch["stdout"].data) \o
          (IF ch["stdout"].over = "no"
           THEN b["output"] \o (b["bridge"] \o ch["download"].data) ELSE <<>>)

\* Nothing has been cut off.
UpWhole(k, ch) ==
  IF k = "h2" THEN ch["upload"].over # "error" ELSE ch["upload"].over = "no"

\* An HTTP/3 download goes through the bridge: both channels count.
DownWhole(k, ch) ==
  IF k = "h2" THEN ch["download"].over # "error"
  ELSE ch["stdout"].over = "no" /\ ch["download"].over = "no"

\* The message the server reads next.
UpFirst(st, rc) == IF st.server = "gate" THEN 0 ELSE Len(rc["up"]) + 1

\* As long as the server reads, its pipe is a flow.
UpFlows ==
  Fate("up") = "open" =>
    Flow(UpPipe(kind, chan, buf), sent["up"], UpFirst(status, received),
         UpWhole(kind, chan))

\* As long as the client reads, its pipe is a flow.
DownFlows ==
  Fate("down") = "open" =>
    Flow(DownPipe(kind, chan, buf), sent["down"], Len(received["down"]) + 1,
         DownWhole(kind, chan))

\* What has been received is the beginning of what has been sent.
InOrder(rc, s) ==
  Len(rc) <= Len(s) /\ \A i \in 1 .. Len(rc) : rc[i] = s[i]

\* Who can be where, and when a writer has finished.
Sides ==
  /\ kind = "h2" => /\ status.bridge = "none"
                    /\ status.server \notin {"none", "gate"}
  /\ kind = "h3" => /\ chan["queue"].data = <<>> /\ buf["batch"] = <<>>
                    /\ status.bridge # "none"
  /\ status.bridge = "connecting" =>
       /\ status.server = "none" /\ buf["server"] = <<>>
       /\ chan["upload"].data = <<>> /\ chan["upload"].over = "no"
  /\ status.bridge = "up" => status.server # "none"
  /\ status.server \in {"none", "gate"} => received["up"] = <<>>
  /\ kind = "h2" /\ status.server = "closed" => chan["upload"].over # "no"
  /\ kind = "h2" /\ chan["download"].over = "end" => chan["queue"].over # "no"
  /\ status.client = "closed" => kind = "h2" /\ chan["queue"].over # "no"

\* What holds of the upward direction.
UpInv == InOrder(received["up"], sent["up"]) /\ UpFlows

\* What holds of the downward direction.
DownInv == InOrder(received["down"], sent["down"]) /\ DownFlows

\* The inductive invariant.
FramingInv == Typed /\ Sides /\ UpInv /\ DownInv

\* A step of the abstract channel upwards, or none.
UpStep ==
  [Upward!Send \/ Upward!Receive \/ Upward!Finish]_(Upward!vars)

\* A step of the abstract channel downwards, or none.
DownStep ==
  [Downward!Send \/ Downward!Receive \/ Downward!Finish]_(Downward!vars)

\* The invariant holds initially.
LEMMA InitFlows == Init => FramingInv
<1> SUFFICES ASSUME Init PROVE FramingInv
  OBVIOUS
<1>1. <<>> \in Seq(Bytes) /\ <<>> \in Seq(Messages) /\ Len(<<>>) = 0
  OBVIOUS
<1>2. Typed
  <2>1. chan \in [Chans -> Channels]
    BY <1>1 DEF Init, Chans, Channels
  <2>2. buf \in [Buffers -> Seq(Bytes)]
    BY <1>1 DEF Init, Buffers
  <2>3. status \in [client : {"up", "closed", "failed", "left"},
                 bridge : {"none", "connecting", "up", "gone"},
                 server : {"none", "gate", "up", "closed", "failed", "left"}]
    BY DEF Init
  <2> QED
    BY <1>1, <2>1, <2>2, <2>3 DEF Init, Typed
<1>3. /\ \A c \in Chans : chan[c].data = <<>> /\ chan[c].over = "no"
      /\ \A b \in Buffers : buf[b] = <<>>
      /\ \A d \in Dirs : sent[d] = <<>> /\ received[d] = <<>>
  BY DEF Init, Chans, Buffers
<1>4. <<>> \o <<>> = <<>>
  BY <1>1, Joined
<1>5. UpPipe(kind, chan, buf) = <<>> /\ DownPipe(kind, chan, buf) = <<>>
  BY <1>3, <1>4 DEF UpPipe, DownPipe, Chans, Buffers
<1>6. UpFirst(status, received) = 1 /\ status.client = "up"
  BY <1>1, <1>3 DEF Init, UpFirst, Dirs
<1>7. \A w : Flow(<<>>, <<>>, 1, w)
  BY <1>1 DEF Flow, Numbered, Genuine, GoesOn, Follows, Begins, Entire
<1>8. Sides
  BY <1>3 DEF Init, Sides, Chans, Buffers, Dirs
<1>9. UpInv /\ DownInv
  BY <1>1, <1>3, <1>5, <1>6, <1>7
  DEF UpInv, DownInv, UpFlows, DownFlows, InOrder, Dirs
<1> QED
  BY <1>2, <1>8, <1>9 DEF FramingInv

-----------------------------------------------------------------------------
(* Steps of a direction                                                    *)

\* What the parts of the state are.
LEMMA Parts ==
  ASSUME Typed
  PROVE  /\ \A b \in Buffers : buf[b] \in Seq(Bytes)
         /\ \A c \in Chans : /\ chan[c] \in Channels
                             /\ chan[c].data \in Seq(Bytes)
                             /\ chan[c].over \in {"no", "end", "error"}
         /\ \A d \in Dirs : /\ sent[d] \in Seq(Messages)
                            /\ received[d] \in Seq(Messages)
                            /\ Len(sent[d]) \in Nat /\ Len(received[d]) \in Nat
         /\ Chans = {"upload", "download", "queue", "stdin", "stdout"}
         /\ Buffers = {"server", "client", "batch", "local", "bridge", "output"}
         /\ Dirs = {"up", "down"}
<1>1. /\ \A c \in Chans : chan[c] \in Channels
  BY DEF Typed
<1>2. \A d \in Dirs : /\ sent[d] \in Seq(Messages)
                     /\ received[d] \in Seq(Messages)
  BY DEF Typed
<1>3. \A b \in Buffers : buf[b] \in Seq(Bytes)
  BY DEF Typed
<1>4. \A c \in Chans : /\ chan[c].data \in Seq(Bytes)
                        /\ chan[c].over \in {"no", "end", "error"}
  BY <1>1 DEF Channels
<1>5. \A s \in Seq(Messages) : Len(s) \in Nat
  OBVIOUS
<1>6. /\ Chans = {"upload", "download", "queue", "stdin", "stdout"}
      /\ Buffers = {"server", "client", "batch", "local", "bridge", "output"}
      /\ Dirs = {"up", "down"}
  BY DEF Chans, Buffers, Dirs
<1> QED
  BY <1>1, <1>2, <1>3, <1>4, <1>5, <1>6

\* The pipes hold bytes.
LEMMA PipesTyped ==
  ASSUME Typed
  PROVE  /\ UpPipe(kind, chan, buf) \in Seq(Bytes)
         /\ DownPipe(kind, chan, buf) \in Seq(Bytes)
<1>1. \A a, b \in Seq(Bytes) : a \o b \in Seq(Bytes) /\ <<>> \in Seq(Bytes)
  BY Joined
<1>2. /\ \A b \in Buffers : buf[b] \in Seq(Bytes)
      /\ \A c \in Chans : chan[c].data \in Seq(Bytes)
  BY Parts
<1> QED
  BY <1>1, <1>2 DEF UpPipe, DownPipe, Chans, Buffers

\* The pipe stays as it is.
LEMMA UpKept ==
  ASSUME UpInv, sent'["up"] = sent["up"], received'["up"] = received["up"],
         UpFirst(status', received') = UpFirst(status, received),
         Fate("up")' = Fate("up"),
         Fate("up") = "open" =>
           /\ UpPipe(kind', chan', buf') = UpPipe(kind, chan, buf)
           /\ UpWhole(kind', chan') => UpWhole(kind, chan)
  PROVE  UpInv' /\ UpStep
<1>1. UpFlows'
  BY FlowWeaker DEF UpInv, UpFlows
<1> QED
  BY <1>1 DEF UpInv, UpStep, Upward!vars

\* The same for the other direction.
LEMMA DownKept ==
  ASSUME DownInv, sent'["down"] = sent["down"],
         received'["down"] = received["down"],
         Fate("down")' = Fate("down"),
         Fate("down") = "open" =>
           /\ DownPipe(kind', chan', buf') = DownPipe(kind, chan, buf)
           /\ DownWhole(kind', chan') => DownWhole(kind, chan)
  PROVE  DownInv' /\ DownStep
<1>1. DownFlows'
  BY FlowWeaker DEF DownInv, DownFlows
<1> QED
  BY <1>1 DEF DownInv, DownStep, Downward!vars

\* Nothing of the direction is touched.
LEMMA UpIdle ==
  ASSUME UpInv, kind' = kind, sent'["up"] = sent["up"],
         received'["up"] = received["up"], status'.server = status.server,
         Fate("up")' = Fate("up"),
         buf'["server"] = buf["server"], buf'["local"] = buf["local"],
         chan'["upload"] = chan["upload"], chan'["stdin"] = chan["stdin"]
  PROVE  UpInv' /\ UpStep
<1>1. /\ UpPipe(kind', chan', buf') = UpPipe(kind, chan, buf)
      /\ UpFirst(status', received') = UpFirst(status, received)
  BY DEF UpPipe, UpFirst
<1>2. UpWhole(kind', chan') => UpWhole(kind, chan)
  BY DEF UpWhole
<1> QED
  BY <1>1, <1>2, UpKept

\* The same for the other direction.
LEMMA DownIdle ==
  ASSUME DownInv, kind' = kind, sent'["down"] = sent["down"],
         received'["down"] = received["down"], status'.client = status.client,
         buf'["client"] = buf["client"], buf'["output"] = buf["output"],
         buf'["bridge"] = buf["bridge"], buf'["batch"] = buf["batch"],
         chan'["download"] = chan["download"], chan'["queue"] = chan["queue"],
         chan'["stdout"] = chan["stdout"]
  PROVE  DownInv' /\ DownStep
<1>1. DownPipe(kind', chan', buf') = DownPipe(kind, chan, buf)
  BY DEF DownPipe
<1>2. DownWhole(kind', chan') => DownWhole(kind, chan)
  BY DEF DownWhole
<1>3. Fate("down")' = Fate("down")
  BY DEF Fate
<1> QED
  BY <1>1, <1>2, <1>3, DownKept

\* A stream breaks.
LEMMA UpCut ==
  ASSUME UpInv, sent'["up"] = sent["up"], received'["up"] = received["up"],
         UpFirst(status', received') = UpFirst(status, received),
         Fate("up")' = Fate("up"),
         UpPipe(kind', chan', buf') \in Seq(Bytes),
         NEW r \in Seq(Bytes),
         UpPipe(kind, chan, buf) = UpPipe(kind', chan', buf') \o r,
         ~UpWhole(kind', chan')
  PROVE  UpInv' /\ UpStep
<1> DEFINE q == UpPipe(kind', chan', buf')
<1>1. ASSUME Fate("up") = "open"
      PROVE  Flow(q, sent["up"], UpFirst(status, received), FALSE)
  <2>1. Flow(UpPipe(kind, chan, buf), sent["up"], UpFirst(status, received),
             UpWhole(kind, chan))
    BY <1>1 DEF UpInv, UpFlows
  <2> HIDE DEF q
  <2>2. q \in Seq(Bytes) /\ UpPipe(kind, chan, buf) = q \o r
    BY DEF q
  <2> QED
    BY <2>1, <2>2, FlowCut
<1>2. UpFlows'
  BY <1>1, FlowWeaker DEF UpFlows
<1> QED
  BY <1>2 DEF UpInv, UpStep, Upward!vars

\* The same for the other direction.
LEMMA DownCut ==
  ASSUME DownInv, sent'["down"] = sent["down"],
         received'["down"] = received["down"],
         Fate("down")' = Fate("down"),
         DownPipe(kind', chan', buf') \in Seq(Bytes),
         NEW r \in Seq(Bytes),
         DownPipe(kind, chan, buf) = DownPipe(kind', chan', buf') \o r,
         ~DownWhole(kind', chan')
  PROVE  DownInv' /\ DownStep
<1> DEFINE q == DownPipe(kind', chan', buf')
<1>1. ASSUME Fate("down") = "open"
      PROVE  Flow(q, sent["down"], Len(received["down"]) + 1, FALSE)
  <2>1. Flow(DownPipe(kind, chan, buf), sent["down"],
             Len(received["down"]) + 1, DownWhole(kind, chan))
    BY <1>1 DEF DownInv, DownFlows
  <2> HIDE DEF q
  <2>2. q \in Seq(Bytes) /\ DownPipe(kind, chan, buf) = q \o r
    BY DEF q
  <2> QED
    BY <2>1, <2>2, FlowCut
<1>2. DownFlows'
  BY <1>1, FlowWeaker DEF DownFlows
<1> QED
  BY <1>2 DEF DownInv, DownStep, Downward!vars

\* The reader is done with its direction.
LEMMA UpDone ==
  ASSUME UpInv, sent'["up"] = sent["up"], received'["up"] = received["up"],
         Fate("up") = "open",
         \/ Fate("up")' = "cut"
         \/ Fate("up")' = "complete" /\ received["up"] = sent["up"]
  PROVE  UpInv' /\ UpStep
<1>1. UpFlows'
  BY DEF UpFlows
<1> QED
  BY <1>1 DEF UpInv, UpStep, Upward!vars, Upward!Finish

\* The same for the other direction.
LEMMA DownDone ==
  ASSUME DownInv, sent'["down"] = sent["down"],
         received'["down"] = received["down"],
         Fate("down") = "open",
         \/ Fate("down")' = "cut"
         \/ Fate("down")' = "complete" /\ received["down"] = sent["down"]
  PROVE  DownInv' /\ DownStep
<1>1. DownFlows'
  BY DEF DownFlows
<1> QED
  BY <1>1 DEF DownInv, DownStep, Downward!vars, Downward!Finish

\* A longer history of sent messages begins like the shorter one.
LEMMA OrderGrows ==
  ASSUME NEW rc \in Seq(Messages), NEW s \in Seq(Messages), InOrder(rc, s),
         NEW m \in Messages
  PROVE  InOrder(rc, Append(s, m))
  BY DEF InOrder

\* A received message is the next one that was sent.
LEMMA OrderTaken ==
  ASSUME NEW rc \in Seq(Messages), NEW s \in Seq(Messages), InOrder(rc, s),
         NEW m, m = s[Len(rc) + 1], Len(rc) + 1 <= Len(s)
  PROVE  /\ InOrder(Append(rc, m), s) /\ m \in Messages
         /\ Append(rc, m) \in Seq(Messages) /\ Len(Append(rc, m)) = Len(rc) + 1
<1>1. m \in Messages /\ Len(rc) \in Nat /\ Len(s) \in Nat
  OBVIOUS
<1>2. /\ Append(rc, m) \in Seq(Messages) /\ Len(Append(rc, m)) = Len(rc) + 1
      /\ \A i \in 1 .. Len(rc) : Append(rc, m)[i] = rc[i]
      /\ Append(rc, m)[Len(rc) + 1] = m
  BY <1>1
<1> DEFINE t == Append(rc, m)
<1> HIDE DEF t
<1>3. \A i \in 1 .. Len(t) : t[i] = s[i]
  BY <1>1, <1>2 DEF InOrder, t
<1> QED
  BY <1>1, <1>2, <1>3 DEF InOrder, t

\* Everything has been received.
LEMMA OrderEnds ==
  ASSUME NEW rc \in Seq(Messages), NEW s \in Seq(Messages), InOrder(rc, s),
         Len(rc) + 1 = Len(s) + 1
  PROVE  rc = s
<1>1. Len(rc) = Len(s) /\ \A i \in 1 .. Len(rc) : rc[i] = s[i]
  BY DEF InOrder
<1> QED
  BY <1>1, SeqEqual

\* A message is sent, into the pipe or into a pipe that has been cut.
LEMMA UpSent ==
  ASSUME Typed, UpInv, NEW m \in Messages, m.id = Len(sent["up"]) + 1,
         sent'["up"] = Append(sent["up"], m), received'["up"] = received["up"],
         UpFirst(status', received') = UpFirst(status, received),
         Fate("up")' = Fate("up"), Fate("up") # "complete",
         \/ /\ UpPipe(kind', chan', buf') = UpPipe(kind, chan, buf) \o Frame(m)
            /\ UpWhole(kind, chan)
         \/ /\ UpPipe(kind', chan', buf') = UpPipe(kind, chan, buf)
            /\ ~UpWhole(kind', chan')
  PROVE  UpInv' /\ UpStep
<1> DEFINE p == UpPipe(kind, chan, buf)
           f == UpFirst(status, received)
           s == sent["up"]
<1>1. s \in Seq(Messages) /\ received["up"] \in Seq(Messages)
  BY Parts DEF Dirs
<1>2. Fate("up") = "open" => Flow(p, s, f, UpWhole(kind, chan))
  BY DEF UpInv, UpFlows
<1>3. ASSUME Fate("up") = "open"
      PROVE  Flow(UpPipe(kind', chan', buf'), Append(s, m), f,
                  UpWhole(kind', chan'))
  <2> HIDE DEF p, f
  <2>1. CASE /\ UpPipe(kind', chan', buf') = p \o Frame(m)
             /\ UpWhole(kind, chan)
    <3>1. Flow(p, s, f, TRUE)
      BY <1>2, <1>3, <2>1, FlowWeaker
    <3>2. Flow(p \o Frame(m), Append(s, m), f, TRUE)
      BY <3>1, FlowGrows
    <3> QED
      BY <2>1, <3>2, FlowWeaker
  <2>2. CASE /\ UpPipe(kind', chan', buf') = p
             /\ ~UpWhole(kind', chan')
    <3>1. Flow(p, s, f, FALSE)
      BY <1>2, <1>3, FlowWeaker
    <3>2. Flow(p, Append(s, m), f, FALSE)
      BY <3>1, FlowOutside
    <3> QED
      BY <2>2, <3>2, FlowWeaker
  <2> QED
    BY <2>1, <2>2 DEF p
<1>4. UpFlows'
  BY <1>3 DEF UpFlows
<1>5. InOrder(received["up"], Append(s, m))
  BY <1>1, OrderGrows DEF UpInv
<1>6. Upward!Send
  BY DEF Upward!Send
<1> QED
  BY <1>4, <1>5, <1>6 DEF UpInv, UpStep

\* The same for the other direction.
LEMMA DownSent ==
  ASSUME Typed, DownInv, NEW m \in Messages, m.id = Len(sent["down"]) + 1,
         sent'["down"] = Append(sent["down"], m),
         received'["down"] = received["down"],
         Fate("down")' = Fate("down"), Fate("down") # "complete",
         \/ /\ DownPipe(kind', chan', buf')
                 = DownPipe(kind, chan, buf) \o Frame(m)
            /\ DownWhole(kind, chan)
         \/ /\ DownPipe(kind', chan', buf') = DownPipe(kind, chan, buf)
            /\ ~DownWhole(kind', chan')
  PROVE  DownInv' /\ DownStep
<1> DEFINE p == DownPipe(kind, chan, buf)
           f == Len(received["down"]) + 1
           s == sent["down"]
<1>1. s \in Seq(Messages) /\ received["down"] \in Seq(Messages)
  BY Parts DEF Dirs
<1>2. Fate("down") = "open" => Flow(p, s, f, DownWhole(kind, chan))
  BY DEF DownInv, DownFlows
<1>3. ASSUME Fate("down") = "open"
      PROVE  Flow(DownPipe(kind', chan', buf'), Append(s, m), f,
                  DownWhole(kind', chan'))
  <2> HIDE DEF p, f
  <2>1. CASE /\ DownPipe(kind', chan', buf') = p \o Frame(m)
             /\ DownWhole(kind, chan)
    <3>1. Flow(p, s, f, TRUE)
      BY <1>2, <1>3, <2>1, FlowWeaker
    <3>2. Flow(p \o Frame(m), Append(s, m), f, TRUE)
      BY <3>1, FlowGrows
    <3> QED
      BY <2>1, <3>2, FlowWeaker
  <2>2. CASE /\ DownPipe(kind', chan', buf') = p
             /\ ~DownWhole(kind', chan')
    <3>1. Flow(p, s, f, FALSE)
      BY <1>2, <1>3, FlowWeaker
    <3>2. Flow(p, Append(s, m), f, FALSE)
      BY <3>1, FlowOutside
    <3> QED
      BY <2>2, <3>2, FlowWeaker
  <2> QED
    BY <2>1, <2>2 DEF p
<1>4. DownFlows'
  BY <1>3 DEF DownFlows
<1>5. InOrder(received["down"], Append(s, m))
  BY <1>1, OrderGrows DEF DownInv
<1>6. Downward!Send
  BY DEF Downward!Send
<1> QED
  BY <1>4, <1>5, <1>6 DEF DownInv, DownStep

\* The first message is received.
LEMMA UpTaken ==
  ASSUME Typed, UpInv, NEW m \in Carried, NEW q \in Seq(Bytes),
         sent'["up"] = sent["up"],
         received'["up"] = Append(received["up"], m),
         status.server = "up", status'.server = "up",
         UpPipe(kind, chan, buf) = Frame(m) \o q,
         UpPipe(kind', chan', buf') = q,
         UpWhole(kind', chan') => UpWhole(kind, chan)
  PROVE  UpInv' /\ UpStep /\ received'["up"] \in Seq(Messages)
<1> DEFINE rc == received["up"]
           s == sent["up"]
<1>1. /\ s \in Seq(Messages) /\ rc \in Seq(Messages) /\ Len(rc) \in Nat
      /\ Len(s) \in Nat
  BY Parts DEF Dirs
<1>2. Fate("up") = "open" /\ Fate("up")' = "open"
  BY DEF Fate
<1>3. UpFirst(status, received) = Len(rc) + 1
  BY DEF UpFirst
<1>4. Flow(UpPipe(kind, chan, buf), s, Len(rc) + 1, UpWhole(kind, chan))
  BY <1>2, <1>3 DEF UpInv, UpFlows
<1>5. /\ Len(rc) + 1 <= Len(s) /\ m = Nth(s, Len(rc) + 1)
      /\ Flow(q, s, (Len(rc) + 1) + 1, UpWhole(kind, chan))
  <2> DEFINE p == UpPipe(kind, chan, buf)
             f == Len(rc) + 1
             w == UpWhole(kind, chan)
  <2>1. Flow(p, s, f, w) /\ p = Frame(m) \o q
    BY <1>4
  <2> HIDE DEF p, f, w, s
  <2>2. f <= Len(s) /\ m = Nth(s, f) /\ Flow(q, s, f + 1, w)
    BY <2>1, FlowTaken
  <2> QED
    BY <2>2 DEF f, w, s
<1>6. m = s[Len(rc) + 1]
  BY <1>1, <1>5 DEF Nth
<1>7. /\ InOrder(Append(rc, m), s) /\ m \in Messages
      /\ Append(rc, m) \in Seq(Messages) /\ Len(Append(rc, m)) = Len(rc) + 1
  BY <1>1, <1>5, <1>6, OrderTaken DEF UpInv
<1>8. UpFirst(status', received') = (Len(rc) + 1) + 1
  BY <1>7 DEF UpFirst
<1>9. UpFlows'
  BY <1>5, <1>8, FlowWeaker DEF UpFlows
<1>10. Upward!Receive
  BY <1>1, <1>2, <1>5, <1>6 DEF Upward!Receive
<1> QED
  BY <1>7, <1>9, <1>10 DEF UpInv, UpStep

\* The same for the other direction.
LEMMA DownTaken ==
  ASSUME Typed, DownInv, NEW m \in Carried, NEW q \in Seq(Bytes),
         sent'["down"] = sent["down"],
         received'["down"] = Append(received["down"], m),
         status.client = "up", status'.client = "up",
         DownPipe(kind, chan, buf) = Frame(m) \o q,
         DownPipe(kind', chan', buf') = q,
         DownWhole(kind', chan') => DownWhole(kind, chan)
  PROVE  DownInv' /\ DownStep /\ received'["down"] \in Seq(Messages)
<1> DEFINE rc == received["down"]
           s == sent["down"]
<1>1. /\ s \in Seq(Messages) /\ rc \in Seq(Messages) /\ Len(rc) \in Nat
      /\ Len(s) \in Nat
  BY Parts DEF Dirs
<1>2. Fate("down") = "open" /\ Fate("down")' = "open"
  BY DEF Fate
<1>4. Flow(DownPipe(kind, chan, buf), s, Len(rc) + 1, DownWhole(kind, chan))
  BY <1>2 DEF DownInv, DownFlows
<1>5. /\ Len(rc) + 1 <= Len(s) /\ m = Nth(s, Len(rc) + 1)
      /\ Flow(q, s, (Len(rc) + 1) + 1, DownWhole(kind, chan))
  <2> DEFINE p == DownPipe(kind, chan, buf)
             f == Len(rc) + 1
             w == DownWhole(kind, chan)
  <2>1. Flow(p, s, f, w) /\ p = Frame(m) \o q
    BY <1>4
  <2> HIDE DEF p, f, w, s
  <2>2. f <= Len(s) /\ m = Nth(s, f) /\ Flow(q, s, f + 1, w)
    BY <2>1, FlowTaken
  <2> QED
    BY <2>2 DEF f, w, s
<1>6. m = s[Len(rc) + 1]
  BY <1>1, <1>5 DEF Nth
<1>7. /\ InOrder(Append(rc, m), s) /\ m \in Messages
      /\ Append(rc, m) \in Seq(Messages) /\ Len(Append(rc, m)) = Len(rc) + 1
  BY <1>1, <1>5, <1>6, OrderTaken DEF DownInv
<1>8. Len(received'["down"]) + 1 = (Len(rc) + 1) + 1
  BY <1>7
<1>9. DownFlows'
  BY <1>5, <1>8, FlowWeaker DEF DownFlows
<1>10. Downward!Receive
  BY <1>1, <1>2, <1>5, <1>6 DEF Downward!Receive
<1> QED
  BY <1>7, <1>9, <1>10 DEF DownInv, DownStep

-----------------------------------------------------------------------------
(* Channels and buffers                                                    *)

\* One channel changes.
LEMMA ChanChanged ==
  ASSUME Typed, NEW c \in Chans, NEW v \in Channels,
         chan' = [chan EXCEPT ![c] = v]
  PROVE  /\ chan' \in [Chans -> Channels] /\ chan'[c] = v
         /\ \A x \in Chans : x # c => chan'[x] = chan[x]
  BY DEF Typed

\* One buffer changes.
LEMMA BufChanged ==
  ASSUME Typed, NEW b \in Buffers, NEW v \in Seq(Bytes),
         buf' = [buf EXCEPT ![b] = v]
  PROVE  /\ buf' \in [Buffers -> Seq(Bytes)] /\ buf'[b] = v
         /\ \A x \in Buffers : x # b => buf'[x] = buf[x]
  BY DEF Typed

\* What is put into a channel is at its end, unless the channel is over.
LEMMA PutFacts ==
  ASSUME NEW ch \in Channels, NEW x \in Seq(Bytes)
  PROVE  /\ Put(ch, x) \in Channels /\ Put(ch, x).over = ch.over
         /\ ch.over = "no" => Put(ch, x).data = ch.data \o x
         /\ ch.over # "no" => Put(ch, x) = ch
<1>1. ch.data \in Seq(Bytes) /\ ch.over \in {"no", "end", "error"}
  BY DEF Channels
<1>2. ch.data \o x \in Seq(Bytes)
  BY <1>1, Joined
<1>3. CASE ch.over = "no"
  <2>1. Put(ch, x) = [ch EXCEPT !.data = ch.data \o x]
    BY <1>3 DEF Put
  <2>2. \A d \in Seq(Bytes) :
          /\ [ch EXCEPT !.data = d] \in Channels
          /\ [ch EXCEPT !.data = d].data = d
          /\ [ch EXCEPT !.data = d].over = ch.over
    BY DEF Channels
  <2> QED
    BY <1>2, <1>3, <2>1, <2>2
<1>4. CASE ch.over # "no"
  BY <1>4 DEF Put
<1> QED
  BY <1>3, <1>4

\* A channel that is over stays as it is; one that breaks is empty.
LEMMA OverFacts ==
  ASSUME NEW ch \in Channels, NEW how \in {"end", "error"}
  PROVE  /\ Over(ch, how) \in Channels /\ Over(ch, how).over # "no"
         /\ ch.over # "no" => Over(ch, how) = ch
         /\ ch.over = "no" => Over(ch, how).over = how
         /\ Over(ch, how).data = ch.data \/ Over(ch, how).data = <<>>
         /\ Over(ch, how).over # "error" => Over(ch, how).data = ch.data
<1>1. ch.data \in Seq(Bytes) /\ ch.over \in {"no", "end", "error"}
      /\ <<>> \in Seq(Bytes)
  BY DEF Channels
<1>2. CASE ch.over # "no"
  BY <1>2 DEF Over
<1>3. CASE ch.over = "no" /\ how = "error"
  <2>1. Over(ch, how) = [data |-> <<>>, over |-> "error"]
    BY <1>3 DEF Over
  <2> QED
    <3>1. \A d \in Seq(Bytes) : /\ [data |-> d, over |-> "error"] \in Channels
                                 /\ [data |-> d, over |-> "error"].data = d
                                 /\ [data |-> d, over |-> "error"].over = "error"
      BY DEF Channels
    <3> QED
      BY <1>1, <1>3, <2>1, <3>1
<1>4. CASE ch.over = "no" /\ how = "end"
  <2>1. Over(ch, how) = [data |-> ch.data, over |-> "end"]
    BY <1>4 DEF Over
  <2> QED
    BY <1>1, <1>4, <2>1 DEF Channels
<1> QED
  BY <1>2, <1>3, <1>4

\* A chunk goes from a channel to a buffer.
LEMMA ReadFacts ==
  ASSUME Typed, NEW b \in Buffers, NEW c \in Chans, ReadChunk(b, c)
  PROVE  /\ buf' \in [Buffers -> Seq(Bytes)] /\ chan' \in [Chans -> Channels]
         /\ buf'[b] \o chan'[c].data = buf[b] \o chan[c].data
         /\ chan'[c].over = chan[c].over
         /\ \A x \in Buffers : x # b => buf'[x] = buf[x]
         /\ \A x \in Chans : x # c => chan'[x] = chan[x]
         /\ UNCHANGED <<kind, sent, received, dirty, status>>
<1> DEFINE d == chan[c].data
<1>1. /\ buf[b] \in Seq(Bytes) /\ d \in Seq(Bytes) /\ chan[c] \in Channels
      /\ Len(d) \in Nat
  BY Parts
<1>2. PICK n \in 1 .. Min({CHUNK, Len(d)}) :
        /\ buf' = [buf EXCEPT ![b] = buf[b] \o SubSeq(d, 1, n)]
        /\ chan' = [chan EXCEPT ![c].data = SubSeq(d, n + 1, Len(d))]
  BY DEF ReadChunk, Typed
<1> HIDE DEF d
<1>3. n \in 1 .. Len(d)
  <2>1. CHUNK \in Nat
    BY FramingAssumption
  <2>2. \E x \in {CHUNK, Len(d)} : \A y \in {CHUNK, Len(d)} : x <= y
    BY <1>1, <2>1
  <2>3. /\ Min({CHUNK, Len(d)}) \in {CHUNK, Len(d)}
        /\ \A y \in {CHUNK, Len(d)} : Min({CHUNK, Len(d)}) <= y
    BY <2>2 DEF Min
  <2> QED
    BY <1>1, <2>1, <2>3
<1> DEFINE x == SubSeq(d, 1, n)
           y == SubSeq(d, n + 1, Len(d))
<1>4. /\ x \in Seq(Bytes) /\ y \in Seq(Bytes) /\ buf[b] \o x \in Seq(Bytes)
      /\ (buf[b] \o x) \o y = buf[b] \o d
  BY <1>1, <1>3, ChunkMoves
<1>5. /\ buf' = [buf EXCEPT ![b] = buf[b] \o x]
      /\ chan' = [chan EXCEPT ![c].data = y]
  BY <1>2
<1> HIDE DEF x, y
<1>6. chan' = [chan EXCEPT ![c] = [chan[c] EXCEPT !.data = y]]
  BY <1>5
<1>7. /\ [chan[c] EXCEPT !.data = y] \in Channels
      /\ [chan[c] EXCEPT !.data = y].data = y
      /\ [chan[c] EXCEPT !.data = y].over = chan[c].over
  BY <1>1, <1>4 DEF Channels
<1>8. /\ chan' \in [Chans -> Channels] /\ chan'[c].data = y
      /\ chan'[c].over = chan[c].over
      /\ \A z \in Chans : z # c => chan'[z] = chan[z]
  <2> DEFINE v == [chan[c] EXCEPT !.data = y]
  <2> HIDE DEF v
  <2>1. v \in Channels /\ chan' = [chan EXCEPT ![c] = v]
    BY <1>6, <1>7 DEF v
  <2>2. /\ chan' \in [Chans -> Channels] /\ chan'[c] = v
        /\ \A z \in Chans : z # c => chan'[z] = chan[z]
    BY <2>1, ChanChanged
  <2>3. v.data = y /\ v.over = chan[c].over
    BY <1>7 DEF v
  <2> QED
    BY <2>2, <2>3
<1>9. /\ buf' \in [Buffers -> Seq(Bytes)] /\ buf'[b] = buf[b] \o x
      /\ \A z \in Buffers : z # b => buf'[z] = buf[z]
  BY <1>4, <1>5, BufChanged
<1>10. UNCHANGED <<kind, sent, received, dirty, status>>
  BY DEF ReadChunk
<1> QED
  BY <1>4, <1>8, <1>9, <1>10 DEF d

-----------------------------------------------------------------------------
(* The actions of the client                                               *)

\* What every step of the carrier is shown to be.
FramingStep == FramingInv' /\ UpStep /\ DownStep

\* What every action starts from.
LEMMA Start ==
  ASSUME FramingInv
  PROVE  /\ Typed /\ Sides /\ UpInv /\ DownInv
         /\ kind \in {"h2", "h3"} /\ status.server # ""
         /\ status \in [client : {"up", "closed", "failed", "left"},
                 bridge : {"none", "connecting", "up", "gone"},
                 server : {"none", "gate", "up", "closed", "failed", "left"}]
  BY DEF FramingInv, Typed

\* Without a change of status and kind both fates stay.
LEMMA SameFates ==
  ASSUME kind' = kind, status' = status
  PROVE  /\ Fate("up")' = Fate("up") /\ Fate("down")' = Fate("down")
         /\ received'["up"] = received["up"] =>
              UpFirst(status', received') = UpFirst(status, received)
  BY DEF Fate, UpFirst

\* A frame goes into the upload or into stdin.
LEMMA ClientSendsKeeps ==
  ASSUME FramingInv, NEW len \in Lengths, ClientSends(len)
  PROVE  FramingStep
<1> DEFINE m == [id |-> Len(sent["up"]) + 1, len |-> len]
           F == Frame(m)
<1>0. Typed /\ Sides /\ UpInv /\ DownInv /\ kind \in {"h2", "h3"}
  BY Start
<1>1. m \in Messages /\ m.id = Len(sent["up"]) + 1 /\ m \in Carried
  <2>1. Len(sent["up"]) \in Nat /\ Len(sent["down"]) \in Nat
    BY <1>0, Parts DEF Dirs
  <2>2. Len(sent["up"]) + Len(sent["down"]) < MaxMessages /\ MaxMessages \in Nat
    BY FramingAssumption DEF ClientSends
  <2>3. Len(sent["up"]) + 1 \in 1 .. MaxMessages
    <3>1. \A i, j, k \in Nat : i + j < k => i + 1 \in 1 .. k
      OBVIOUS
    <3> QED
      BY <2>1, <2>2, <3>1
  <2> QED
    BY <2>3 DEF Messages, Carried
<1>2. F \in Seq(Bytes)
  BY <1>1, FrameBytes
<1>3. /\ sent' \in [Dirs -> Seq(Messages)]
      /\ sent'["up"] = Append(sent["up"], m) /\ sent'["down"] = sent["down"]
  <2>1. sent' = [sent EXCEPT !["up"] = Append(@, m)]
    BY DEF ClientSends
  <2> HIDE DEF m
  <2> QED
    BY <1>0, <1>1, <2>1 DEF Typed, Dirs
<1> DEFINE c == ClientOut
<1>4. /\ c \in Chans
      /\ kind = "h2" => c = "upload"
  BY DEF ClientOut, Chans
<1>5. kind = "h3" => c = "stdin"
  BY DEF ClientOut
<1>6. chan' = [chan EXCEPT ![c] = Put(chan[c], F)] /\ chan[c].over = "no"
  BY <1>0, <1>4 DEF ClientSends, Typed
<1>7. UNCHANGED <<kind, received, buf, dirty, status>>
  BY DEF ClientSends
<1> HIDE DEF m, F, c
<1>8. chan[c] \in Channels
  BY <1>0, <1>4, Parts
<1>9. /\ Put(chan[c], F) \in Channels /\ Put(chan[c], F).over = "no"
      /\ Put(chan[c], F).data = chan[c].data \o F
  BY <1>2, <1>6, <1>8, PutFacts
<1>10. /\ chan' \in [Chans -> Channels] /\ chan'[c] = Put(chan[c], F)
       /\ \A x \in Chans : x # c => chan'[x] = chan[x]
  BY <1>0, <1>4, <1>6, <1>9, ChanChanged
<1>11. chan'[c].over = "no" /\ chan'[c].data = chan[c].data \o F
  BY <1>9, <1>10
<1>12. /\ c \in {"upload", "stdin"}
       /\ \A x \in {"download", "queue", "stdout"} : chan'[x] = chan[x]
  BY <1>0, <1>4, <1>5, <1>10 DEF Chans
<1>13. Typed'
  BY <1>0, <1>3, <1>7, <1>10 DEF Typed
<1>14. Sides'
  <2>1. status.bridge = "connecting" => chan'["upload"] = chan["upload"]
    BY <1>0, <1>4, <1>5, <1>10 DEF Sides, Chans
  <2>2. kind = "h2" /\ status.server = "closed" => FALSE
    BY <1>0, <1>4, <1>6 DEF Sides
  <2> QED
    BY <1>0, <1>7, <1>12, <2>1, <2>2 DEF Sides
<1>15. DownInv' /\ DownStep
  BY <1>0, <1>3, <1>7, <1>12, DownIdle
<1>16. Fate("up") # "complete"
  BY <1>0, <1>4, <1>6 DEF Sides, Fate
<1>17. /\ buf["server"] \in Seq(Bytes) /\ buf["local"] \in Seq(Bytes)
       /\ chan["upload"].data \in Seq(Bytes) /\ chan["stdin"].data \in Seq(Bytes)
       /\ <<>> \in Seq(Bytes)
  BY <1>0, Parts
<1> DEFINE a == buf["server"]
           u == chan["upload"].data
           l == buf["local"]
           t == chan["stdin"].data
<1>18. \/ /\ UpPipe(kind', chan', buf') = UpPipe(kind, chan, buf) \o F
          /\ UpWhole(kind, chan)
       \/ /\ UpPipe(kind', chan', buf') = UpPipe(kind, chan, buf)
          /\ ~UpWhole(kind', chan')
  <2>1. CASE kind = "h2"
    <3>1. UpPipe(kind, chan, buf) = (a \o u) \o <<>> /\ UpWhole(kind, chan)
      BY <1>4, <1>6, <2>1 DEF UpPipe, UpWhole
    <3>2. UpPipe(kind', chan', buf') = (a \o (u \o F)) \o <<>>
      BY <1>4, <1>7, <1>11, <2>1 DEF UpPipe
    <3> HIDE DEF a, u
    <3>3. a \in Seq(Bytes) /\ u \in Seq(Bytes)
      BY <1>17 DEF a, u
    <3>4. u \o F \in Seq(Bytes) /\ a \o u \in Seq(Bytes)
      BY <1>2, <3>3, Joined
    <3>5. a \o (u \o F) = (a \o u) \o F /\ a \o (u \o F) \in Seq(Bytes)
      <4>1. Same((a \o u) \o F, a \o (u \o F))
        BY <1>2, <3>3, Regroup
      <4> DEFINE uF == u \o F
      <4> HIDE DEF uF
      <4>2. a \o uF \in Seq(Bytes)
        BY <3>3, <3>4, Joined DEF uF
      <4> QED
        BY <4>1, <4>2 DEF Same, uF
    <3>6. (a \o u) \o <<>> = a \o u /\ (a \o (u \o F)) \o <<>> = a \o (u \o F)
      BY <3>4, <3>5, Joined
    <3> QED
      BY <3>1, <3>2, <3>5, <3>6
  <2>2. CASE kind = "h3" /\ chan["upload"].over = "no"
    <3>1. chan'["upload"] = chan["upload"]
      BY <1>5, <1>10, <2>2 DEF Chans
    <3>2. UpPipe(kind, chan, buf) = (a \o u) \o (l \o t) /\ UpWhole(kind, chan)
      BY <2>2 DEF UpPipe, UpWhole
    <3>3. UpPipe(kind', chan', buf') = (a \o u) \o (l \o (t \o F))
      BY <1>5, <1>7, <1>11, <2>2, <3>1 DEF UpPipe
    <3> HIDE DEF a, u, l, t
    <3>4. a \o u \in Seq(Bytes) /\ l \in Seq(Bytes) /\ t \in Seq(Bytes)
      BY <1>17, Joined DEF a, u, l, t
    <3>5. l \o (t \o F) = (l \o t) \o F /\ l \o t \in Seq(Bytes)
      <4>1. Same((l \o t) \o F, l \o (t \o F))
        BY <1>2, <3>4, Regroup
      <4>2. l \o t \in Seq(Bytes)
        BY <3>4, Joined
      <4> QED
        BY <4>1, <4>2 DEF Same
    <3> DEFINE au == a \o u
               lt == l \o t
    <3>6. au \in Seq(Bytes) /\ lt \in Seq(Bytes)
      BY <3>4, <3>5
    <3> HIDE DEF au, lt
    <3>7. au \o (lt \o F) = (au \o lt) \o F
      <4>1. Same((au \o lt) \o F, au \o (lt \o F))
        BY <1>2, <3>6, Regroup
      <4> QED
        BY <4>1 DEF Same
    <3> QED
      BY <3>2, <3>3, <3>5, <3>7 DEF au, lt
  <2>3. CASE kind = "h3" /\ chan["upload"].over # "no"
    <3>1. chan'["upload"] = chan["upload"]
      BY <1>5, <1>10, <2>3 DEF Chans
    <3> QED
      BY <1>7, <2>3, <3>1 DEF UpPipe, UpWhole
  <2> QED
    BY <1>0, <2>1, <2>2, <2>3
<1>19. UpInv' /\ UpStep
  <2>1. /\ Fate("up")' = Fate("up")
        /\ UpFirst(status', received') = UpFirst(status, received)
        /\ received'["up"] = received["up"]
    BY <1>7, SameFates
  <2> QED
    BY <1>0, <1>1, <1>3, <1>16, <1>18, <2>1, UpSent DEF F
<1> QED
  BY <1>13, <1>14, <1>15, <1>19 DEF FramingStep, FramingInv

\* A chunk goes from the download or from stdout to the client.
LEMMA ClientReadsKeeps ==
  ASSUME FramingInv, ClientReads
  PROVE  FramingStep
<1>0. Typed /\ Sides /\ UpInv /\ DownInv /\ kind \in {"h2", "h3"}
  BY Start
<1> DEFINE c == ClientIn
<1>1. /\ c \in Chans /\ "client" \in Buffers
      /\ kind = "h2" => c = "download"
  BY DEF ClientIn, Chans, Buffers
<1>2. kind = "h3" => c = "stdout"
  BY DEF ClientIn
<1>3. ReadChunk("client", c)
  BY DEF ClientReads
<1> HIDE DEF c
<1>4. /\ buf' \in [Buffers -> Seq(Bytes)] /\ chan' \in [Chans -> Channels]
      /\ buf'["client"] \o chan'[c].data = buf["client"] \o chan[c].data
      /\ chan'[c].over = chan[c].over
      /\ \A x \in Buffers : x # "client" => buf'[x] = buf[x]
      /\ \A x \in Chans : x # c => chan'[x] = chan[x]
      /\ UNCHANGED <<kind, sent, received, dirty, status>>
  BY <1>0, <1>1, <1>3, ReadFacts
<1>5. /\ buf'["server"] = buf["server"] /\ buf'["local"] = buf["local"]
      /\ buf'["batch"] = buf["batch"] /\ buf'["output"] = buf["output"]
      /\ buf'["bridge"] = buf["bridge"]
      /\ chan'["upload"] = chan["upload"] /\ chan'["stdin"] = chan["stdin"]
      /\ chan'["queue"] = chan["queue"]
      /\ chan'["download"].over = chan["download"].over
      /\ chan'["stdout"].over = chan["stdout"].over
  BY <1>0, <1>1, <1>2, <1>4 DEF Buffers, Chans
<1>6. Typed'
  BY <1>0, <1>4 DEF Typed
<1>7. Sides'
  BY <1>0, <1>4, <1>5 DEF Sides
<1>8. Fate("up")' = Fate("up") /\ Fate("down")' = Fate("down")
  BY <1>4, SameFates
<1>9. UpInv' /\ UpStep
  BY <1>0, <1>4, <1>5, <1>8, UpIdle
<1>10. DownPipe(kind', chan', buf') = DownPipe(kind, chan, buf)
  <2>1. CASE kind = "h2"
    BY <1>1, <1>4, <1>5, <2>1 DEF DownPipe
  <2>2. CASE kind = "h3"
    <3>1. chan'["download"] = chan["download"]
      BY <1>2, <1>4, <2>2 DEF Chans
    <3> QED
      BY <1>2, <1>4, <1>5, <2>2, <3>1 DEF DownPipe
  <2> QED
    BY <1>0, <2>1, <2>2
<1>11. DownWhole(kind', chan') => DownWhole(kind, chan)
  BY <1>4, <1>5 DEF DownWhole
<1>12. DownInv' /\ DownStep
  BY <1>0, <1>4, <1>8, <1>10, <1>11, DownKept
<1> QED
  BY <1>6, <1>7, <1>9, <1>12 DEF FramingStep, FramingInv

\* The first message of a pipe is in the reader's buffer.
LEMMA FrameFirst ==
  ASSUME NEW p, NEW s, NEW f, NEW w, Flow(p, s, f, w),
         NEW b \in Seq(Bytes), NEW c \in Seq(Bytes),
         p = b \o c, HasMessage(b)
  PROVE  /\ FirstMessage(b) \in Carried
         /\ Splits(b, Frame(FirstMessage(b)), Rest(b))
         /\ Rest(b) \in Seq(Bytes)
<1> DEFINE a == <<>>
<1>1. a \o b = b /\ a \in Seq(Bytes)
  BY Joined
<1> HIDE DEF a
<1>2. p = (a \o b) \o c
  BY <1>1
<1> QED
  BY <1>1, <1>2, FrameAtFront

\* The frame at the front of a pipe is taken out of its first buffer.
LEMMA FrontTaken ==
  ASSUME NEW p, NEW s, NEW f, NEW w, Flow(p, s, f, w),
         NEW b \in Seq(Bytes), NEW d \in Seq(Bytes), NEW t \in Seq(Bytes),
         p = (b \o d) \o t, HasMessage(b)
  PROVE  /\ FirstMessage(b) \in Carried /\ Rest(b) \in Seq(Bytes)
         /\ (Rest(b) \o d) \o t \in Seq(Bytes)
         /\ Splits(p, Frame(FirstMessage(b)), (Rest(b) \o d) \o t)
<1> DEFINE m == FirstMessage(b)
           F == Frame(m)
           R == Rest(b)
<1>1. d \o t \in Seq(Bytes) /\ (b \o d) \o t = b \o (d \o t)
  <2>1. Same((b \o d) \o t, b \o (d \o t))
    BY Regroup
  <2>2. d \o t \in Seq(Bytes)
    BY Joined
  <2> QED
    BY <2>1, <2>2 DEF Same
<1> DEFINE e == d \o t
<1>2. p = b \o e
  BY <1>1
<1>3. /\ m \in Carried /\ b = F \o R /\ R \in Seq(Bytes)
  <2>1. e \in Seq(Bytes)
    BY <1>1
  <2> HIDE DEF e
  <2>2. /\ FirstMessage(b) \in Carried /\ Rest(b) \in Seq(Bytes)
        /\ Splits(b, Frame(FirstMessage(b)), Rest(b))
    BY <1>2, <2>1, FrameFirst
  <2> QED
    BY <2>2 DEF Splits
<1>4. F \in Seq(Bytes)
  BY <1>3, FrameBytes
<1> HIDE DEF m, F, R
<1>5. /\ (F \o R) \o e = F \o (R \o e) /\ R \o e \in Seq(Bytes)
  <2>1. e \in Seq(Bytes)
    BY <1>1
  <2> HIDE DEF e
  <2>2. Same((F \o R) \o e, F \o (R \o e))
    BY <1>3, <1>4, <2>1, Regroup
  <2>3. R \o e \in Seq(Bytes)
    BY <1>3, <2>1, Joined
  <2> QED
    BY <2>2, <2>3 DEF Same
<1>6. R \o e = (R \o d) \o t
  <2>1. Same((R \o d) \o t, R \o (d \o t))
    BY <1>3, Regroup
  <2> QED
    BY <2>1 DEF Same
<1>7. p = (F \o R) \o e
  BY <1>1, <1>3
<1> QED
  BY <1>3, <1>5, <1>6, <1>7 DEF m, F, R, Splits

\* The client takes the first message of its pipe.
LEMMA ClientReceivesKeeps ==
  ASSUME FramingInv, ClientReceives
  PROVE  FramingStep
<1>0. Typed /\ Sides /\ UpInv /\ DownInv /\ kind \in {"h2", "h3"}
  BY Start
<1> DEFINE b == buf["client"]
           m == FirstMessage(b)
           R == Rest(b)
<1>1. /\ HasMessage(b) /\ status.client = "up"
      /\ received' = [received EXCEPT !["down"] = Append(received["down"], m)]
      /\ buf' = [buf EXCEPT !["client"] = R]
      /\ UNCHANGED <<kind, sent, chan, dirty, status>>
  BY <1>0 DEF ClientReceives, Typed, Dirs, Buffers
<1>2. b \in Seq(Bytes) /\ R \in Seq(Bytes) /\ m \in Carried
  BY <1>0, <1>1, Parts, TakenTyped
<1> HIDE DEF m, R
<1>3. /\ buf' \in [Buffers -> Seq(Bytes)] /\ buf'["client"] = R
      /\ \A x \in Buffers : x # "client" => buf'[x] = buf[x]
  BY <1>0, <1>1, <1>2, BufChanged DEF Buffers
<1>4. /\ buf'["server"] = buf["server"] /\ buf'["local"] = buf["local"]
      /\ buf'["batch"] = buf["batch"] /\ buf'["output"] = buf["output"]
      /\ buf'["bridge"] = buf["bridge"]
  BY <1>3 DEF Buffers
<1>5. /\ received'["up"] = received["up"]
      /\ received'["down"] = Append(received["down"], m)
  BY <1>0, <1>1 DEF Typed, Dirs
<1>6. UpInv' /\ UpStep
  BY <1>0, <1>1, <1>4, <1>5, SameFates, UpIdle
<1> DEFINE d == chan[ClientIn].data
           t == IF chan[ClientIn].over # "no" THEN <<>>
                ELSE IF kind = "h2" THEN buf["batch"] \o chan["queue"].data
                ELSE buf["output"] \o (buf["bridge"] \o chan["download"].data)
<1>7. d \in Seq(Bytes) /\ t \in Seq(Bytes)
  <2>1. \A x, y \in Seq(Bytes) : x \o y \in Seq(Bytes) /\ <<>> \in Seq(Bytes)
    BY Joined
  <2> QED
    BY <1>0, <2>1, Parts DEF ClientIn
<1>8. /\ DownPipe(kind, chan, buf) = (b \o d) \o t
      /\ DownPipe(kind', chan', buf') = (R \o d) \o t
  <2>0. kind' = kind /\ chan' = chan /\ buf'["client"] = R
    BY <1>1, <1>3
  <2>1. CASE kind = "h2"
    <3>1. DownPipe(kind, chan, buf) = (b \o d) \o t
      BY <2>1 DEF DownPipe, ClientIn
    <3>2. DownPipe(kind', chan', buf') = (R \o d) \o t
      BY <1>4, <2>0, <2>1 DEF DownPipe, ClientIn
    <3> QED
      BY <3>1, <3>2
  <2>2. CASE kind = "h3"
    <3>1. DownPipe(kind, chan, buf) = (b \o d) \o t
      BY <2>2 DEF DownPipe, ClientIn
    <3>2. DownPipe(kind', chan', buf') = (R \o d) \o t
      BY <1>4, <2>0, <2>2 DEF DownPipe, ClientIn
    <3> QED
      BY <3>1, <3>2
  <2> QED
    BY <1>0, <2>1, <2>2
<1>9. Flow((b \o d) \o t, sent["down"], Len(received["down"]) + 1,
           DownWhole(kind, chan))
  BY <1>0, <1>1, <1>8 DEF DownInv, DownFlows, Fate
<1> HIDE DEF b, d, t
<1>10. /\ (R \o d) \o t \in Seq(Bytes)
       /\ (b \o d) \o t = Frame(m) \o ((R \o d) \o t)
  <2> DEFINE p == (b \o d) \o t
             f == Len(received["down"]) + 1
             w == DownWhole(kind, chan)
             s == sent["down"]
  <2>1. Flow(p, s, f, w) /\ p = (b \o d) \o t
    BY <1>9
  <2> HIDE DEF p, f, w, s
  <2>2. /\ (Rest(b) \o d) \o t \in Seq(Bytes)
        /\ Splits(p, Frame(FirstMessage(b)), (Rest(b) \o d) \o t)
    BY <1>1, <1>2, <1>7, <2>1, FrontTaken
  <2> QED
    BY <2>1, <2>2 DEF m, R, Splits
<1>11. DownInv' /\ DownStep /\ received'["down"] \in Seq(Messages)
  <2> DEFINE q == (R \o d) \o t
  <2> HIDE DEF q
  <2>1. /\ q \in Seq(Bytes) /\ DownPipe(kind, chan, buf) = Frame(m) \o q
        /\ DownPipe(kind', chan', buf') = q
    BY <1>8, <1>10 DEF q
  <2>2. DownWhole(kind', chan') => DownWhole(kind, chan)
    BY <1>1 DEF DownWhole
  <2>3. sent'["down"] = sent["down"] /\ status'.client = "up"
    BY <1>1
  <2> QED
    BY <1>0, <1>1, <1>2, <1>5, <2>1, <2>2, <2>3, DownTaken
<1>12. Typed'
  <2>1. received' \in [Dirs -> Seq(Messages)]
    BY <1>0, <1>1, <1>5, <1>11 DEF Typed, Dirs
  <2> QED
    BY <1>0, <1>1, <1>3, <2>1 DEF Typed
<1>13. Sides'
  BY <1>0, <1>1, <1>4, <1>5 DEF Sides
<1> QED
  BY <1>6, <1>11, <1>12, <1>13 DEF FramingStep, FramingInv

-----------------------------------------------------------------------------
(* Streams that end or break                                               *)

\* What is left of two parts and of their end when the second one is over.
LEMMA PartsCut ==
  ASSUME NEW a \in Seq(Bytes), NEW u \in Seq(Bytes), NEW t \in Seq(Bytes),
         NEW v \in Seq(Bytes), v = u \/ v = <<>>
  PROVE  /\ (a \o v) \o <<>> \in Seq(Bytes)
         /\ \E r \in Seq(Bytes) :
              Splits((a \o u) \o t, (a \o v) \o <<>>, r)
<1>1. \A x, y \in Seq(Bytes) : /\ x \o y \in Seq(Bytes) /\ x \o <<>> = x
                               /\ <<>> \in Seq(Bytes)
  BY Joined
<1>2. a \o v \in Seq(Bytes) /\ (a \o v) \o <<>> = a \o v /\ u \o t \in Seq(Bytes)
  BY <1>1
<1>3. CASE v = u
  BY <1>2, <1>3 DEF Splits
<1>4. CASE v = <<>>
  <2>1. a \o v = a
    BY <1>1, <1>4
  <2>2. Same((a \o u) \o t, a \o (u \o t))
    BY Regroup
  <2> QED
    BY <1>2, <2>1, <2>2 DEF Splits, Same
<1> QED
  BY <1>2, <1>3, <1>4

\* The upload is over.
LEMMA UpOver ==
  ASSUME Typed, UpInv, kind' = kind, sent'["up"] = sent["up"],
         received'["up"] = received["up"],
         UpFirst(status', received') = UpFirst(status, received),
         Fate("up")' = Fate("up"),
         buf'["server"] = buf["server"],
         NEW how \in {"end", "error"},
         chan'["upload"] = Over(chan["upload"], how)
  PROVE  UpInv' /\ UpStep
<1> DEFINE a == buf["server"]
           u == chan["upload"].data
           v == chan'["upload"].data
           t == IF kind = "h3" /\ chan["upload"].over = "no"
                THEN buf["local"] \o chan["stdin"].data ELSE <<>>
<1>1. /\ a \in Seq(Bytes) /\ u \in Seq(Bytes) /\ chan["upload"] \in Channels
      /\ buf["local"] \in Seq(Bytes) /\ chan["stdin"].data \in Seq(Bytes)
  BY Parts
<1>2. /\ chan'["upload"] \in Channels /\ chan'["upload"].over # "no"
      /\ chan["upload"].over # "no" => chan'["upload"] = chan["upload"]
      /\ v = u \/ v = <<>>
      /\ chan'["upload"].over # "error" => v = u
  BY <1>1, OverFacts
<1>3. t \in Seq(Bytes) /\ v \in Seq(Bytes)
  <2>1. \A x, y \in Seq(Bytes) : x \o y \in Seq(Bytes) /\ <<>> \in Seq(Bytes)
    BY Joined
  <2> QED
    BY <1>1, <1>2, <2>1
<1>4. UpPipe(kind, chan, buf) = (a \o u) \o t
  BY DEF UpPipe
<1>5. UpPipe(kind', chan', buf') = (a \o v) \o <<>>
  BY <1>2 DEF UpPipe
<1>6. CASE kind = "h2" /\ chan'["upload"].over # "error"
  <2>1. t = <<>> /\ v = u
    BY <1>2, <1>6
  <2>2. UpPipe(kind', chan', buf') = UpPipe(kind, chan, buf)
    BY <1>4, <1>5, <2>1
  <2>3. UpWhole(kind, chan)
    BY <1>2, <1>6 DEF UpWhole
  <2> QED
    BY <2>2, <2>3, UpKept
<1>7. CASE ~UpWhole(kind', chan')
  <2> HIDE DEF a, u, v, t
  <2>1. /\ (a \o v) \o <<>> \in Seq(Bytes)
        /\ \E r \in Seq(Bytes) : Splits((a \o u) \o t, (a \o v) \o <<>>, r)
    BY <1>1, <1>2, <1>3, PartsCut DEF a, u, v
  <2>2. PICK r \in Seq(Bytes) : Splits((a \o u) \o t, (a \o v) \o <<>>, r)
    BY <2>1
  <2>3. UpPipe(kind, chan, buf) = UpPipe(kind', chan', buf') \o r
    BY <1>4, <1>5, <2>2 DEF Splits
  <2>4. UpPipe(kind', chan', buf') \in Seq(Bytes)
    BY <1>5, <2>1
  <2> QED
    BY <1>7, <2>3, <2>4, UpCut
<1> QED
  BY <1>2, <1>6, <1>7 DEF UpWhole, Typed

\* HTTP/2: the download breaks.
LEMMA DownOver ==
  ASSUME Typed, DownInv, kind = "h2", kind' = kind,
         sent'["down"] = sent["down"], received'["down"] = received["down"],
         Fate("down")' = Fate("down"),
         buf'["client"] = buf["client"],
         chan'["download"] = Over(chan["download"], "error")
  PROVE  DownInv' /\ DownStep
<1> DEFINE a == buf["client"]
           u == chan["download"].data
           v == chan'["download"].data
           t == IF chan["download"].over = "no"
                THEN buf["batch"] \o chan["queue"].data ELSE <<>>
<1>1. /\ a \in Seq(Bytes) /\ u \in Seq(Bytes) /\ chan["download"] \in Channels
      /\ buf["batch"] \in Seq(Bytes) /\ chan["queue"].data \in Seq(Bytes)
  BY Parts
<1>2. /\ chan'["download"] \in Channels /\ chan'["download"].over # "no"
      /\ chan["download"].over # "no" => chan'["download"] = chan["download"]
      /\ v = u \/ v = <<>>
      /\ chan'["download"].over # "error" => v = u
      /\ chan["download"].over = "no" => chan'["download"].over = "error"
  BY <1>1, OverFacts
<1>3. t \in Seq(Bytes) /\ v \in Seq(Bytes)
  <2>1. \A x, y \in Seq(Bytes) : x \o y \in Seq(Bytes) /\ <<>> \in Seq(Bytes)
    BY Joined
  <2> QED
    BY <1>1, <1>2, <2>1
<1>4. DownPipe(kind, chan, buf) = (a \o u) \o t
  BY DEF DownPipe
<1>5. DownPipe(kind', chan', buf') = (a \o v) \o <<>>
  BY <1>2 DEF DownPipe
<1>6. CASE chan'["download"].over # "error"
  <2>1. t = <<>> /\ v = u
    BY <1>2, <1>6
  <2>2. DownPipe(kind', chan', buf') = DownPipe(kind, chan, buf)
    BY <1>4, <1>5, <2>1
  <2>3. DownWhole(kind, chan)
    BY <1>2, <1>6 DEF DownWhole
  <2> QED
    BY <2>2, <2>3, DownKept
<1>7. CASE ~DownWhole(kind', chan')
  <2> HIDE DEF a, u, v, t
  <2>1. /\ (a \o v) \o <<>> \in Seq(Bytes)
        /\ \E r \in Seq(Bytes) : Splits((a \o u) \o t, (a \o v) \o <<>>, r)
    BY <1>1, <1>2, <1>3, PartsCut DEF a, u, v
  <2>2. PICK r \in Seq(Bytes) : Splits((a \o u) \o t, (a \o v) \o <<>>, r)
    BY <2>1
  <2>3. DownPipe(kind, chan, buf) = DownPipe(kind', chan', buf') \o r
    BY <1>4, <1>5, <2>2 DEF Splits
  <2>4. DownPipe(kind', chan', buf') \in Seq(Bytes)
    BY <1>5, <2>1
  <2> QED
    BY <1>7, <2>3, <2>4, DownCut
<1> QED
  BY <1>2, <1>6, <1>7 DEF DownWhole

\* HTTP/3: the download is over, from which the bridge reads.
LEMMA DownFar ==
  ASSUME Typed, DownInv, kind = "h3", kind' = kind,
         sent'["down"] = sent["down"], received'["down"] = received["down"],
         Fate("down")' = Fate("down"),
         buf'["client"] = buf["client"], buf'["output"] = buf["output"],
         buf'["bridge"] = buf["bridge"], chan'["stdout"] = chan["stdout"],
         NEW how \in {"end", "error"},
         chan'["download"] = Over(chan["download"], how)
  PROVE  DownInv' /\ DownStep
<1> DEFINE a == buf["client"] \o chan["stdout"].data
           o == buf["output"]
           b == buf["bridge"]
           u == chan["download"].data
           v == chan'["download"].data
<1>1. /\ u \in Seq(Bytes) /\ chan["download"] \in Channels
      /\ a \in Seq(Bytes) /\ o \in Seq(Bytes) /\ b \in Seq(Bytes)
  BY Parts, Joined
<1>2. /\ chan'["download"] \in Channels /\ chan'["download"].over # "no"
      /\ v = u \/ v = <<>>
  BY <1>1, OverFacts
<1>3. v \in Seq(Bytes)
  <2>1. <<>> \in Seq(Bytes)
    BY <1>1, Joined
  <2> QED
    BY <1>1, <1>2, <2>1
<1>4. ~DownWhole(kind', chan')
  BY <1>2 DEF DownWhole
<1>5. CASE chan["stdout"].over # "no"
  <2>1. DownPipe(kind', chan', buf') = DownPipe(kind, chan, buf)
    BY <1>5 DEF DownPipe
  <2> QED
    BY <1>4, <2>1, DownKept
<1>6. CASE chan["stdout"].over = "no"
  <2>1. DownPipe(kind, chan, buf) = a \o (o \o (b \o u))
    BY <1>6 DEF DownPipe
  <2>2. DownPipe(kind', chan', buf') = a \o (o \o (b \o v))
    BY <1>6 DEF DownPipe
  <2> HIDE DEF a, o, b, u, v
  <2>3. /\ b \o v \in Seq(Bytes) /\ o \o (b \o v) \in Seq(Bytes)
        /\ a \o (o \o (b \o v)) \in Seq(Bytes)
    <3>1. \A x, y \in Seq(Bytes) : x \o y \in Seq(Bytes)
      BY Joined
    <3> QED
      BY <1>1, <1>3, <3>1
  <2>4. CASE v = u
    <3>1. DownPipe(kind', chan', buf') = DownPipe(kind, chan, buf)
      BY <2>1, <2>2, <2>4
    <3> QED
      BY <1>4, <3>1, DownKept
  <2>5. CASE v = <<>>
    <3>1. b \o v = b
      BY <1>1, <2>5, Joined
    <3>2. o \o b \in Seq(Bytes) /\ o \o (b \o u) = (o \o b) \o u
      <4>1. Same((o \o b) \o u, o \o (b \o u))
        BY <1>1, Regroup
      <4>2. o \o b \in Seq(Bytes)
        BY <1>1, Joined
      <4> QED
        BY <4>1, <4>2 DEF Same
    <3> DEFINE ob == o \o b
    <3> HIDE DEF ob
    <3>3. a \o (ob \o u) = (a \o ob) \o u
      <4>1. ob \in Seq(Bytes)
        BY <3>2 DEF ob
      <4>2. Same((a \o ob) \o u, a \o (ob \o u))
        BY <1>1, <4>1, Regroup
      <4> QED
        BY <4>2 DEF Same
    <3>4. DownPipe(kind, chan, buf) = DownPipe(kind', chan', buf') \o u
      BY <2>1, <2>2, <3>1, <3>2, <3>3 DEF ob
    <3>5. DownPipe(kind', chan', buf') \in Seq(Bytes)
      BY <2>2, <2>3
    <3> QED
      BY <1>1, <1>4, <3>4, <3>5, DownCut
  <2> QED
    BY <1>2, <2>4, <2>5 DEF v, u
<1> QED
  BY <1>5, <1>6

-----------------------------------------------------------------------------
(* The client's end                                                        *)

\* The client closes; as "closed" only when it has received everything.
LEMMA ClientClosesKeeps ==
  ASSUME FramingInv, NEW why \in {"closed", "failed", "left"},
         ClientCloses(why),
         why = "closed" => /\ kind = "h2" /\ chan["queue"].over # "no"
                           /\ received["down"] = sent["down"]
  PROVE  FramingStep
<1>0. Typed /\ Sides /\ UpInv /\ DownInv /\ kind \in {"h2", "h3"}
  BY Start
<1>1. /\ status.client = "up" /\ status' = [status EXCEPT !.client = why]
      /\ UNCHANGED <<kind, sent, received, buf, dirty>>
  BY DEF ClientCloses
<1> DEFINE c == ClientOut
<1>2. /\ c \in Chans /\ c \in {"upload", "stdin"}
      /\ kind = "h2" => c = "upload"
      /\ kind = "h3" => c = "stdin"
  BY DEF ClientOut, Chans
<1>3. PICK how \in {"end", "error"} :
        /\ kind = "h3" => how = "end"
        /\ chan' = [chan EXCEPT ![c] = Over(chan[c], how)]
  BY <1>0, <1>2 DEF ClientCloses, Typed
<1> HIDE DEF c
<1>4. chan[c] \in Channels
  BY <1>0, <1>2, Parts
<1>5. Over(chan[c], how) \in Channels
  BY <1>4, OverFacts
<1>6. /\ chan' \in [Chans -> Channels] /\ chan'[c] = Over(chan[c], how)
      /\ \A x \in Chans : x # c => chan'[x] = chan[x]
  BY <1>0, <1>2, <1>3, <1>5, ChanChanged
<1>7. \A x \in {"download", "queue", "stdout"} : chan'[x] = chan[x]
  BY <1>2, <1>6 DEF Chans
<1>8. /\ status'.server = status.server /\ status'.bridge = status.bridge
      /\ status'.client = why
  BY <1>0, <1>1 DEF Typed
<1>9. Typed'
  <2>1. status' \in [client : {"up", "closed", "failed", "left"},
                 bridge : {"none", "connecting", "up", "gone"},
                 server : {"none", "gate", "up", "closed", "failed", "left"}]
    BY <1>0, <1>1 DEF Typed
  <2> QED
    BY <1>0, <1>1, <1>6, <2>1 DEF Typed
<1>10. Sides'
  <2>1. status.bridge = "connecting" => chan'["upload"] = chan["upload"]
    BY <1>0, <1>2, <1>6 DEF Sides, Chans
  <2>2. kind = "h2" => chan'["upload"].over # "no"
    BY <1>2, <1>4, <1>6, OverFacts
  <2> QED
    BY <1>0, <1>1, <1>7, <1>8, <2>1, <2>2 DEF Sides
<1>11. DownInv' /\ DownStep
  <2>1. Fate("down") = "open"
    BY <1>1 DEF Fate
  <2>2. \/ Fate("down")' = "cut"
        \/ Fate("down")' = "complete" /\ received["down"] = sent["down"]
    BY <1>8 DEF Fate
  <2> QED
    BY <1>0, <1>1, <2>1, <2>2, DownDone
<1>12. /\ Fate("up")' = Fate("up")
       /\ UpFirst(status', received') = UpFirst(status, received)
  BY <1>1, <1>8 DEF Fate, UpFirst
<1>13. UpInv' /\ UpStep
  <2>1. CASE kind = "h2"
    BY <1>0, <1>1, <1>2, <1>6, <1>12, <2>1, UpOver
  <2>2. CASE kind = "h3"
    <3>1. chan'["upload"] = chan["upload"]
      BY <1>2, <1>6, <2>2 DEF Chans
    <3>2. chan'["stdin"].data = chan["stdin"].data
      <4>1. c = "stdin" /\ how = "end" /\ chan["stdin"] \in Channels
        BY <1>2, <1>3, <1>4, <2>2
      <4>2. chan'["stdin"] = Over(chan["stdin"], "end")
        BY <1>6, <4>1
      <4> QED
        BY <4>1, <4>2 DEF Over
    <3>3. /\ UpPipe(kind', chan', buf') = UpPipe(kind, chan, buf)
          /\ UpWhole(kind', chan') => UpWhole(kind, chan)
      BY <1>1, <3>1, <3>2 DEF UpPipe, UpWhole
    <3> QED
      BY <1>0, <1>1, <1>12, <3>3, UpKept
  <2> QED
    BY <1>0, <2>1, <2>2
<1> QED
  BY <1>9, <1>10, <1>11, <1>13 DEF FramingStep, FramingInv

\* HTTP/2: behind a download that has ended nothing is missing.
LEMMA ClientSeesEndKeeps ==
  ASSUME FramingInv, ClientSeesEnd
  PROVE  FramingStep
<1>0. Typed /\ Sides /\ UpInv /\ DownInv /\ kind \in {"h2", "h3"}
  BY Start
<1> DEFINE why == IF kind = "h2" /\ chan["download"].over = "end"
                  THEN "closed" ELSE "failed"
<1>1. /\ Starved("client", ClientIn) /\ ClientCloses(why)
      /\ status.client = "up"
  BY DEF ClientSeesEnd, ClientCloses
<1>2. why \in {"closed", "failed", "left"}
  OBVIOUS
<1>3. ASSUME why = "closed"
      PROVE  /\ kind = "h2" /\ chan["queue"].over # "no"
             /\ received["down"] = sent["down"]
  <2>1. kind = "h2" /\ chan["download"].over = "end" /\ ClientIn = "download"
    BY <1>3 DEF ClientIn
  <2>2. chan["queue"].over # "no"
    BY <1>0, <2>1 DEF Sides
  <2> DEFINE b == buf["client"]
             u == chan["download"].data
             s == sent["down"]
             rc == received["down"]
             f == Len(rc) + 1
             w == DownWhole(kind, chan)
             p == DownPipe(kind, chan, buf)
  <2>3. b \in Seq(Bytes) /\ u \in Seq(Bytes) /\ s \in Seq(Messages)
        /\ rc \in Seq(Messages)
    BY <1>0, Parts
  <2>4. p = (b \o u) \o <<>>
    BY <2>1 DEF DownPipe
  <2>5. (b \o u) \o <<>> = b \o u
    <3>1. b \o u \in Seq(Bytes)
      BY <2>3, Joined
    <3> DEFINE bu == b \o u
    <3> HIDE DEF bu
    <3>2. bu \o <<>> = bu
      BY <3>1, Joined DEF bu
    <3> QED
      BY <3>2 DEF bu
  <2>6. Flow(p, s, f, w) /\ w
    BY <1>0, <1>1, <2>1 DEF DownInv, DownFlows, Fate, DownWhole
  <2>7. /\ Garbled(b) \/ (~HasMessage(b) /\ u = <<>>)
    BY <1>1, <2>1 DEF Starved, AtEnd
  <2> HIDE DEF b, u, p, f, w
  <2>8. /\ ~Garbled(b)
        /\ w /\ u = <<>> /\ ~HasMessage(b) => Len(b) = 0 /\ f = Len(s) + 1
    BY <2>3, <2>4, <2>5, <2>6, FlowEnds
  <2>9. f = Len(s) + 1
    BY <2>6, <2>7, <2>8
  <2>10. InOrder(rc, s) /\ Len(rc) + 1 = Len(s) + 1
    BY <1>0, <2>9 DEF f, DownInv
  <2> QED
    BY <2>1, <2>2, <2>3, <2>10, OrderEnds
<1> HIDE DEF why
<1> QED
  BY <1>1, <1>2, <1>3, ClientClosesKeeps

\* The client leaves of its own accord.
LEMMA ClientLeavesKeeps ==
  ASSUME FramingInv, ClientLeaves
  PROVE  FramingStep
  BY ClientClosesKeeps DEF ClientLeaves

-----------------------------------------------------------------------------
(* The actions of the server                                               *)

\* A frame goes into the queue or into the download; no read is lost.
LEMMA ServerSendsKeeps ==
  ASSUME FramingInv, NEW len \in Lengths, ServerSends(len)
  PROVE  FramingStep
<1> DEFINE m == [id |-> Len(sent["down"]) + 1, len |-> len]
           F == Frame(m)
<1>0. Typed /\ Sides /\ UpInv /\ DownInv /\ kind \in {"h2", "h3"}
  BY Start
<1>1. m \in Messages /\ m.id = Len(sent["down"]) + 1 /\ m \in Carried
  <2>1. Len(sent["up"]) \in Nat /\ Len(sent["down"]) \in Nat
    BY <1>0, Parts DEF Dirs
  <2>2. Len(sent["up"]) + Len(sent["down"]) < MaxMessages /\ MaxMessages \in Nat
    BY FramingAssumption DEF ServerSends
  <2>3. Len(sent["down"]) + 1 \in 1 .. MaxMessages
    <3>1. \A i, j, k \in Nat : j + i < k => i + 1 \in 1 .. k
      OBVIOUS
    <3> QED
      BY <2>1, <2>2, <3>1
  <2> QED
    BY <2>3 DEF Messages, Carried
<1>2. F \in Seq(Bytes)
  BY <1>1, FrameBytes
<1>3. /\ sent' \in [Dirs -> Seq(Messages)]
      /\ sent'["down"] = Append(sent["down"], m) /\ sent'["up"] = sent["up"]
  <2>1. sent' = [sent EXCEPT !["down"] = Append(@, m)]
    BY DEF ServerSends
  <2> HIDE DEF m
  <2> QED
    BY <1>0, <1>1, <2>1 DEF Typed, Dirs
<1> DEFINE c == ServerOut
<1>4. /\ c \in Chans
      /\ kind = "h2" => c = "queue"
      /\ kind = "h3" => c = "download"
  BY DEF ServerOut, Chans
<1>5. chan' = [chan EXCEPT ![c] = Put(chan[c], F)] /\ chan[c].over = "no"
  BY <1>0, <1>4 DEF ServerSends, Typed
<1>6. /\ UNCHANGED <<kind, received, dirty, status>> /\ buf' = buf
      /\ status.server = "up"
  <2>1. buf' = [buf EXCEPT !["server"] = buf["server"]]
    BY <1>0 DEF ServerSends, Cancelled, Typed, Buffers
  <2>2. buf' = buf
    BY <1>0, <2>1 DEF Typed, Buffers
  <2> QED
    BY <2>2 DEF ServerSends
<1> HIDE DEF m, F, c
<1>7. chan[c] \in Channels
  BY <1>0, <1>4, Parts
<1>8. /\ Put(chan[c], F) \in Channels /\ Put(chan[c], F).over = "no"
      /\ Put(chan[c], F).data = chan[c].data \o F
  BY <1>2, <1>5, <1>7, PutFacts
<1>9. /\ chan' \in [Chans -> Channels] /\ chan'[c] = Put(chan[c], F)
      /\ \A x \in Chans : x # c => chan'[x] = chan[x]
  BY <1>0, <1>4, <1>5, <1>8, ChanChanged
<1>10. chan'[c].over = "no" /\ chan'[c].data = chan[c].data \o F
  BY <1>8, <1>9
<1>11. /\ c \in {"queue", "download"}
       /\ \A x \in {"upload", "stdin", "stdout"} : chan'[x] = chan[x]
  BY <1>0, <1>4, <1>9 DEF Chans
<1>12. Typed'
  BY <1>0, <1>3, <1>6, <1>9 DEF Typed
<1>13. Sides'
  <2>1. CASE kind = "h2"
    <3>1. chan'["download"] = chan["download"] /\ c = "queue"
      BY <1>4, <1>9, <2>1 DEF Chans
    <3>2. chan["queue"].over = "no" /\ chan'["queue"].over = "no"
      BY <1>5, <1>10, <3>1
    <3> QED
      BY <1>0, <1>6, <1>11, <2>1, <3>1, <3>2 DEF Sides
  <2>2. CASE kind = "h3"
    <3>1. chan'["queue"] = chan["queue"] /\ c = "download"
      BY <1>4, <1>9, <2>2 DEF Chans
    <3> QED
      BY <1>0, <1>6, <1>11, <2>2, <3>1 DEF Sides
  <2> QED
    BY <1>0, <2>1, <2>2
<1>14. UpInv' /\ UpStep
  <2>1. Fate("up")' = Fate("up")
    BY <1>6, SameFates
  <2> QED
    BY <1>0, <1>3, <1>6, <1>11, <2>1, UpIdle
<1>15. Fate("down") # "complete"
  BY <1>0, <1>4, <1>5 DEF Sides, Fate
<1> DEFINE a == buf["client"] \o chan[ClientIn].data
<1>16. /\ a \in Seq(Bytes) /\ buf["batch"] \in Seq(Bytes)
       /\ buf["output"] \in Seq(Bytes) /\ buf["bridge"] \in Seq(Bytes)
       /\ chan["queue"].data \in Seq(Bytes)
       /\ chan["download"].data \in Seq(Bytes)
  BY <1>0, Parts, Joined DEF ClientIn
<1>17. \/ /\ DownPipe(kind', chan', buf') = DownPipe(kind, chan, buf) \o F
          /\ DownWhole(kind, chan)
       \/ /\ DownPipe(kind', chan', buf') = DownPipe(kind, chan, buf)
          /\ ~DownWhole(kind', chan')
  <2>1. CASE kind = "h2" /\ chan["download"].over = "no"
    <3> DEFINE l == buf["batch"]
               t == chan["queue"].data
    <3>1. c = "queue" /\ chan'["download"] = chan["download"]
      BY <1>4, <1>9, <2>1 DEF Chans
    <3>2. DownPipe(kind, chan, buf) = a \o (l \o t) /\ DownWhole(kind, chan)
      BY <2>1 DEF DownPipe, DownWhole, ClientIn
    <3>3. chan'["queue"].data = t \o F
      BY <1>10, <3>1
    <3>4. DownPipe(kind', chan', buf') = a \o (l \o (t \o F))
      BY <1>6, <2>1, <3>1, <3>3 DEF DownPipe, ClientIn
    <3> HIDE DEF a, l, t
    <3>5. l \in Seq(Bytes) /\ t \in Seq(Bytes) /\ a \in Seq(Bytes)
      BY <1>16 DEF a, l, t
    <3>6. l \o (t \o F) = (l \o t) \o F /\ l \o t \in Seq(Bytes)
      <4>1. Same((l \o t) \o F, l \o (t \o F))
        BY <1>2, <3>5, Regroup
      <4>2. l \o t \in Seq(Bytes)
        BY <3>5, Joined
      <4> QED
        BY <4>1, <4>2 DEF Same
    <3> DEFINE lt == l \o t
    <3>7. lt \in Seq(Bytes)
      BY <3>6
    <3> HIDE DEF lt
    <3>8. a \o (lt \o F) = (a \o lt) \o F
      <4>1. Same((a \o lt) \o F, a \o (lt \o F))
        BY <1>2, <3>5, <3>7, Regroup
      <4> QED
        BY <4>1 DEF Same
    <3> QED
      BY <3>2, <3>4, <3>6, <3>8 DEF lt
  <2>2. CASE kind = "h2" /\ chan["download"].over # "no"
    <3>1. chan'["download"] = chan["download"] /\ c = "queue"
      BY <1>4, <1>9, <2>2 DEF Chans
    <3>2. chan["download"].over = "error"
      <4>1. chan["download"].over \in {"no", "end", "error"}
        BY <1>0, Parts
      <4> QED
        BY <1>0, <1>5, <2>2, <3>1, <4>1 DEF Sides
    <3> QED
      BY <1>6, <2>2, <3>1, <3>2 DEF DownPipe, DownWhole
  <2>3. CASE kind = "h3" /\ chan["stdout"].over = "no"
    <3> DEFINE o == buf["output"]
               b == buf["bridge"]
               u == chan["download"].data
    <3>1. c = "download" /\ chan'["stdout"] = chan["stdout"]
      BY <1>4, <1>9, <2>3 DEF Chans
    <3>2. /\ DownPipe(kind, chan, buf) = a \o (o \o (b \o u))
          /\ DownWhole(kind, chan)
      BY <1>5, <2>3, <3>1 DEF DownPipe, DownWhole, ClientIn
    <3>3. chan'["download"].data = u \o F
      BY <1>10, <3>1
    <3>4. DownPipe(kind', chan', buf') = a \o (o \o (b \o (u \o F)))
      BY <1>6, <2>3, <3>1, <3>3 DEF DownPipe, ClientIn
    <3> HIDE DEF a, o, b, u
    <3>5. /\ o \in Seq(Bytes) /\ b \in Seq(Bytes) /\ u \in Seq(Bytes)
          /\ a \in Seq(Bytes)
      BY <1>16 DEF a, o, b, u
    <3>6. b \o (u \o F) = (b \o u) \o F /\ b \o u \in Seq(Bytes)
      <4>1. Same((b \o u) \o F, b \o (u \o F))
        BY <1>2, <3>5, Regroup
      <4>2. b \o u \in Seq(Bytes)
        BY <3>5, Joined
      <4> QED
        BY <4>1, <4>2 DEF Same
    <3> DEFINE bu == b \o u
    <3>7. bu \in Seq(Bytes)
      BY <3>6
    <3> HIDE DEF bu
    <3>8. o \o (bu \o F) = (o \o bu) \o F
      <4>1. Same((o \o bu) \o F, o \o (bu \o F))
        BY <1>2, <3>5, <3>7, Regroup
      <4> QED
        BY <4>1 DEF Same
    <3> DEFINE obu == o \o bu
    <3>9. obu \in Seq(Bytes)
      BY <3>5, <3>7, Joined
    <3> HIDE DEF obu
    <3>10. a \o (obu \o F) = (a \o obu) \o F
      <4>1. Same((a \o obu) \o F, a \o (obu \o F))
        BY <1>2, <3>5, <3>9, Regroup
      <4> QED
        BY <4>1 DEF Same
    <3> QED
      BY <3>2, <3>4, <3>6, <3>8, <3>10 DEF bu, obu
  <2>4. CASE kind = "h3" /\ chan["stdout"].over # "no"
    <3>1. chan'["stdout"] = chan["stdout"]
      BY <1>11
    <3> QED
      BY <1>6, <2>4, <3>1 DEF DownPipe, DownWhole
  <2> QED
    BY <1>0, <2>1, <2>2, <2>3, <2>4
<1>18. DownInv' /\ DownStep
  <2>1. Fate("down")' = Fate("down") /\ received'["down"] = received["down"]
    BY <1>6, SameFates
  <2> QED
    BY <1>0, <1>1, <1>3, <1>15, <1>17, <2>1, DownSent DEF F
<1> QED
  BY <1>12, <1>13, <1>14, <1>18 DEF FramingStep, FramingInv

\* A chunk goes from the upload to the server.
LEMMA ServerReadsKeeps ==
  ASSUME FramingInv, ServerReads
  PROVE  FramingStep
<1>0. Typed /\ Sides /\ UpInv /\ DownInv
  BY Start
<1>1. /\ "upload" \in Chans /\ "server" \in Buffers
      /\ ReadChunk("server", "upload")
      /\ status.server \in {"gate", "up"}
  BY DEF ServerReads, Chans, Buffers
<1>2. /\ buf' \in [Buffers -> Seq(Bytes)] /\ chan' \in [Chans -> Channels]
      /\ buf'["server"] \o chan'["upload"].data
           = buf["server"] \o chan["upload"].data
      /\ chan'["upload"].over = chan["upload"].over
      /\ \A x \in Buffers : x # "server" => buf'[x] = buf[x]
      /\ \A x \in Chans : x # "upload" => chan'[x] = chan[x]
      /\ UNCHANGED <<kind, sent, received, dirty, status>>
  BY <1>0, <1>1, ReadFacts
<1>3. /\ buf'["client"] = buf["client"] /\ buf'["local"] = buf["local"]
      /\ buf'["batch"] = buf["batch"] /\ buf'["output"] = buf["output"]
      /\ buf'["bridge"] = buf["bridge"]
      /\ chan'["stdin"] = chan["stdin"] /\ chan'["stdout"] = chan["stdout"]
      /\ chan'["queue"] = chan["queue"] /\ chan'["download"] = chan["download"]
  BY <1>2 DEF Buffers, Chans
<1>4. Typed'
  BY <1>0, <1>2 DEF Typed
<1>5. Sides'
  BY <1>0, <1>1, <1>2, <1>3 DEF Sides
<1>6. /\ Fate("up")' = Fate("up") /\ Fate("down")' = Fate("down")
      /\ UpFirst(status', received') = UpFirst(status, received)
  BY <1>2, SameFates
<1>7. DownInv' /\ DownStep
  BY <1>0, <1>2, <1>3, DownIdle
<1>8. UpPipe(kind', chan', buf') = UpPipe(kind, chan, buf)
  BY <1>2, <1>3 DEF UpPipe
<1>9. UpWhole(kind', chan') => UpWhole(kind, chan)
  BY <1>2 DEF UpWhole
<1>10. UpInv' /\ UpStep
  BY <1>0, <1>2, <1>6, <1>8, <1>9, UpKept
<1> QED
  BY <1>4, <1>5, <1>7, <1>10 DEF FramingStep, FramingInv

\* The server takes the first message out of its buffer.
LEMMA ServerTakes ==
  ASSUME Typed, UpInv, Fate("up") = "open", HasMessage(buf["server"]),
         buf' = [buf EXCEPT !["server"] = Rest(@)],
         UNCHANGED <<kind, sent, chan>>
  PROVE  LET m == FirstMessage(buf["server"])
             q == UpPipe(kind', chan', buf')
         IN  /\ m \in Carried /\ q \in Seq(Bytes)
             /\ Splits(UpPipe(kind, chan, buf), Frame(m), q)
             /\ buf' \in [Buffers -> Seq(Bytes)]
             /\ \A x \in Buffers : x # "server" => buf'[x] = buf[x]
<1> DEFINE b == buf["server"]
           m == FirstMessage(b)
           R == Rest(b)
           d == chan["upload"].data
           t == IF kind = "h3" /\ chan["upload"].over = "no"
                THEN buf["local"] \o chan["stdin"].data ELSE <<>>
<1>1. b \in Seq(Bytes) /\ R \in Seq(Bytes) /\ m \in Carried
  BY Parts, TakenTyped
<1>2. buf' = [buf EXCEPT !["server"] = R]
  BY DEF Typed, Buffers
<1>3. /\ buf' \in [Buffers -> Seq(Bytes)] /\ buf'["server"] = R
      /\ \A x \in Buffers : x # "server" => buf'[x] = buf[x]
  <2> HIDE DEF R
  <2> QED
    BY <1>1, <1>2, BufChanged DEF Buffers
<1>4. d \in Seq(Bytes) /\ t \in Seq(Bytes)
  <2>1. \A x, y \in Seq(Bytes) : x \o y \in Seq(Bytes) /\ <<>> \in Seq(Bytes)
    BY Joined
  <2> QED
    BY <2>1, Parts
<1>5. UpPipe(kind, chan, buf) = (b \o d) \o t
  BY DEF UpPipe
<1>6. UpPipe(kind', chan', buf') = (R \o d) \o t
  <2>1. buf'["local"] = buf["local"] /\ buf'["server"] = R
    BY <1>3 DEF Buffers
  <2>2. kind' = kind /\ chan' = chan
    OBVIOUS
  <2> DEFINE nb == buf'
  <2>3. nb["local"] = buf["local"] /\ nb["server"] = R
    BY <2>1
  <2> HIDE DEF R, nb
  <2>4. UpPipe(kind, chan, nb) = (R \o d) \o t
    BY <2>3 DEF UpPipe
  <2> QED
    BY <2>2, <2>4 DEF nb
<1>7. Flow((b \o d) \o t, sent["up"], UpFirst(status, received),
           UpWhole(kind, chan))
  BY <1>5 DEF UpInv, UpFlows
<1>8. /\ (R \o d) \o t \in Seq(Bytes)
      /\ Splits((b \o d) \o t, Frame(m), (R \o d) \o t)
  <2> DEFINE p == (b \o d) \o t
             f == UpFirst(status, received)
             w == UpWhole(kind, chan)
             s == sent["up"]
  <2>1. Flow(p, s, f, w) /\ p = (b \o d) \o t /\ HasMessage(b)
    BY <1>7
  <2> HIDE DEF p, f, w, s, b, d, t
  <2>2. /\ (Rest(b) \o d) \o t \in Seq(Bytes)
        /\ Splits(p, Frame(FirstMessage(b)), (Rest(b) \o d) \o t)
    BY <1>1, <1>4, <2>1, FrontTaken
  <2> QED
    BY <2>2 DEF p
<1> QED
  BY <1>1, <1>3, <1>5, <1>6, <1>8

\* The server takes the first message of its pipe.
LEMMA ServerReceivesKeeps ==
  ASSUME FramingInv, ServerReceives
  PROVE  FramingStep
<1>0. Typed /\ Sides /\ UpInv /\ DownInv
  BY Start
<1> DEFINE b == buf["server"]
           m == FirstMessage(b)
           q == UpPipe(kind', chan', buf')
<1>1. /\ HasMessage(b) /\ status.server = "up"
      /\ received' = [received EXCEPT !["up"] = Append(received["up"], m)]
      /\ buf' = [buf EXCEPT !["server"] = Rest(@)]
      /\ UNCHANGED <<kind, sent, chan, dirty, status>>
  BY <1>0 DEF ServerReceives, Typed, Dirs
<1>2. /\ m \in Carried /\ q \in Seq(Bytes)
      /\ Splits(UpPipe(kind, chan, buf), Frame(m), q)
      /\ buf' \in [Buffers -> Seq(Bytes)]
      /\ \A x \in Buffers : x # "server" => buf'[x] = buf[x]
  <2>1. Fate("up") = "open"
    BY <1>1 DEF Fate
  <2> QED
    BY <1>0, <1>1, <2>1, ServerTakes
<1>3. /\ buf'["client"] = buf["client"] /\ buf'["local"] = buf["local"]
      /\ buf'["batch"] = buf["batch"] /\ buf'["output"] = buf["output"]
      /\ buf'["bridge"] = buf["bridge"]
  BY <1>2 DEF Buffers
<1> HIDE DEF m
<1>4. /\ received'["down"] = received["down"]
      /\ received'["up"] = Append(received["up"], m)
  BY <1>0, <1>1 DEF Typed, Dirs
<1>5. DownInv' /\ DownStep
  BY <1>0, <1>1, <1>3, <1>4, DownIdle
<1>6. UpInv' /\ UpStep /\ received'["up"] \in Seq(Messages)
  <2>1. /\ UpPipe(kind, chan, buf) = Frame(m) \o q
        /\ UpPipe(kind', chan', buf') = q
    BY <1>2 DEF Splits
  <2>2. UpWhole(kind', chan') => UpWhole(kind, chan)
    BY <1>1 DEF UpWhole
  <2>3. sent'["up"] = sent["up"] /\ status'.server = "up"
    BY <1>1
  <2> HIDE DEF q
  <2> QED
    BY <1>0, <1>1, <1>2, <1>4, <2>1, <2>2, <2>3, UpTaken
<1>7. Typed'
  <2>1. received' \in [Dirs -> Seq(Messages)]
    BY <1>0, <1>1, <1>4, <1>6 DEF Typed, Dirs
  <2> QED
    BY <1>0, <1>1, <1>2, <2>1 DEF Typed
<1>8. Sides'
  BY <1>0, <1>1, <1>3, <1>4 DEF Sides
<1> QED
  BY <1>5, <1>6, <1>7, <1>8 DEF FramingStep, FramingInv

\* The server takes the token; message 1 is next, and nothing behind it
\* is lost.
LEMMA ServerAdmitsKeeps ==
  ASSUME FramingInv, ServerAdmits
  PROVE  FramingStep
<1>0. Typed /\ Sides /\ UpInv /\ DownInv
  BY Start
<1> DEFINE b == buf["server"]
           m == FirstMessage(b)
           q == UpPipe(kind', chan', buf')
<1>1. /\ HasMessage(b) /\ status.server = "gate"
      /\ status' = [status EXCEPT !.server = "up"]
      /\ buf' = [buf EXCEPT !["server"] = Rest(@)]
      /\ UNCHANGED <<kind, sent, received, chan, dirty>>
  BY DEF ServerAdmits
<1>2. /\ status'.server = "up" /\ status'.client = status.client
      /\ status'.bridge = status.bridge
  BY <1>0, <1>1 DEF Typed
<1>3. Fate("up") = "open" /\ Fate("up")' = "open"
  BY <1>1, <1>2 DEF Fate
<1>4. /\ m \in Carried /\ q \in Seq(Bytes)
      /\ Splits(UpPipe(kind, chan, buf), Frame(m), q)
      /\ buf' \in [Buffers -> Seq(Bytes)]
      /\ \A x \in Buffers : x # "server" => buf'[x] = buf[x]
  BY <1>0, <1>1, <1>3, ServerTakes
<1>5. /\ buf'["client"] = buf["client"] /\ buf'["local"] = buf["local"]
      /\ buf'["batch"] = buf["batch"] /\ buf'["output"] = buf["output"]
      /\ buf'["bridge"] = buf["bridge"]
  BY <1>4 DEF Buffers
<1>6. DownInv' /\ DownStep
  BY <1>0, <1>1, <1>2, <1>5, DownIdle
<1>7. received["up"] = <<>>
  BY <1>0, <1>1 DEF Sides
<1>8. /\ UpFirst(status, received) = 0 /\ UpFirst(status', received') = 1
  <2>1. Len(<<>>) + 1 = 1
    OBVIOUS
  <2> QED
    BY <1>1, <1>2, <1>7, <2>1 DEF UpFirst
<1>9. UpFlows'
  <2> DEFINE p == UpPipe(kind, chan, buf)
             s == sent["up"]
             w == UpWhole(kind, chan)
  <2>1. Flow(p, s, 0, w) /\ p = Frame(m) \o q
    BY <1>0, <1>3, <1>4, <1>8 DEF UpInv, UpFlows, Splits
  <2>2. UpWhole(kind', chan') => w
    BY <1>1 DEF UpWhole
  <2>3. sent'["up"] = s
    BY <1>1
  <2> HIDE DEF p, s, w, m, q
  <2>4. Flow(q, s, 0 + 1, w)
    BY <1>4, <2>1, FlowTaken
  <2>5. Flow(q, s, 1, UpWhole(kind', chan'))
    BY <2>2, <2>4, FlowWeaker
  <2> QED
    BY <1>8, <2>3, <2>5 DEF UpFlows, q
<1>10. UpInv' /\ UpStep
  BY <1>0, <1>1, <1>3, <1>9 DEF UpInv, UpStep, Upward!vars
<1>11. Typed'
  <2>1. status' \in [client : {"up", "closed", "failed", "left"},
                 bridge : {"none", "connecting", "up", "gone"},
                 server : {"none", "gate", "up", "closed", "failed", "left"}]
    BY <1>0, <1>1 DEF Typed
  <2> QED
    BY <1>0, <1>1, <1>4, <2>1 DEF Typed
<1>12. Sides'
  BY <1>0, <1>1, <1>2, <1>5 DEF Sides
<1> QED
  BY <1>6, <1>10, <1>11, <1>12 DEF FramingStep, FramingInv

\* The server closes; HTTP/2 as "closed" only when it has received all.
LEMMA ServerClosesKeeps ==
  ASSUME FramingInv, NEW why \in {"closed", "failed", "left"},
         ServerCloses(why),
         kind = "h2" /\ why = "closed" =>
           chan["upload"].over # "no" /\ received["up"] = sent["up"]
  PROVE  FramingStep
<1>0. Typed /\ Sides /\ UpInv /\ DownInv /\ kind \in {"h2", "h3"}
  BY Start
<1>1. /\ status.server \in {"gate", "up"}
      /\ status' = [status EXCEPT !.server = why]
      /\ UNCHANGED <<kind, sent, received, buf, dirty>>
  BY DEF ServerCloses
<1> DEFINE c == ServerOut
<1>2. /\ c \in Chans /\ c \in {"queue", "download"}
      /\ kind = "h2" => c = "queue"
      /\ kind = "h3" => c = "download"
  BY DEF ServerOut, Chans
<1>3. PICK how \in {"end", "error"} :
        /\ kind = "h2" => how = "end"
        /\ chan' = [chan EXCEPT ![c] = Over(chan[c], how)]
  BY <1>0, <1>2 DEF ServerCloses, Typed
<1> HIDE DEF c
<1>4. chan[c] \in Channels
  BY <1>0, <1>2, Parts
<1>5. Over(chan[c], how) \in Channels
  BY <1>4, OverFacts
<1>6. /\ chan' \in [Chans -> Channels] /\ chan'[c] = Over(chan[c], how)
      /\ \A x \in Chans : x # c => chan'[x] = chan[x]
  BY <1>0, <1>2, <1>3, <1>5, ChanChanged
<1>7. \A x \in {"upload", "stdin", "stdout"} : chan'[x] = chan[x]
  BY <1>2, <1>6 DEF Chans
<1>8. /\ status'.client = status.client /\ status'.bridge = status.bridge
      /\ status'.server = why
  BY <1>0, <1>1 DEF Typed
<1>9. Typed'
  <2>1. status' \in [client : {"up", "closed", "failed", "left"},
                 bridge : {"none", "connecting", "up", "gone"},
                 server : {"none", "gate", "up", "closed", "failed", "left"}]
    BY <1>0, <1>1 DEF Typed
  <2> QED
    BY <1>0, <1>1, <1>6, <2>1 DEF Typed
<1>10. kind = "h2" => /\ chan'["queue"].over # "no"
                      /\ chan'["queue"].data = chan["queue"].data
                      /\ chan'["download"] = chan["download"]
  <2> SUFFICES ASSUME kind = "h2"
               PROVE  /\ chan'["queue"].over # "no"
                      /\ chan'["queue"].data = chan["queue"].data
                      /\ chan'["download"] = chan["download"]
    OBVIOUS
  <2>1. c = "queue" /\ how = "end" /\ chan["queue"] \in Channels
    BY <1>2, <1>3, <1>4
  <2>2. chan'["queue"] = Over(chan["queue"], "end")
    BY <1>6, <2>1
  <2>3. chan'["queue"].data = chan["queue"].data
    BY <2>1, <2>2 DEF Over
  <2> QED
    BY <1>6, <2>1, <2>2, <2>3, OverFacts DEF Chans
<1>11. kind = "h3" => chan'["queue"] = chan["queue"]
  BY <1>2, <1>6 DEF Chans
<1>12. Sides'
  BY <1>0, <1>1, <1>7, <1>8, <1>10, <1>11 DEF Sides
<1>13. UpInv' /\ UpStep
  <2>1. Fate("up") = "open"
    BY <1>1 DEF Fate
  <2>2. \/ Fate("up")' = "cut"
        \/ Fate("up")' = "complete" /\ received["up"] = sent["up"]
    BY <1>1, <1>8 DEF Fate
  <2> QED
    BY <1>0, <1>1, <2>1, <2>2, UpDone
<1>14. Fate("down")' = Fate("down")
  BY <1>8 DEF Fate
<1>15. DownInv' /\ DownStep
  <2>1. CASE kind = "h2"
    <3>1. /\ DownPipe(kind', chan', buf') = DownPipe(kind, chan, buf)
          /\ DownWhole(kind', chan') => DownWhole(kind, chan)
      BY <1>1, <1>10, <2>1 DEF DownPipe, DownWhole
    <3> QED
      BY <1>0, <1>1, <1>14, <3>1, DownKept
  <2>2. CASE kind = "h3"
    <3>1. chan'["download"] = Over(chan["download"], how)
      BY <1>2, <1>6, <2>2
    <3> QED
      BY <1>0, <1>1, <1>7, <1>14, <2>2, <3>1, DownFar
  <2> QED
    BY <1>0, <2>1, <2>2
<1> QED
  BY <1>9, <1>12, <1>13, <1>15 DEF FramingStep, FramingInv

\* HTTP/2: behind an upload that has ended nothing is missing.
LEMMA ServerSeesEndKeeps ==
  ASSUME FramingInv, ServerSeesEnd
  PROVE  FramingStep
<1>0. Typed /\ Sides /\ UpInv /\ DownInv /\ kind \in {"h2", "h3"}
  BY Start
<1> DEFINE why == IF chan["upload"].over = "end" /\ buf["server"] = <<>>
                  THEN "closed" ELSE "failed"
<1>1. /\ Starved("server", "upload") /\ ServerCloses(why)
      /\ status.server \in {"gate", "up"}
  BY DEF ServerSeesEnd, ServerCloses
<1>2. why \in {"closed", "failed", "left"}
  OBVIOUS
<1>3. ASSUME kind = "h2", why = "closed"
      PROVE  chan["upload"].over # "no" /\ received["up"] = sent["up"]
  <2>1. chan["upload"].over = "end" /\ buf["server"] = <<>>
    BY <1>3
  <2>2. status.server = "up"
    BY <1>0, <1>1, <1>3 DEF Sides
  <2> DEFINE b == buf["server"]
             u == chan["upload"].data
             s == sent["up"]
             rc == received["up"]
             f == Len(rc) + 1
             w == UpWhole(kind, chan)
             p == UpPipe(kind, chan, buf)
  <2>3. b \in Seq(Bytes) /\ u \in Seq(Bytes) /\ s \in Seq(Messages)
        /\ rc \in Seq(Messages)
    BY <1>0, Parts
  <2>4. p = (b \o u) \o <<>>
    BY <1>3 DEF UpPipe
  <2>5. (b \o u) \o <<>> = b \o u
    <3>1. b \o u \in Seq(Bytes)
      BY <2>3, Joined
    <3> DEFINE bu == b \o u
    <3> HIDE DEF bu
    <3>2. bu \o <<>> = bu
      BY <3>1, Joined DEF bu
    <3> QED
      BY <3>2 DEF bu
  <2>6. Flow(p, s, f, w) /\ w
    BY <1>0, <1>3, <2>1, <2>2 DEF UpInv, UpFlows, UpFirst, Fate, UpWhole
  <2>7. /\ Garbled(b) \/ (~HasMessage(b) /\ u = <<>>)
    BY <1>1 DEF Starved, AtEnd
  <2> HIDE DEF b, u, p, f, w
  <2>8. /\ ~Garbled(b)
        /\ w /\ u = <<>> /\ ~HasMessage(b) => Len(b) = 0 /\ f = Len(s) + 1
    BY <2>3, <2>4, <2>5, <2>6, FlowEnds
  <2>9. f = Len(s) + 1
    BY <2>6, <2>7, <2>8
  <2>10. InOrder(rc, s) /\ Len(rc) + 1 = Len(s) + 1
    BY <1>0, <2>9 DEF f, UpInv
  <2> QED
    BY <2>1, <2>3, <2>10, OrderEnds
<1> HIDE DEF why
<1> QED
  BY <1>1, <1>2, <1>3, ServerClosesKeeps

\* The server leaves of its own accord.
LEMMA ServerLeavesKeeps ==
  ASSUME FramingInv, ServerLeaves
  PROVE  FramingStep
  BY ServerClosesKeeps DEF ServerLeaves

-----------------------------------------------------------------------------
(* The batch task                                                          *)

\* A message goes from the queue to the batch.
LEMMA BatchTakesKeeps ==
  ASSUME FramingInv, BatchTakes
  PROVE  FramingStep
<1>0. Typed /\ Sides /\ UpInv /\ DownInv /\ kind \in {"h2", "h3"}
  BY Start
<1> DEFINE g == chan["queue"].data
           m == FirstMessage(g)
           F == Frame(m)
           R == Rest(g)
           l == buf["batch"]
<1>1. /\ HasMessage(g)
      /\ buf' = [buf EXCEPT !["batch"] = l \o F]
      /\ chan' = [chan EXCEPT !["queue"] = [chan["queue"] EXCEPT !.data = R]]
      /\ UNCHANGED <<kind, sent, received, dirty, status>>
  BY <1>0 DEF BatchTakes, Typed, Buffers, Chans
<1>2. /\ g \in Seq(Bytes) /\ l \in Seq(Bytes) /\ chan["queue"] \in Channels
      /\ "queue" \in Chans /\ "batch" \in Buffers
  BY <1>0, Parts
<1>3. m \in Carried /\ F \in Seq(Bytes) /\ R \in Seq(Bytes)
  BY <1>1, <1>2, TakenTyped
<1>4. kind = "h2"
  <2>1. HEADER \in Nat \ {0} /\ Len(<<>>) = 0
    BY FramingAssumption
  <2>2. g # <<>>
    BY <1>1, <2>1 DEF HasMessage
  <2> QED
    BY <1>0, <2>2 DEF Sides
<1>5. l \o F \in Seq(Bytes)
  BY <1>2, <1>3, Joined
<1> HIDE DEF m, F, R
<1>6. /\ buf' \in [Buffers -> Seq(Bytes)] /\ buf'["batch"] = l \o F
      /\ \A x \in Buffers : x # "batch" => buf'[x] = buf[x]
  <2> DEFINE lf == l \o F
  <2>1. lf \in Seq(Bytes) /\ buf' = [buf EXCEPT !["batch"] = lf]
    BY <1>1, <1>5
  <2> HIDE DEF lf
  <2>2. /\ buf' \in [Buffers -> Seq(Bytes)] /\ buf'["batch"] = lf
        /\ \A x \in Buffers : x # "batch" => buf'[x] = buf[x]
    BY <1>0, <1>2, <2>1, BufChanged
  <2> QED
    BY <2>2 DEF lf
<1>7. /\ chan' \in [Chans -> Channels] /\ chan'["queue"].data = R
      /\ chan'["queue"].over = chan["queue"].over
      /\ \A x \in Chans : x # "queue" => chan'[x] = chan[x]
  <2> DEFINE v == [chan["queue"] EXCEPT !.data = R]
  <2>1. v \in Channels /\ v.data = R /\ v.over = chan["queue"].over
    BY <1>2, <1>3 DEF Channels
  <2>2. chan' = [chan EXCEPT !["queue"] = v]
    BY <1>1
  <2> HIDE DEF v
  <2>3. /\ chan' \in [Chans -> Channels] /\ chan'["queue"] = v
        /\ \A x \in Chans : x # "queue" => chan'[x] = chan[x]
    BY <1>0, <1>2, <2>1, <2>2, ChanChanged
  <2> QED
    BY <2>1, <2>3
<1>8. /\ buf'["client"] = buf["client"] /\ buf'["local"] = buf["local"]
      /\ buf'["server"] = buf["server"]
      /\ chan'["stdin"] = chan["stdin"] /\ chan'["stdout"] = chan["stdout"]
      /\ chan'["upload"] = chan["upload"] /\ chan'["download"] = chan["download"]
  BY <1>6, <1>7 DEF Buffers, Chans
<1>9. Typed'
  BY <1>0, <1>1, <1>6, <1>7 DEF Typed
<1>10. Sides'
  BY <1>0, <1>1, <1>4, <1>7, <1>8 DEF Sides
<1>11. Fate("up")' = Fate("up") /\ Fate("down")' = Fate("down")
  BY <1>1, SameFates
<1>12. UpInv' /\ UpStep
  BY <1>0, <1>1, <1>8, <1>11, UpIdle
<1>13. DownWhole(kind', chan') => DownWhole(kind, chan)
  BY <1>1, <1>8 DEF DownWhole
<1>14. ASSUME Fate("down") = "open"
       PROVE  DownPipe(kind', chan', buf') = DownPipe(kind, chan, buf)
  <2> DEFINE a == buf["client"] \o chan["download"].data
  <2>1. CASE chan["download"].over # "no"
    <3> DEFINE nb == buf'
               nc == chan'
    <3>1. nb["client"] = buf["client"] /\ nc["download"] = chan["download"]
      BY <1>8
    <3> HIDE DEF nb, nc
    <3>2. DownPipe(kind, nc, nb) = DownPipe(kind, chan, buf)
      BY <1>4, <2>1, <3>1 DEF DownPipe
    <3> QED
      BY <1>1, <3>2 DEF nb, nc
  <2>2. CASE chan["download"].over = "no"
    <3>1. DownPipe(kind, chan, buf) = a \o (l \o g)
      BY <1>4, <2>2 DEF DownPipe
    <3>2. DownPipe(kind', chan', buf') = a \o ((l \o F) \o R)
      <4> DEFINE nb == buf'
                 nc == chan'
      <4>1. /\ nb["batch"] = l \o F /\ nc["queue"].data = R
            /\ nb["client"] = buf["client"]
            /\ nc["download"] = chan["download"]
        BY <1>6, <1>7, <1>8
      <4> HIDE DEF nb, nc
      <4>2. DownPipe(kind, nc, nb) = a \o ((l \o F) \o R)
        BY <1>4, <2>2, <4>1 DEF DownPipe
      <4> QED
        BY <1>1, <4>2 DEF nb, nc
    <3>3. a \in Seq(Bytes)
      BY <1>0, Parts, Joined
    <3>4. Flow(a \o (l \o g), sent["down"], Len(received["down"]) + 1,
               DownWhole(kind, chan))
      BY <1>0, <1>14, <3>1 DEF DownInv, DownFlows
    <3> HIDE DEF a, l, g
    <3>5. Splits(g, F, R)
      <4> DEFINE p == a \o (l \o g)
                 f == Len(received["down"]) + 1
                 w == DownWhole(kind, chan)
                 s == sent["down"]
                 al == a \o l
                 z == <<>>
      <4>1. Flow(p, s, f, w)
        BY <3>4
      <4>2. al \in Seq(Bytes) /\ p = al \o g /\ z \in Seq(Bytes)
        <5>1. Same((a \o l) \o g, a \o (l \o g))
          BY <1>2, <3>3, Regroup
        <5>2. a \o l \in Seq(Bytes) /\ <<>> \in Seq(Bytes)
          BY <1>2, <3>3, Joined
        <5> QED
          BY <5>1, <5>2 DEF Same
      <4> HIDE DEF al
      <4>3. al \o g \in Seq(Bytes) /\ (al \o g) \o z = al \o g
        <5>1. al \o g \in Seq(Bytes)
          BY <1>2, <4>2, Joined
        <5> DEFINE ag == al \o g
        <5> HIDE DEF ag
        <5>2. ag \o <<>> = ag
          BY <5>1, Joined DEF ag
        <5> QED
          BY <5>1, <5>2 DEF ag
      <4>4. p = (al \o g) \o z
        BY <4>2, <4>3
      <4> HIDE DEF p, f, w, s, z
      <4>5. Splits(g, Frame(FirstMessage(g)), Rest(g))
        BY <1>1, <1>2, <4>1, <4>2, <4>4, FrameAtFront
      <4> QED
        BY <4>5 DEF F, R, m
    <3>6. (l \o F) \o R = l \o (F \o R)
      <4>1. Same((l \o F) \o R, l \o (F \o R))
        BY <1>2, <1>3, Regroup
      <4> QED
        BY <4>1 DEF Same
    <3> QED
      BY <3>1, <3>2, <3>5, <3>6 DEF Splits
  <2> QED
    BY <2>1, <2>2
<1>15. DownInv' /\ DownStep
  BY <1>0, <1>1, <1>11, <1>13, <1>14, DownKept
<1> QED
  BY <1>9, <1>10, <1>12, <1>15 DEF FramingStep, FramingInv

\* The batch goes to the download.
LEMMA BatchSendsKeeps ==
  ASSUME FramingInv, BatchSends
  PROVE  FramingStep
<1>0. Typed /\ Sides /\ UpInv /\ DownInv /\ kind \in {"h2", "h3"}
  BY Start
<1> DEFINE l == buf["batch"]
           z == <<>>
<1>1. /\ l # <<>>
      /\ buf' = [buf EXCEPT !["batch"] = z]
      /\ chan' = [chan EXCEPT !["download"] = Put(chan["download"], l)]
      /\ UNCHANGED <<kind, sent, received, dirty, status>>
  BY <1>0 DEF BatchSends, Typed, Chans
<1>2. /\ l \in Seq(Bytes) /\ chan["download"] \in Channels
      /\ "download" \in Chans /\ "batch" \in Buffers
      /\ chan["download"].data \in Seq(Bytes) /\ chan["queue"].data \in Seq(Bytes)
      /\ buf["client"] \in Seq(Bytes)
  BY <1>0, Parts
<1>3. z \in Seq(Bytes)
  BY <1>2, Joined
<1>4. kind = "h2"
  BY <1>0, <1>1 DEF Sides
<1>5. z = <<>>
  OBVIOUS
<1> HIDE DEF l, z
<1>6. /\ buf' \in [Buffers -> Seq(Bytes)] /\ buf'["batch"] = z
      /\ \A x \in Buffers : x # "batch" => buf'[x] = buf[x]
  BY <1>0, <1>1, <1>2, <1>3, BufChanged
<1> DEFINE v == Put(chan["download"], l)
<1>7. /\ v \in Channels /\ v.over = chan["download"].over
      /\ chan["download"].over = "no" => v.data = chan["download"].data \o l
      /\ chan["download"].over # "no" => v = chan["download"]
  BY <1>2, PutFacts
<1> HIDE DEF v
<1>8. /\ chan' \in [Chans -> Channels] /\ chan'["download"] = v
      /\ \A x \in Chans : x # "download" => chan'[x] = chan[x]
  BY <1>0, <1>1, <1>2, <1>7, ChanChanged DEF v
<1>9. /\ buf'["client"] = buf["client"] /\ buf'["local"] = buf["local"]
      /\ buf'["server"] = buf["server"]
      /\ chan'["stdin"] = chan["stdin"] /\ chan'["stdout"] = chan["stdout"]
      /\ chan'["upload"] = chan["upload"] /\ chan'["queue"] = chan["queue"]
  BY <1>6, <1>8 DEF Buffers, Chans
<1>10. Typed'
  BY <1>0, <1>1, <1>6, <1>8 DEF Typed
<1>11. Sides'
  BY <1>0, <1>1, <1>4, <1>7, <1>8, <1>9 DEF Sides
<1>12. Fate("up")' = Fate("up") /\ Fate("down")' = Fate("down")
  BY <1>1, SameFates
<1>13. UpInv' /\ UpStep
  BY <1>0, <1>1, <1>9, <1>12, UpIdle
<1>14. DownWhole(kind', chan') => DownWhole(kind, chan)
  BY <1>1, <1>4, <1>7, <1>8 DEF DownWhole
<1>15. DownPipe(kind', chan', buf') = DownPipe(kind, chan, buf)
  <2> DEFINE a == buf["client"]
             u == chan["download"].data
             g == chan["queue"].data
             nb == buf'
             nc == chan'
  <2>1. /\ nb["batch"] = z /\ nb["client"] = a /\ nc["queue"].data = g
        /\ nc["download"] = v
    BY <1>6, <1>8, <1>9
  <2>2. CASE chan["download"].over # "no"
    <3> HIDE DEF nb, nc
    <3>1. DownPipe(kind, nc, nb) = DownPipe(kind, chan, buf)
      BY <1>4, <1>7, <2>1, <2>2 DEF DownPipe
    <3> QED
      BY <1>1, <3>1 DEF nb, nc
  <2>3. CASE chan["download"].over = "no"
    <3>1. DownPipe(kind, chan, buf) = (a \o u) \o (l \o g)
      BY <1>4, <2>3 DEF DownPipe, l
    <3> HIDE DEF nb, nc
    <3>2. DownPipe(kind, nc, nb) = (a \o (u \o l)) \o (z \o g)
      BY <1>4, <1>7, <2>1, <2>3 DEF DownPipe
    <3>3. Same((a \o (u \o l)) \o (z \o g), (a \o u) \o ((l \o z) \o g))
      <4>1. /\ a \in Seq(Bytes) /\ u \in Seq(Bytes) /\ g \in Seq(Bytes)
            /\ l \in Seq(Bytes) /\ z \in Seq(Bytes)
        BY <1>2, <1>3
      <4> HIDE DEF a, u, g
      <4> QED
        BY <4>1, HeadMoves
    <3>4. l \o z = l
      BY <1>2, <1>5, Joined
    <3> QED
      BY <1>1, <3>1, <3>2, <3>3, <3>4 DEF nb, nc, Same
  <2> QED
    BY <2>2, <2>3
<1>16. DownInv' /\ DownStep
  BY <1>0, <1>1, <1>12, <1>14, <1>15, DownKept
<1> QED
  BY <1>10, <1>11, <1>13, <1>16 DEF FramingStep, FramingInv

\* The download ends when queue and batch are empty.
LEMMA BatchEndsKeeps ==
  ASSUME FramingInv, BatchEnds
  PROVE  FramingStep
<1>0. Typed /\ Sides /\ UpInv /\ DownInv /\ kind \in {"h2", "h3"}
  BY Start
<1> DEFINE v == Over(chan["download"], "end")
<1>1. /\ kind = "h2" /\ AtEnd(chan["queue"]) /\ buf["batch"] = <<>>
      /\ chan["download"].over = "no"
      /\ chan' = [chan EXCEPT !["download"] = v]
      /\ UNCHANGED <<kind, sent, received, buf, dirty, status>>
  BY <1>0 DEF BatchEnds, Typed, Chans
<1>2. /\ chan["download"] \in Channels /\ "download" \in Chans
      /\ chan["download"].data \in Seq(Bytes)
      /\ buf["client"] \in Seq(Bytes)
  BY <1>0, Parts
<1>3. /\ v \in Channels /\ v.over = "end" /\ v.data = chan["download"].data
  BY <1>1, <1>2, OverFacts
<1> HIDE DEF v
<1>4. /\ chan' \in [Chans -> Channels] /\ chan'["download"] = v
      /\ \A x \in Chans : x # "download" => chan'[x] = chan[x]
  BY <1>0, <1>1, <1>2, <1>3, ChanChanged
<1>5. /\ chan'["stdin"] = chan["stdin"] /\ chan'["stdout"] = chan["stdout"]
      /\ chan'["upload"] = chan["upload"] /\ chan'["queue"] = chan["queue"]
  BY <1>4 DEF Chans
<1>6. chan["queue"].over # "no" /\ chan["queue"].data = <<>>
  BY <1>1 DEF AtEnd
<1>7. Typed'
  BY <1>0, <1>1, <1>4 DEF Typed
<1>8. Sides'
  BY <1>0, <1>1, <1>5, <1>6 DEF Sides
<1>9. Fate("up")' = Fate("up") /\ Fate("down")' = Fate("down")
  BY <1>1, SameFates
<1>10. UpInv' /\ UpStep
  BY <1>0, <1>1, <1>5, <1>9, UpIdle
<1>11. DownWhole(kind', chan') => DownWhole(kind, chan)
  BY <1>1 DEF DownWhole
<1>12. DownPipe(kind', chan', buf') = DownPipe(kind, chan, buf)
  <2> DEFINE a == buf["client"] \o chan["download"].data
             nc == chan'
  <2>1. <<>> \o <<>> = <<>>
    BY <1>2, Joined
  <2>2. DownPipe(kind, chan, buf) = a \o (<<>> \o <<>>)
    BY <1>1, <1>6 DEF DownPipe
  <2>3. nc["download"].data = chan["download"].data /\ nc["download"].over = "end"
    BY <1>3, <1>4
  <2> HIDE DEF nc
  <2>4. DownPipe(kind, nc, buf) = a \o <<>>
    BY <1>1, <2>3 DEF DownPipe
  <2> QED
    BY <1>1, <2>1, <2>2, <2>4 DEF nc
<1>13. DownInv' /\ DownStep
  BY <1>0, <1>1, <1>9, <1>11, <1>12, DownKept
<1> QED
  BY <1>7, <1>8, <1>10, <1>13 DEF FramingStep, FramingInv

-----------------------------------------------------------------------------
(* The bridge                                                              *)

\* The token is sent: the server waits at the gate, and message 0 is first.
LEMMA BridgeConnectsKeeps ==
  ASSUME FramingInv, BridgeConnects
  PROVE  FramingStep
<1>0. Typed /\ Sides /\ UpInv /\ DownInv /\ kind \in {"h2", "h3"}
  BY Start
<1> DEFINE F == Frame(Token)
           T == buf["local"] \o chan["stdin"].data
           z == <<>>
           v == Put(chan["upload"], F)
<1>1. /\ status.bridge = "connecting"
      /\ status' = [status EXCEPT !.bridge = "up", !.server = "gate"]
      /\ chan' = [chan EXCEPT !["upload"] = v]
      /\ UNCHANGED <<kind, sent, received, buf, dirty>>
  BY <1>0 DEF BridgeConnects, Typed, Chans
<1>2. /\ kind = "h3" /\ status.server = "none" /\ buf["server"] = z
      /\ chan["upload"].data = z /\ chan["upload"].over = "no"
      /\ received["up"] = z
  BY <1>0, <1>1 DEF Sides
<1>3. F \in Seq(Bytes) /\ T \in Seq(Bytes) /\ z \in Seq(Bytes)
  BY <1>0, Parts, Joined, FrameBytes DEF Carried
<1>4. z \o z = z /\ z \o F = F /\ z \o T = T /\ Len(z) + 1 = 1
  <2> HIDE DEF F, T
  <2> QED
    BY <1>3, Joined
<1>5. chan["upload"] \in Channels /\ "upload" \in Chans
  BY <1>0, Parts
<1> HIDE DEF F, T
<1>6. v \in Channels /\ v.over = "no" /\ v.data = z \o F
  BY <1>2, <1>3, <1>5, PutFacts
<1> HIDE DEF v, z
<1>7. /\ chan' \in [Chans -> Channels] /\ chan'["upload"] = v
      /\ \A x \in Chans : x # "upload" => chan'[x] = chan[x]
  BY <1>0, <1>1, <1>5, <1>6, ChanChanged
<1>8. /\ chan'["stdin"] = chan["stdin"] /\ chan'["stdout"] = chan["stdout"]
      /\ chan'["queue"] = chan["queue"] /\ chan'["download"] = chan["download"]
  BY <1>7 DEF Chans
<1>9. /\ status'.server = "gate" /\ status'.client = status.client
      /\ status'.bridge = "up"
  BY <1>0, <1>1 DEF Typed
<1>10. Typed'
  <2>1. status' \in [client : {"up", "closed", "failed", "left"},
                 bridge : {"none", "connecting", "up", "gone"},
                 server : {"none", "gate", "up", "closed", "failed", "left"}]
    BY <1>0, <1>1 DEF Typed
  <2> QED
    BY <1>0, <1>1, <1>7, <2>1 DEF Typed
<1>11. Sides'
  BY <1>0, <1>1, <1>2, <1>8, <1>9 DEF Sides, z
<1>12. DownInv' /\ DownStep
  BY <1>0, <1>1, <1>8, <1>9, DownIdle
<1>13. Fate("up") = "open" /\ Fate("up")' = "open"
  BY <1>1, <1>2, <1>9 DEF Fate
<1>14. UpFirst(status, received) = 1 /\ UpFirst(status', received') = 0
  BY <1>1, <1>2, <1>4, <1>9 DEF UpFirst
<1>15. UpFlows'
  <2> DEFINE s == sent["up"]
             nc == chan'
  <2>1. UpPipe(kind, chan, buf) = (z \o z) \o T
    BY <1>2 DEF UpPipe, T
  <2>2. UpWhole(kind, chan)
    BY <1>2 DEF UpWhole
  <2>3. Flow(T, s, 1, TRUE)
    BY <1>0, <1>4, <1>13, <1>14, <2>1, <2>2, FlowWeaker DEF UpInv, UpFlows
  <2> HIDE DEF s
  <2>4. Flow(F \o T, s, 0, TRUE)
    BY <2>3, FlowWithToken DEF F
  <2>5. /\ nc["upload"].over = "no" /\ nc["upload"].data = F
        /\ nc["stdin"] = chan["stdin"]
    BY <1>4, <1>6, <1>7, <1>8
  <2> HIDE DEF nc
  <2>6. UpPipe(kind, nc, buf) = (z \o F) \o T
    BY <1>2, <2>5 DEF UpPipe, T
  <2>7. UpPipe(kind', chan', buf') = F \o T
    BY <1>1, <1>4, <2>6 DEF nc
  <2>8. Flow(F \o T, s, 0, UpWhole(kind', chan'))
    BY <2>4, FlowWeaker
  <2> QED
    BY <1>1, <1>14, <2>7, <2>8 DEF UpFlows, s
<1>16. UpInv' /\ UpStep
  BY <1>0, <1>1, <1>13, <1>15 DEF UpInv, UpStep, Upward!vars
<1> QED
  BY <1>10, <1>11, <1>12, <1>16 DEF FramingStep, FramingInv

\* A chunk of the client's bytes goes from stdin to the bridge's buffer.
LEMMA BridgeReadsLocalKeeps ==
  ASSUME FramingInv, BridgeReadsLocal
  PROVE  FramingStep
<1>0. Typed /\ Sides /\ UpInv /\ DownInv
  BY Start
<1>1. /\ "stdin" \in Chans /\ "local" \in Buffers
      /\ ReadChunk("local", "stdin") /\ status.bridge = "up"
  BY DEF BridgeReadsLocal, Chans, Buffers
<1>2. /\ buf' \in [Buffers -> Seq(Bytes)] /\ chan' \in [Chans -> Channels]
      /\ buf'["local"] \o chan'["stdin"].data
           = buf["local"] \o chan["stdin"].data
      /\ chan'["stdin"].over = chan["stdin"].over
      /\ \A x \in Buffers : x # "local" => buf'[x] = buf[x]
      /\ \A x \in Chans : x # "stdin" => chan'[x] = chan[x]
      /\ UNCHANGED <<kind, sent, received, dirty, status>>
  BY <1>0, <1>1, ReadFacts
<1>3. /\ buf'["client"] = buf["client"] /\ buf'["server"] = buf["server"]
      /\ buf'["batch"] = buf["batch"] /\ buf'["output"] = buf["output"]
      /\ buf'["bridge"] = buf["bridge"]
      /\ chan'["upload"] = chan["upload"] /\ chan'["stdout"] = chan["stdout"]
      /\ chan'["queue"] = chan["queue"] /\ chan'["download"] = chan["download"]
  BY <1>2 DEF Buffers, Chans
<1>4. Typed'
  BY <1>0, <1>2 DEF Typed
<1>5. Sides'
  BY <1>0, <1>1, <1>2, <1>3 DEF Sides
<1>6. /\ Fate("up")' = Fate("up") /\ Fate("down")' = Fate("down")
      /\ UpFirst(status', received') = UpFirst(status, received)
  BY <1>2, SameFates
<1>7. DownInv' /\ DownStep
  BY <1>0, <1>2, <1>3, DownIdle
<1>8. UpPipe(kind', chan', buf') = UpPipe(kind, chan, buf)
  BY <1>2, <1>3 DEF UpPipe
<1>9. UpWhole(kind', chan') => UpWhole(kind, chan)
  BY <1>2, <1>3 DEF UpWhole
<1>10. UpInv' /\ UpStep
  BY <1>0, <1>2, <1>6, <1>8, <1>9, UpKept
<1> QED
  BY <1>4, <1>5, <1>7, <1>10 DEF FramingStep, FramingInv

\* A chunk of the server's bytes goes from the stream to the bridge's buffer.
LEMMA BridgeReadsStreamKeeps ==
  ASSUME FramingInv, BridgeReadsStream
  PROVE  FramingStep
<1>0. Typed /\ Sides /\ UpInv /\ DownInv
  BY Start
<1>1. /\ "download" \in Chans /\ "bridge" \in Buffers
      /\ ReadChunk("bridge", "download") /\ status.bridge = "up"
      /\ kind = "h3"
  BY <1>0 DEF BridgeReadsStream, Chans, Buffers, Sides, Typed
<1>2. /\ buf' \in [Buffers -> Seq(Bytes)] /\ chan' \in [Chans -> Channels]
      /\ buf'["bridge"] \o chan'["download"].data
           = buf["bridge"] \o chan["download"].data
      /\ chan'["download"].over = chan["download"].over
      /\ \A x \in Buffers : x # "bridge" => buf'[x] = buf[x]
      /\ \A x \in Chans : x # "download" => chan'[x] = chan[x]
      /\ UNCHANGED <<kind, sent, received, dirty, status>>
  BY <1>0, <1>1, ReadFacts
<1>3. /\ buf'["client"] = buf["client"] /\ buf'["server"] = buf["server"]
      /\ buf'["batch"] = buf["batch"] /\ buf'["output"] = buf["output"]
      /\ buf'["local"] = buf["local"]
      /\ chan'["upload"] = chan["upload"] /\ chan'["stdout"] = chan["stdout"]
      /\ chan'["queue"] = chan["queue"] /\ chan'["stdin"] = chan["stdin"]
  BY <1>2 DEF Buffers, Chans
<1>4. Typed'
  BY <1>0, <1>2 DEF Typed
<1>5. Sides'
  BY <1>0, <1>1, <1>2, <1>3 DEF Sides
<1>6. /\ Fate("up")' = Fate("up") /\ Fate("down")' = Fate("down")
  BY <1>2, SameFates
<1>7. UpInv' /\ UpStep
  BY <1>0, <1>2, <1>3, <1>6, UpIdle
<1>8. DownPipe(kind', chan', buf') = DownPipe(kind, chan, buf)
  BY <1>1, <1>2, <1>3 DEF DownPipe
<1>9. DownWhole(kind', chan') => DownWhole(kind, chan)
  BY <1>2, <1>3 DEF DownWhole
<1>10. DownInv' /\ DownStep
  BY <1>0, <1>2, <1>6, <1>8, <1>9, DownKept
<1> QED
  BY <1>4, <1>5, <1>7, <1>10 DEF FramingStep, FramingInv

\* A message of the client goes from the bridge's buffer to the stream, unless
\* the stream is over: then it is outside the pipe, before and after.
LEMMA BridgeForwardsKeeps ==
  ASSUME FramingInv, BridgeForwards
  PROVE  FramingStep
<1>0. Typed /\ Sides /\ UpInv /\ DownInv
  BY Start
<1> DEFINE l == buf["local"]
           m == FirstMessage(l)
           F == Frame(m)
           R == Rest(l)
           v == Put(chan["upload"], F)
<1>1. /\ HasMessage(l) /\ status.bridge = "up" /\ kind = "h3"
      /\ buf' = [buf EXCEPT !["local"] = R]
      /\ chan' = [chan EXCEPT !["upload"] = v]
      /\ UNCHANGED <<kind, sent, received, dirty, status>>
  BY <1>0 DEF BridgeForwards, Typed, Buffers, Chans, Cancelled, Sides
<1>2. /\ l \in Seq(Bytes) /\ chan["upload"] \in Channels
      /\ "upload" \in Chans /\ "local" \in Buffers
      /\ chan["upload"].data \in Seq(Bytes) /\ chan["stdin"].data \in Seq(Bytes)
      /\ buf["server"] \in Seq(Bytes)
  BY <1>0, Parts
<1>3. m \in Carried /\ F \in Seq(Bytes) /\ R \in Seq(Bytes)
  BY <1>1, <1>2, TakenTyped
<1> HIDE DEF m, F, R
<1>4. /\ v \in Channels /\ v.over = chan["upload"].over
      /\ chan["upload"].over = "no" => v.data = chan["upload"].data \o F
      /\ chan["upload"].over # "no" => v = chan["upload"]
  BY <1>2, <1>3, PutFacts
<1> HIDE DEF v
<1>5. /\ buf' \in [Buffers -> Seq(Bytes)] /\ buf'["local"] = R
      /\ \A x \in Buffers : x # "local" => buf'[x] = buf[x]
  BY <1>0, <1>1, <1>2, <1>3, BufChanged
<1>6. /\ chan' \in [Chans -> Channels] /\ chan'["upload"] = v
      /\ \A x \in Chans : x # "upload" => chan'[x] = chan[x]
  BY <1>0, <1>1, <1>2, <1>4, ChanChanged
<1>7. /\ buf'["client"] = buf["client"] /\ buf'["server"] = buf["server"]
      /\ buf'["batch"] = buf["batch"] /\ buf'["output"] = buf["output"]
      /\ buf'["bridge"] = buf["bridge"]
      /\ chan'["stdin"] = chan["stdin"] /\ chan'["stdout"] = chan["stdout"]
      /\ chan'["queue"] = chan["queue"] /\ chan'["download"] = chan["download"]
  BY <1>5, <1>6 DEF Buffers, Chans
<1>8. Typed'
  BY <1>0, <1>1, <1>5, <1>6 DEF Typed
<1>9. Sides'
  BY <1>0, <1>1, <1>7 DEF Sides
<1>10. /\ Fate("up")' = Fate("up") /\ Fate("down")' = Fate("down")
       /\ UpFirst(status', received') = UpFirst(status, received)
  BY <1>1, SameFates
<1>11. DownInv' /\ DownStep
  BY <1>0, <1>1, <1>7, DownIdle
<1>12. UpWhole(kind', chan') => UpWhole(kind, chan)
  BY <1>1, <1>4, <1>6 DEF UpWhole
<1>13. ASSUME Fate("up") = "open"
       PROVE  UpPipe(kind', chan', buf') = UpPipe(kind, chan, buf)
  <2> DEFINE a == buf["server"]
             u == chan["upload"].data
             t == chan["stdin"].data
             nb == buf'
             nc == chan'
  <2>1. /\ nb["local"] = R /\ nb["server"] = a /\ nc["stdin"].data = t
        /\ nc["upload"] = v
    BY <1>5, <1>6, <1>7
  <2>2. CASE chan["upload"].over # "no"
    <3> HIDE DEF nb, nc
    <3>1. UpPipe(kind, nc, nb) = UpPipe(kind, chan, buf)
      BY <1>1, <1>4, <2>1, <2>2 DEF UpPipe
    <3> QED
      BY <1>1, <3>1 DEF nb, nc
  <2>3. CASE chan["upload"].over = "no"
    <3>1. UpPipe(kind, chan, buf) = (a \o u) \o (l \o t)
      BY <1>1, <2>3 DEF UpPipe
    <3> HIDE DEF nb, nc
    <3>2. UpPipe(kind, nc, nb) = (a \o (u \o F)) \o (R \o t)
      BY <1>1, <1>4, <2>1, <2>3 DEF UpPipe
    <3>3. /\ a \in Seq(Bytes) /\ u \in Seq(Bytes) /\ t \in Seq(Bytes)
      BY <1>2
    <3> DEFINE p == UpPipe(kind, chan, buf)
               s == sent["up"]
               f == UpFirst(status, received)
               w == UpWhole(kind, chan)
               e == a \o u
    <3>4. Flow(p, s, f, w)
      BY <1>0, <1>13 DEF UpInv, UpFlows
    <3>5. p = e \o (l \o t) /\ e \in Seq(Bytes)
      BY <3>1, <3>3, Joined
    <3> HIDE DEF l, a, u, t, p, s, f, w, e
    <3>6. p = (e \o l) \o t
      <4>1. Same((e \o l) \o t, e \o (l \o t))
        BY <1>2, <3>3, <3>5, Regroup
      <4> QED
        BY <3>5, <4>1 DEF Same
    <3>7. Splits(l, Frame(FirstMessage(l)), Rest(l))
      BY <1>1, <1>2, <3>3, <3>4, <3>5, <3>6, FrameAtFront
    <3>8. l = F \o R
      BY <3>7 DEF Splits, F, R, m
    <3>9. Same((a \o (u \o F)) \o (R \o t), (a \o u) \o ((F \o R) \o t))
      BY <1>3, <3>3, HeadMoves
    <3> QED
      BY <1>1, <3>1, <3>2, <3>8, <3>9 DEF nb, nc, Same
  <2> QED
    BY <2>2, <2>3
<1>14. UpInv' /\ UpStep
  BY <1>0, <1>1, <1>10, <1>12, <1>13, UpKept
<1> QED
  BY <1>8, <1>9, <1>11, <1>14 DEF FramingStep, FramingInv

\* The tick: what the BufWriter holds goes to stdout.
LEMMA BridgeFlushesKeeps ==
  ASSUME FramingInv, BridgeFlushes
  PROVE  FramingStep
<1>0. Typed /\ Sides /\ UpInv /\ DownInv
  BY Start
<1> DEFINE o == buf["output"]
           z == <<>>
           v == Put(chan["stdout"], o)
<1>1. /\ status.bridge = "up" /\ kind = "h3"
      /\ buf' = [buf EXCEPT !["output"] = z]
      /\ chan' = [chan EXCEPT !["stdout"] = v]
      /\ UNCHANGED <<kind, sent, received, status>>
  BY <1>0 DEF BridgeFlushes, Typed, Buffers, Chans, Cancelled, Sides
<1>2. /\ o \in Seq(Bytes) /\ chan["stdout"] \in Channels
      /\ "stdout" \in Chans /\ "output" \in Buffers
      /\ chan["stdout"].data \in Seq(Bytes)
      /\ chan["download"].data \in Seq(Bytes)
      /\ buf["client"] \in Seq(Bytes) /\ buf["bridge"] \in Seq(Bytes)
  BY <1>0, Parts
<1>3. z \in Seq(Bytes) /\ o \o z = o
  BY <1>2, Joined
<1> HIDE DEF o, z
<1>4. /\ v \in Channels /\ v.over = chan["stdout"].over
      /\ chan["stdout"].over = "no" => v.data = chan["stdout"].data \o o
      /\ chan["stdout"].over # "no" => v = chan["stdout"]
  BY <1>2, PutFacts
<1> HIDE DEF v
<1>5. /\ buf' \in [Buffers -> Seq(Bytes)] /\ buf'["output"] = z
      /\ \A x \in Buffers : x # "output" => buf'[x] = buf[x]
  BY <1>0, <1>1, <1>2, <1>3, BufChanged
<1>6. /\ chan' \in [Chans -> Channels] /\ chan'["stdout"] = v
      /\ \A x \in Chans : x # "stdout" => chan'[x] = chan[x]
  BY <1>0, <1>1, <1>2, <1>4, ChanChanged
<1>7. /\ buf'["client"] = buf["client"] /\ buf'["server"] = buf["server"]
      /\ buf'["batch"] = buf["batch"] /\ buf'["local"] = buf["local"]
      /\ buf'["bridge"] = buf["bridge"]
      /\ chan'["stdin"] = chan["stdin"] /\ chan'["upload"] = chan["upload"]
      /\ chan'["queue"] = chan["queue"] /\ chan'["download"] = chan["download"]
  BY <1>5, <1>6 DEF Buffers, Chans
<1>8. Typed'
  BY <1>0, <1>1, <1>5, <1>6 DEF Typed
<1>9. Sides'
  BY <1>0, <1>1, <1>7 DEF Sides
<1>10. Fate("up")' = Fate("up") /\ Fate("down")' = Fate("down")
  BY <1>1, SameFates
<1>11. UpInv' /\ UpStep
  BY <1>0, <1>1, <1>7, <1>10, UpIdle
<1>12. DownWhole(kind', chan') => DownWhole(kind, chan)
  BY <1>1, <1>4, <1>6, <1>7 DEF DownWhole
<1>13. DownPipe(kind', chan', buf') = DownPipe(kind, chan, buf)
  <2> DEFINE a == buf["client"]
             u == chan["stdout"].data
             t == buf["bridge"] \o chan["download"].data
             nb == buf'
             nc == chan'
  <2>1. /\ nb["output"] = z /\ nb["client"] = a /\ nc["stdout"] = v
        /\ nb["bridge"] \o nc["download"].data = t
    BY <1>5, <1>6, <1>7
  <2>2. CASE chan["stdout"].over # "no"
    <3> HIDE DEF nb, nc
    <3>1. DownPipe(kind, nc, nb) = DownPipe(kind, chan, buf)
      BY <1>1, <1>4, <2>1, <2>2 DEF DownPipe
    <3> QED
      BY <1>1, <3>1 DEF nb, nc
  <2>3. CASE chan["stdout"].over = "no"
    <3>1. DownPipe(kind, chan, buf) = (a \o u) \o (o \o t)
      BY <1>1, <2>3 DEF DownPipe, o
    <3>2. /\ a \in Seq(Bytes) /\ u \in Seq(Bytes) /\ t \in Seq(Bytes)
      BY <1>2, Joined
    <3> HIDE DEF nb, nc, t
    <3>3. DownPipe(kind, nc, nb) = (a \o (u \o o)) \o (z \o t)
      BY <1>1, <1>4, <2>1, <2>3 DEF DownPipe
    <3> HIDE DEF a, u
    <3>4. Same((a \o (u \o o)) \o (z \o t), (a \o u) \o ((o \o z) \o t))
      BY <1>2, <1>3, <3>2, HeadMoves
    <3> QED
      BY <1>1, <1>3, <3>1, <3>3, <3>4 DEF nb, nc, Same
  <2> QED
    BY <2>2, <2>3
<1>14. DownInv' /\ DownStep
  BY <1>0, <1>1, <1>10, <1>12, <1>13, DownKept
<1> QED
  BY <1>8, <1>9, <1>11, <1>14 DEF FramingStep, FramingInv

\* A prefix and a payload are written: what the BufWriter passes on and what
\* it holds afterwards are what it held and the frame.
LEMMA BothWritten ==
  ASSUME NEW o \in Seq(Bytes), NEW m \in Carried
  PROVE  LET F == Frame(m)
             w == Written(Written([gone |-> <<>>, held |-> o],
                                  SubSeq(F, 1, HEADER)),
                          SubSeq(F, HEADER + 1, Len(F)))
         IN  /\ w \in [gone : Seq(Bytes), held : Seq(Bytes)]
             /\ Same(w.gone \o w.held, o \o F)
<1> DEFINE F == Frame(m)
           x == SubSeq(F, 1, HEADER)
           y == SubSeq(F, HEADER + 1, Len(F))
           z == <<>>
           v == Written([gone |-> z, held |-> o], x)
           w == Written(v, y)
<1>1. /\ F \in Seq(Bytes) /\ Len(F) = Size(m) /\ HEADER \in Nat \ {0}
      /\ Size(m) \in Nat /\ Size(m) > HEADER
  BY FrameBytes, CarriedSize
<1>2. HEADER \in 1 .. Len(F)
  BY <1>1
<1> HIDE DEF F
<1>3. /\ x \in Seq(Bytes) /\ y \in Seq(Bytes)
      /\ (o \o x) \o y = o \o F
  BY <1>1, <1>2, ChunkMoves
<1>4. z \in Seq(Bytes) /\ o \o x \in Seq(Bytes)
  BY <1>3, Joined
<1> HIDE DEF x, y
<1>5. z \o (o \o x) = o \o x
  <2> DEFINE e == o \o x
  <2>1. e \in Seq(Bytes)
    BY <1>4
  <2> HIDE DEF e
  <2>2. <<>> \o e = e
    BY <2>1, Joined
  <2> QED
    BY <2>2 DEF e
<1> HIDE DEF z
<1>6. /\ v \in [gone : Seq(Bytes), held : Seq(Bytes)]
      /\ v.gone \o v.held = z \o (o \o x)
  <2> DEFINE r == [gone |-> z, held |-> o]
  <2>1. r = [gone |-> z, held |-> o]
    OBVIOUS
  <2> HIDE DEF r
  <2>2. /\ Written(r, x) \in [gone : Seq(Bytes), held : Seq(Bytes)]
        /\ Same(Written(r, x).gone \o Written(r, x).held, z \o (o \o x))
    BY <1>3, <1>4, <2>1, WrittenKeeps
  <2>3. v = Written(r, x)
    BY <2>1
  <2> HIDE DEF v
  <2> QED
    BY <2>2, <2>3 DEF Same
<1> HIDE DEF v
<1> DEFINE g == v.gone
           h == v.held
<1>7. /\ g \in Seq(Bytes) /\ h \in Seq(Bytes)
      /\ v = [gone |-> g, held |-> h] /\ g \o h = o \o x
  BY <1>5, <1>6
<1> HIDE DEF g, h
<1>8. /\ Written(v, y) \in [gone : Seq(Bytes), held : Seq(Bytes)]
      /\ Same(Written(v, y).gone \o Written(v, y).held, g \o (h \o y))
  BY <1>3, <1>7, WrittenKeeps
<1>9. g \o (h \o y) = (g \o h) \o y
  <2>1. Same((g \o h) \o y, g \o (h \o y))
    BY <1>3, <1>7, Regroup
  <2> QED
    BY <2>1 DEF Same
<1>10. w \in [gone : Seq(Bytes), held : Seq(Bytes)] /\ w.gone \o w.held = o \o F
  BY <1>3, <1>7, <1>8, <1>9 DEF Same
<1> HIDE DEF w
<1>11. /\ w \in [gone : Seq(Bytes), held : Seq(Bytes)]
       /\ Same(w.gone \o w.held, o \o F)
  BY <1>10 DEF Same
<1> QED
  BY <1>11 DEF F, w, v, x, y, z

\* A message of the server goes from the bridge's buffer to its BufWriter, and
\* what does not fit there to stdout.
LEMMA BridgeDeliversKeeps ==
  ASSUME FramingInv, BridgeDelivers
  PROVE  FramingStep
<1>0. Typed /\ Sides /\ UpInv /\ DownInv
  BY Start
<1> DEFINE b == buf["bridge"]
           o == buf["output"]
           m == FirstMessage(b)
           F == Frame(m)
           R == Rest(b)
           W == Written(Written([gone |-> <<>>, held |-> o],
                                SubSeq(F, 1, HEADER)),
                        SubSeq(F, HEADER + 1, Len(F)))
           g == W.gone
           h == W.held
           v == Put(chan["stdout"], g)
<1>1. /\ HasMessage(b) /\ status.bridge = "up" /\ kind = "h3"
      /\ buf' = [buf EXCEPT !["output"] = h, !["bridge"] = R,
                            !["local"] = Cancelled(@)]
      /\ chan' = [chan EXCEPT !["stdout"] = v]
      /\ UNCHANGED <<kind, sent, received, status>>
  BY <1>0 DEF BridgeDelivers, Typed, Buffers, Chans, Sides
<1>2. /\ b \in Seq(Bytes) /\ o \in Seq(Bytes) /\ chan["stdout"] \in Channels
      /\ "stdout" \in Chans
      /\ chan["stdout"].data \in Seq(Bytes)
      /\ chan["download"].data \in Seq(Bytes)
      /\ buf["client"] \in Seq(Bytes)
  BY <1>0, Parts
<1>3. m \in Carried /\ F \in Seq(Bytes) /\ R \in Seq(Bytes)
  BY <1>1, <1>2, TakenTyped
<1>4. g \in Seq(Bytes) /\ h \in Seq(Bytes) /\ Same(g \o h, o \o F)
  <2> HIDE DEF m, o
  <2>1. /\ W \in [gone : Seq(Bytes), held : Seq(Bytes)]
        /\ Same(W.gone \o W.held, o \o F)
    BY <1>2, <1>3, BothWritten
  <2> HIDE DEF W, F
  <2> QED
    BY <2>1
<1> HIDE DEF b, o, m, F, R, g, h
<1>5. /\ v \in Channels /\ v.over = chan["stdout"].over
      /\ chan["stdout"].over = "no" => v.data = chan["stdout"].data \o g
      /\ chan["stdout"].over # "no" => v = chan["stdout"]
  BY <1>2, <1>4, PutFacts
<1> HIDE DEF v
<1>6. /\ buf' \in [Buffers -> Seq(Bytes)]
      /\ buf'["output"] = h /\ buf'["bridge"] = R
      /\ buf'["client"] = buf["client"] /\ buf'["server"] = buf["server"]
      /\ buf'["batch"] = buf["batch"] /\ buf'["local"] = buf["local"]
  BY <1>0, <1>1, <1>3, <1>4 DEF Typed, Buffers, Cancelled
<1>7. /\ chan' \in [Chans -> Channels] /\ chan'["stdout"] = v
      /\ \A x \in Chans : x # "stdout" => chan'[x] = chan[x]
  BY <1>0, <1>1, <1>2, <1>5, ChanChanged
<1>8. /\ chan'["stdin"] = chan["stdin"] /\ chan'["upload"] = chan["upload"]
      /\ chan'["queue"] = chan["queue"] /\ chan'["download"] = chan["download"]
  BY <1>7 DEF Chans
<1>9. Typed'
  BY <1>0, <1>1, <1>6, <1>7 DEF Typed
<1>10. Sides'
  BY <1>0, <1>1, <1>6, <1>8 DEF Sides
<1>11. Fate("up")' = Fate("up") /\ Fate("down")' = Fate("down")
  BY <1>1, SameFates
<1>12. UpInv' /\ UpStep
  BY <1>0, <1>1, <1>6, <1>8, <1>11, UpIdle
<1>13. DownWhole(kind', chan') => DownWhole(kind, chan)
  BY <1>1, <1>5, <1>7, <1>8 DEF DownWhole
<1>14. ASSUME Fate("down") = "open"
       PROVE  DownPipe(kind', chan', buf') = DownPipe(kind, chan, buf)
  <2> DEFINE a == buf["client"]
             u == chan["stdout"].data
             d == chan["download"].data
             nb == buf'
             nc == chan'
  <2>1. /\ nb["output"] = h /\ nb["bridge"] = R /\ nb["client"] = a
        /\ nc["stdout"] = v /\ nc["download"].data = d
    BY <1>6, <1>7, <1>8
  <2>2. CASE chan["stdout"].over # "no"
    <3> HIDE DEF nb, nc
    <3>1. DownPipe(kind, nc, nb) = DownPipe(kind, chan, buf)
      BY <1>1, <1>5, <2>1, <2>2 DEF DownPipe
    <3> QED
      BY <1>1, <3>1 DEF nb, nc
  <2>3. CASE chan["stdout"].over = "no"
    <3>1. DownPipe(kind, chan, buf) = (a \o u) \o (o \o (b \o d))
      BY <1>1, <2>3 DEF DownPipe, o, b
    <3>2. /\ a \in Seq(Bytes) /\ u \in Seq(Bytes) /\ d \in Seq(Bytes)
      BY <1>2
    <3> HIDE DEF nb, nc
    <3>3. DownPipe(kind, nc, nb) = (a \o (u \o g)) \o (h \o (R \o d))
      BY <1>1, <1>5, <2>1, <2>3 DEF DownPipe
    <3> DEFINE p == DownPipe(kind, chan, buf)
               s == sent["down"]
               f == Len(received["down"]) + 1
               w == DownWhole(kind, chan)
               e == a \o u
               eo == e \o o
               bd == b \o d
               t == R \o d
    <3>4. Flow(p, s, f, w)
      BY <1>0, <1>14 DEF DownInv, DownFlows
    <3>5. /\ p = e \o (o \o bd) /\ e \in Seq(Bytes)
          /\ bd \in Seq(Bytes) /\ t \in Seq(Bytes)
      BY <1>2, <1>3, <3>1, <3>2, Joined
    <3> HIDE DEF a, u, d, p, s, f, w, e, bd
    <3>6. p = eo \o bd /\ eo \in Seq(Bytes)
      <4>1. Same((e \o o) \o bd, e \o (o \o bd))
        BY <1>2, <3>5, Regroup
      <4>2. e \o o \in Seq(Bytes)
        BY <1>2, <3>5, Joined
      <4> QED
        BY <3>5, <4>1, <4>2 DEF Same
    <3> HIDE DEF eo
    <3>7. p = (eo \o b) \o d
      <4>1. Same((eo \o b) \o d, eo \o (b \o d))
        BY <1>2, <3>2, <3>6, Regroup
      <4> QED
        BY <3>6, <4>1 DEF Same, bd
    <3>8. Splits(b, Frame(FirstMessage(b)), Rest(b))
      BY <1>1, <1>2, <3>2, <3>4, <3>6, <3>7, FrameAtFront
    <3>9. b = F \o R
      BY <3>8 DEF Splits, F, R, m
    <3>10. bd = F \o t
      <4>1. Same((F \o R) \o d, F \o (R \o d))
        BY <1>3, <3>2, Regroup
      <4> QED
        BY <3>9, <4>1 DEF Same, bd
    <3> HIDE DEF t
    <3>11. o \o bd = (o \o F) \o t
      <4>1. Same((o \o F) \o t, o \o (F \o t))
        BY <1>2, <1>3, <3>5, Regroup
      <4> QED
        BY <3>10, <4>1 DEF Same
    <3>12. Same((a \o (u \o g)) \o (h \o t), (a \o u) \o ((g \o h) \o t))
      BY <1>4, <3>2, <3>5, HeadMoves
    <3>13. DownPipe(kind, nc, nb) = e \o ((o \o F) \o t)
      BY <1>4, <3>3, <3>12 DEF Same, t, e
    <3>14. DownPipe(kind, nc, nb) = p
      BY <3>5, <3>11, <3>13
    <3> QED
      BY <1>1, <3>14 DEF nb, nc, p
  <2> QED
    BY <2>2, <2>3
<1>15. DownInv' /\ DownStep
  BY <1>0, <1>1, <1>11, <1>13, <1>14, DownKept
<1> QED
  BY <1>9, <1>10, <1>12, <1>15 DEF FramingStep, FramingInv

\* The bridge is gone: what it had flushed stays, the rest of the pipe is cut.
LEMMA BridgeGoneKeeps ==
  ASSUME FramingInv, status.bridge \in {"connecting", "up"},
         NEW fl, fl = buf["output"] \/ fl = <<>>,
         NEW how \in {"end", "error"}, BridgeGone(fl, how)
  PROVE  FramingStep
<1>0. Typed /\ Sides /\ UpInv /\ DownInv /\ kind \in {"h2", "h3"}
  BY Start
<1> DEFINE o == buf["output"]
           z == <<>>
           v == Over(Put(chan["stdout"], fl), "end")
<1>1. /\ chan' = [chan EXCEPT !["stdout"] = v,
                              !["stdin"] = Over(chan["stdin"], "error"),
                              !["upload"] = Over(chan["upload"], how),
                              !["download"] = Over(chan["download"], "error")]
      /\ status' = [status EXCEPT !.bridge = "gone"]
      /\ UNCHANGED <<kind, sent, received, buf, dirty>>
  BY <1>0 DEF BridgeGone, Typed, Chans
<1>2. kind = "h3"
  BY <1>0 DEF Sides
<1>3. /\ o \in Seq(Bytes) /\ \A c \in Chans : chan[c] \in Channels
      /\ chan["stdout"].data \in Seq(Bytes)
      /\ chan["stdout"] \in Channels
      /\ chan["download"].data \in Seq(Bytes)
      /\ buf["client"] \in Seq(Bytes) /\ buf["bridge"] \in Seq(Bytes)
  BY <1>0, Parts
<1>4. fl \in Seq(Bytes) /\ z \in Seq(Bytes)
  <2>1. <<>> \in Seq(Bytes)
    BY <1>3, Joined
  <2> QED
    BY <1>3, <2>1
<1>5. /\ v \in Channels /\ v.over # "no"
      /\ chan["stdout"].over = "no" => v.data = chan["stdout"].data \o fl
      /\ chan["stdout"].over # "no" => v = chan["stdout"]
  <2> DEFINE q == Put(chan["stdout"], fl)
  <2>1. /\ q \in Channels /\ q.over = chan["stdout"].over
        /\ chan["stdout"].over = "no" => q.data = chan["stdout"].data \o fl
        /\ chan["stdout"].over # "no" => q = chan["stdout"]
    BY <1>3, <1>4, PutFacts
  <2> HIDE DEF q
  <2>2. /\ Over(q, "end") \in Channels /\ Over(q, "end").over # "no"
        /\ q.over # "no" => Over(q, "end") = q
        /\ q.over = "no" => Over(q, "end").over = "end"
        /\ Over(q, "end").over # "error" => Over(q, "end").data = q.data
    BY <2>1, OverFacts
  <2>3. v = Over(q, "end")
    BY DEF q
  <2> HIDE DEF v
  <2> QED
    BY <2>1, <2>2, <2>3
<1> HIDE DEF v
<1>6. /\ chan' \in [Chans -> Channels] /\ chan'["stdout"] = v
      /\ chan'["upload"] = Over(chan["upload"], how)
      /\ chan'["download"] = Over(chan["download"], "error")
      /\ chan'["queue"] = chan["queue"]
  <2> DEFINE vi == Over(chan["stdin"], "error")
             vu == Over(chan["upload"], how)
             vd == Over(chan["download"], "error")
  <2>1. vi \in Channels /\ vu \in Channels /\ vd \in Channels
    BY <1>3, OverFacts DEF Chans
  <2>2. chan' = [chan EXCEPT !["stdout"] = v, !["stdin"] = vi,
                             !["upload"] = vu, !["download"] = vd]
    BY <1>1
  <2> HIDE DEF vi, vu, vd
  <2>3. /\ chan' \in [Chans -> Channels] /\ chan'["stdout"] = v
        /\ chan'["upload"] = vu /\ chan'["download"] = vd
        /\ chan'["queue"] = chan["queue"]
    BY <1>0, <1>5, <2>1, <2>2 DEF Typed, Chans
  <2> QED
    BY <2>3 DEF vu, vd
<1>7. /\ status'.server = status.server /\ status'.client = status.client
      /\ status'.bridge = "gone"
  BY <1>0, <1>1 DEF Typed
<1>8. Typed'
  <2>1. status' \in [client : {"up", "closed", "failed", "left"},
                 bridge : {"none", "connecting", "up", "gone"},
                 server : {"none", "gate", "up", "closed", "failed", "left"}]
    BY <1>0, <1>1 DEF Typed
  <2> QED
    BY <1>0, <1>1, <1>6, <2>1 DEF Typed
<1>9. Sides'
  BY <1>0, <1>1, <1>2, <1>6, <1>7 DEF Sides
<1>10. UpInv' /\ UpStep
  <2>1. CASE status.server = "none"
    <3>1. Fate("up") = "open" /\ Fate("up")' = "cut"
      BY <1>7, <2>1 DEF Fate
    <3> QED
      BY <1>0, <1>1, <3>1, UpDone
  <2>2. CASE status.server # "none"
    <3>1. /\ Fate("up")' = Fate("up")
          /\ UpFirst(status', received') = UpFirst(status, received)
      BY <1>1, <1>7, <2>2 DEF Fate, UpFirst
    <3> QED
      BY <1>0, <1>1, <1>6, <3>1, UpOver
  <2> QED
    BY <2>1, <2>2
<1>11. Fate("down")' = Fate("down")
  BY <1>7 DEF Fate
<1>12. ~DownWhole(kind', chan')
  BY <1>1, <1>2, <1>5, <1>6 DEF DownWhole
<1>13. DownInv' /\ DownStep
  <2> DEFINE a == buf["client"]
             u == chan["stdout"].data
             t == buf["bridge"] \o chan["download"].data
             nc == chan'
             q == (a \o (u \o fl)) \o z
  <2>1. nc["stdout"] = v
    BY <1>6
  <2>2. CASE chan["stdout"].over # "no"
    <3> HIDE DEF nc
    <3>1. DownPipe(kind, nc, buf) = DownPipe(kind, chan, buf)
      BY <1>2, <1>5, <2>1, <2>2 DEF DownPipe
    <3>2. DownPipe(kind', chan', buf') = DownPipe(kind, chan, buf)
      BY <1>1, <3>1 DEF nc
    <3> QED
      BY <1>0, <1>1, <1>11, <1>12, <3>2, DownKept
  <2>3. CASE chan["stdout"].over = "no"
    <3>1. DownPipe(kind, chan, buf) = (a \o u) \o (o \o t)
      BY <1>2, <2>3 DEF DownPipe
    <3>2. /\ a \in Seq(Bytes) /\ u \in Seq(Bytes) /\ t \in Seq(Bytes)
      BY <1>3, Joined
    <3> HIDE DEF nc
    <3>3. DownPipe(kind, nc, buf) = q
      BY <1>2, <1>5, <2>1, <2>3 DEF DownPipe
    <3>4. DownPipe(kind', chan', buf') = q
      BY <1>1, <3>3 DEF nc
    <3> HIDE DEF a, u, t, o
    <3>5. \A x, y \in Seq(Bytes) : x \o y \in Seq(Bytes) /\ x \o z = x
      BY Joined
    <3> HIDE DEF z
    <3>6. q = a \o (u \o fl) /\ q \in Seq(Bytes)
      BY <1>4, <3>2, <3>5
    <3>7. \E r \in Seq(Bytes) : Splits((a \o u) \o (o \o t), q, r)
      <4>1. CASE fl = o
        <5>1. Same((a \o (u \o o)) \o (z \o t), (a \o u) \o ((o \o z) \o t))
          BY <1>3, <1>4, <3>2, HeadMoves
        <5>2. o \o z = o /\ z \o t \in Seq(Bytes)
          BY <1>3, <1>4, <3>2, <3>5
        <5> HIDE DEF q
        <5>3. Splits((a \o u) \o (o \o t), q, z \o t)
          BY <3>6, <4>1, <5>1, <5>2 DEF Same, Splits
        <5> QED
          BY <5>2, <5>3
      <4>2. CASE fl = z
        <5>1. q = a \o u /\ o \o t \in Seq(Bytes)
          BY <1>3, <3>2, <3>5, <3>6, <4>2
        <5> HIDE DEF q
        <5> QED
          BY <5>1 DEF Splits
      <4> QED
        BY <4>1, <4>2 DEF o, z
    <3>8. PICK r \in Seq(Bytes) : Splits((a \o u) \o (o \o t), q, r)
      BY <3>7
    <3>9. DownPipe(kind, chan, buf) = DownPipe(kind', chan', buf') \o r
      BY <3>1, <3>4, <3>8 DEF Splits
    <3>10. DownPipe(kind', chan', buf') \in Seq(Bytes)
      BY <3>4, <3>6
    <3> QED
      BY <1>0, <1>1, <1>11, <1>12, <3>9, <3>10, DownCut
  <2> QED
    BY <2>2, <2>3
<1> QED
  BY <1>8, <1>9, <1>10, <1>13 DEF FramingStep, FramingInv

\* The bridge breaks off, fails or is killed.
LEMMA BridgeEndsKeeps ==
  ASSUME FramingInv, BridgeBreaks \/ BridgeFails \/ BridgeDies
  PROVE  FramingStep
<1>1. PICK fl, how : /\ fl = buf["output"] \/ fl = <<>>
                     /\ how \in {"end", "error"} /\ BridgeGone(fl, how)
                     /\ status.bridge \in {"connecting", "up"}
  <2>1. CASE BridgeBreaks
    <3> DEFINE f == IF dirty THEN buf["output"] ELSE <<>>
    <3>1. PICK how \in {"end", "error"} : BridgeGone(f, how)
      BY <2>1 DEF BridgeBreaks
    <3>2. f = buf["output"] \/ f = <<>>
      OBVIOUS
    <3>3. status.bridge \in {"connecting", "up"}
      BY <2>1 DEF BridgeBreaks
    <3> HIDE DEF f
    <3> QED
      BY <3>1, <3>2, <3>3
  <2>2. CASE BridgeFails
    BY <2>2 DEF BridgeFails
  <2>3. CASE BridgeDies
    BY <2>3 DEF BridgeDies
  <2> QED
    BY <2>1, <2>2, <2>3
<1> QED
  BY <1>1, BridgeGoneKeeps

-----------------------------------------------------------------------------
(* The network                                                             *)

\* Both streams break.
LEMMA NetworkFailsKeeps ==
  ASSUME FramingInv, NetworkFails
  PROVE  FramingStep
<1>0. Typed /\ Sides /\ UpInv /\ DownInv /\ kind \in {"h2", "h3"}
  BY Start
<1> DEFINE vu == Over(chan["upload"], "error")
           vd == Over(chan["download"], "error")
<1>1. /\ chan' = [chan EXCEPT !["upload"] = vu, !["download"] = vd]
      /\ kind = "h2" \/ status.bridge = "up"
      /\ UNCHANGED <<kind, sent, received, buf, dirty, status>>
  BY <1>0 DEF NetworkFails, Typed, Chans
<1>2. chan["upload"] \in Channels /\ chan["download"] \in Channels
  BY <1>0, Parts
<1>3. /\ vu \in Channels /\ vd \in Channels /\ vu.over # "no"
      /\ vd.over = "end" => vd = chan["download"]
  BY <1>2, OverFacts
<1> HIDE DEF vu, vd
<1>4. /\ chan' \in [Chans -> Channels] /\ chan'["upload"] = vu
      /\ chan'["download"] = vd /\ chan'["queue"] = chan["queue"]
      /\ chan'["stdout"] = chan["stdout"] /\ chan'["stdin"] = chan["stdin"]
  BY <1>0, <1>1, <1>3 DEF Typed, Chans
<1>5. Typed'
  BY <1>0, <1>1, <1>4 DEF Typed
<1>6. Sides'
  BY <1>0, <1>1, <1>3, <1>4 DEF Sides
<1>7. /\ Fate("up")' = Fate("up") /\ Fate("down")' = Fate("down")
      /\ UpFirst(status', received') = UpFirst(status, received)
  BY <1>1, SameFates
<1>8. UpInv' /\ UpStep
  BY <1>0, <1>1, <1>4, <1>7, UpOver DEF vu
<1>9. DownInv' /\ DownStep
  <2>1. CASE kind = "h2"
    BY <1>0, <1>1, <1>4, <1>7, <2>1, DownOver DEF vd
  <2>2. CASE kind = "h3"
    BY <1>0, <1>1, <1>4, <1>7, <2>2, DownFar DEF vd
  <2> QED
    BY <1>0, <2>1, <2>2
<1> QED
  BY <1>5, <1>6, <1>8, <1>9 DEF FramingStep, FramingInv

-----------------------------------------------------------------------------
(* The theorems                                                            *)

\* Every step keeps the invariant and is a step of both channels.
LEMMA NextKeeps ==
  ASSUME FramingInv, [Next]_vars
  PROVE  FramingStep
<1>1. CASE Next
  BY <1>1, ClientSendsKeeps, ServerSendsKeeps, ClientReadsKeeps,
     ClientReceivesKeeps, ClientSeesEndKeeps, ClientLeavesKeeps,
     ServerReadsKeeps, ServerReceivesKeeps, ServerAdmitsKeeps,
     ServerSeesEndKeeps, ServerLeavesKeeps, BatchTakesKeeps, BatchSendsKeeps,
     BatchEndsKeeps, BridgeConnectsKeeps, BridgeReadsLocalKeeps,
     BridgeForwardsKeeps, BridgeReadsStreamKeeps, BridgeDeliversKeeps,
     BridgeFlushesKeeps, BridgeEndsKeeps, NetworkFailsKeeps DEF Next
<1>2. CASE UNCHANGED vars
  <2>1. /\ kind' = kind /\ sent' = sent /\ received' = received /\ chan' = chan
        /\ buf' = buf /\ dirty' = dirty /\ status' = status
    BY <1>2 DEF vars
  <2>2. Typed /\ Sides /\ UpInv /\ DownInv
    BY Start
  <2>3. Typed' /\ Sides'
    BY <2>1, <2>2 DEF Typed, Sides
  <2>4. Fate("up")' = Fate("up")
    BY <2>1, SameFates
  <2>5. UpInv' /\ UpStep
    BY <2>1, <2>2, <2>4, UpIdle
  <2>6. DownInv' /\ DownStep
    BY <2>1, <2>2, DownIdle
  <2> QED
    BY <2>3, <2>5, <2>6 DEF FramingStep, FramingInv
<1> QED
  BY <1>1, <1>2

\* The bytes between a writer and its reader are always the frames of the
\* messages under way, whole, in order and without a gap, up to where a stream
\* has been cut (take_carrier_message, write_local_message, batch_h2_output).
THEOREM FramingSafety == Spec => []FramingInv
<1>1. FramingInv /\ [Next]_vars => FramingInv'
  BY NextKeeps DEF FramingStep
<1> QED
  BY <1>1, InitFlows, PTL DEF Spec

\* Each direction of a carrier is an ordered channel of whole messages,
\* whatever the lengths, the chunks, the batches and the buffer's capacity,
\* and whichever read select! drops (take_carrier_message, recv_h3_message,
\* read_local_message, recv_stream_message, batch_h2_output).
THEOREM CarriersAreChannels == Spec => ImplementsChannels
<1>1. Init => Upward!Init /\ Downward!Init
  <2> SUFFICES ASSUME Init PROVE Upward!Init /\ Downward!Init
    OBVIOUS
  <2>1. Fate("up") = "open" /\ Fate("down") = "open"
    BY DEF Init, Fate
  <2>2. \A d \in Dirs : sent[d] = <<>> /\ received[d] = <<>>
    BY DEF Init
  <2> QED
    BY <2>1, <2>2 DEF Upward!Init, Downward!Init, Dirs
<1>2. FramingInv /\ [Next]_vars => UpStep /\ DownStep
  BY NextKeeps DEF FramingStep
<1> QED
  BY <1>1, <1>2, FramingSafety, PTL
  DEF Spec, ImplementsChannels, Upward!Spec, Downward!Spec, UpStep, DownStep
=============================================================================

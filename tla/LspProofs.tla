------------------------------ MODULE LspProofs ------------------------------
(***************************************************************************)
(* Theorems about Lsp, for every set of documents and texts, every         *)
(* diagnosis, every capacity of the channels and any number of messages:   *)
(* the diagnostics the editor ends up with are those of the text it has,   *)
(* and a hover is answered from the text it was asked about.               *)
(*                                                                         *)
(* Both are about what is still under way.  The inductive invariant says   *)
(* what the store will hold once the server has handled the messages up to *)
(* a given one, and what the editor will show once it has read its own.    *)
(***************************************************************************)
EXTENDS Lsp, SequenceTheorems, TLAPS

Source == Text \cup {Closed}

HoverRecord == [asked : Source, answer : {"none"} \cup { HoverMarkdown(t) : t \in Text }]

\* What the editor is to show for a document with text t.
Shown(t) == IF t = Closed THEN {} ELSE Diagnose(t)

\* What a hover over a document with text t is to answer.
Answer(t) == HoverMarkdown(IF t = Closed THEN EmptyText ELSE t)

\* The messages that change the stored text of u, and the text they leave.
Touches(m, u) == \/ m.method \in {"didOpen", "didClose"} /\ m.uri = u
                 \/ m.method = "didChange" /\ m.uri = u /\ m.changes # <<>>

TextOf(m) == IF m.method = "didOpen" THEN m.text
             ELSE IF m.method = "didClose" THEN Closed ELSE m.changes[Len(m.changes)]

\* When d is stored for u, the first n messages of q leave t.
Leaves(q, n, u, d, t) ==
    \/ d = t /\ \A k \in 1..n : ~Touches(q[k], u)
    \/ \E j \in 1..n : /\ Touches(q[j], u) /\ TextOf(q[j]) = t
                       /\ \A k \in 1..n : k > j => ~Touches(q[k], u)

IsPublish(m, u) == m.method = "publish" /\ m.uri = u

\* When v is on the screen for u, reading all of q leaves d there.
WillShow(q, u, v, d) ==
    \/ v = d /\ \A k \in 1..Len(q) : ~IsPublish(q[k], u)
    \/ \E j \in 1..Len(q) : /\ IsPublish(q[j], u) /\ q[j].diags = d
                            /\ \A k \in 1..Len(q) : k > j => ~IsPublish(q[k], u)

TypeInv == /\ text \in [Uri -> Source] /\ docs \in [Uri -> Source] /\ DOMAIN view = Uri
           /\ editor \in {"editing", "leaving", "left", "gone"}
           /\ phase \in {"running", "stopping", "stopped", "ended", "failed"}
           /\ writer \in {"up", "ended"}
           /\ inbox \in Seq(Message)
           /\ outbox \in Seq(Reply) /\ Len(outbox) <= Capacity
           /\ sent \in 0..MaxSent
           /\ hovers \in Seq(HoverRecord) /\ Len(hovers) <= sent

StoreInv == phase = "running" => \A u \in Uri : Leaves(inbox, Len(inbox), u, docs[u], text[u])

ViewInv == phase = "running" /\ editor # "gone" =>
    \A u \in Uri : WillShow(outbox, u, view[u], Shown(docs[u]))

\* A hover finds in the store what the editor had when it asked.
AskedInv == phase = "running" =>
    \A i \in 1..Len(inbox) : inbox[i].method = "hover" =>
        /\ inbox[i].id \in 1..Len(hovers)
        /\ LET u == inbox[i].uri
           IN  Leaves(inbox, i - 1, u, docs[u], hovers[inbox[i].id].asked)

AnswerInv ==
    \A i \in 1..Len(outbox) : outbox[i].method = "hover" =>
        /\ outbox[i].id \in 1..Len(hovers)
        /\ outbox[i].markdown = Answer(hovers[outbox[i].id].asked)

AnsweredInv ==
    \A i \in 1..Len(hovers) :
        hovers[i].answer # "none" => hovers[i].answer = Answer(hovers[i].asked)

IInv == TypeInv /\ StoreInv /\ ViewInv /\ AskedInv /\ AnswerInv /\ AnsweredInv
-----------------------------------------------------------------------------
(* The two queues. *)

\* A message at the end changes what all messages together leave, and nothing
\* of what the messages before it leave.
LEMMA LeavesAppend ==
    ASSUME NEW S, NEW q \in Seq(S), NEW m \in S, NEW u, NEW d, NEW t
    PROVE  LET p == Append(q, m)
               n == Len(q)
           IN  /\ \A i \in 0..n : Leaves(q, i, u, d, t) => Leaves(p, i, u, d, t)
               /\ Touches(m, u) /\ t = TextOf(m) => Leaves(p, n + 1, u, d, t)
               /\ ~Touches(m, u) /\ Leaves(q, n, u, d, t) => Leaves(p, n + 1, u, d, t)
<1> DEFINE p == Append(q, m)
           n == Len(q)
<1>1. n \in Nat /\ p[n + 1] = m /\ \A i \in 1..n : p[i] = q[i]
  BY AppendProperties, LenProperties
<1> HIDE DEF p, n
<1>2. ASSUME NEW i \in 0..n, Leaves(q, i, u, d, t)
      PROVE  Leaves(p, i, u, d, t)
  <2>1. \A k \in 1..i : p[k] = q[k]
    BY <1>1
  <2> QED BY <1>2, <2>1 DEF Leaves
<1>3. ASSUME Touches(m, u), t = TextOf(m)
      PROVE  Leaves(p, n + 1, u, d, t)
  <2>1. n + 1 \in 1..(n + 1) /\ \A k \in 1..(n + 1) : ~(k > n + 1)
    BY <1>1
  <2> QED BY <1>1, <1>3, <2>1 DEF Leaves
<1>4. ASSUME ~Touches(m, u), Leaves(q, n, u, d, t)
      PROVE  Leaves(p, n + 1, u, d, t)
  <2>1. \A k \in 1..(n + 1) : k = n + 1 \/ (k \in 1..n /\ p[k] = q[k])
    BY <1>1
  <2>2. CASE d = t /\ \A k \in 1..n : ~Touches(q[k], u)
    BY <1>1, <1>4, <2>1, <2>2 DEF Leaves
  <2>3. CASE \E j \in 1..n : /\ Touches(q[j], u) /\ TextOf(q[j]) = t
                             /\ \A k \in 1..n : k > j => ~Touches(q[k], u)
    <3>1. PICK j \in 1..n : /\ Touches(q[j], u) /\ TextOf(q[j]) = t
                            /\ \A k \in 1..n : k > j => ~Touches(q[k], u)
      BY <2>3
    <3>2. j \in 1..(n + 1) /\ p[j] = q[j]
      BY <1>1
    <3>3. \A k \in 1..(n + 1) : k > j => ~Touches(p[k], u)
      BY <1>1, <1>4, <2>1, <3>1
    <3> QED BY <3>1, <3>2, <3>3 DEF Leaves
  <2> QED BY <1>4, <2>2, <2>3 DEF Leaves
<1> QED BY <1>2, <1>3, <1>4 DEF p, n

\* Handling the first message brings the store a step closer.
LEMMA LeavesTail ==
    ASSUME NEW S, NEW q \in Seq(S), q # <<>>, NEW u, NEW d, NEW t,
           NEW n \in 1..Len(q), Leaves(q, n, u, d, t)
    PROVE  Leaves(Tail(q), n - 1, u, IF Touches(Head(q), u) THEN TextOf(Head(q)) ELSE d, t)
<1> DEFINE p == Tail(q)
           e == IF Touches(Head(q), u) THEN TextOf(Head(q)) ELSE d
<1>1. Len(q) \in Nat /\ Head(q) = q[1] /\ \A k \in 1..(n - 1) : k + 1 \in 1..n /\ p[k] = q[k + 1]
  BY HeadTailProperties, LenProperties
<1>2. e = IF Touches(q[1], u) THEN TextOf(q[1]) ELSE d
  BY <1>1
<1>a. n \in Nat /\ 1 \in 1..n
  BY <1>1
<1> HIDE DEF p, e
<1>3. CASE d = t /\ \A k \in 1..n : ~Touches(q[k], u)
  BY <1>1, <1>2, <1>a, <1>3 DEF Leaves
<1>4. CASE \E j \in 1..n : /\ Touches(q[j], u) /\ TextOf(q[j]) = t
                           /\ \A k \in 1..n : k > j => ~Touches(q[k], u)
  <2>1. PICK j \in 1..n : /\ Touches(q[j], u) /\ TextOf(q[j]) = t
                          /\ \A k \in 1..n : k > j => ~Touches(q[k], u)
    BY <1>4
  <2>2. \A k \in 1..(n - 1) : k > j - 1 => ~Touches(p[k], u)
    <3> TAKE k \in 1..(n - 1)
    <3>1. k > j - 1 => k + 1 > j
      OBVIOUS
    <3> QED BY <1>1, <2>1, <3>1
  <2>3. CASE j = 1
    <3>1. \A k \in 1..(n - 1) : k > j - 1
      BY <2>3
    <3> QED BY <1>2, <2>1, <2>2, <2>3, <3>1 DEF Leaves
  <2>4. CASE j # 1
    <3>1. j - 1 \in 1..(n - 1)
      BY <2>4, <1>a
    <3>2. p[j - 1] = q[j]
      BY <1>1, <3>1
    <3> QED BY <2>1, <2>2, <3>1, <3>2 DEF Leaves
  <2> QED BY <2>3, <2>4
<1> QED BY <1>3, <1>4 DEF Leaves, p, e

\* A message at the end is read last.
LEMMA ShowAppend ==
    ASSUME NEW S, NEW q \in Seq(S), NEW m \in S, NEW u, NEW v, NEW d,
           \/ IsPublish(m, u) /\ m.diags = d
           \/ ~IsPublish(m, u) /\ WillShow(q, u, v, d)
    PROVE  WillShow(Append(q, m), u, v, d)
<1> DEFINE p == Append(q, m)
           n == Len(q)
<1>1. /\ n \in Nat /\ Len(p) = n + 1 /\ p[n + 1] = m
      /\ \A k \in 1..Len(p) : k = n + 1 \/ (k \in 1..n /\ p[k] = q[k])
  BY AppendProperties, LenProperties
<1> HIDE DEF p, n
<1>2. CASE IsPublish(m, u) /\ m.diags = d
  <2>1. n + 1 \in 1..Len(p) /\ \A k \in 1..Len(p) : ~(k > n + 1)
    BY <1>1
  <2> QED BY <1>1, <1>2, <2>1 DEF WillShow, p
<1>3. CASE ~IsPublish(m, u) /\ WillShow(q, u, v, d)
  <2>1. CASE v = d /\ \A k \in 1..Len(q) : ~IsPublish(q[k], u)
    BY <1>1, <1>3, <2>1 DEF WillShow, p, n
  <2>2. CASE \E j \in 1..n : /\ IsPublish(q[j], u) /\ q[j].diags = d
                             /\ \A k \in 1..n : k > j => ~IsPublish(q[k], u)
    <3>1. PICK j \in 1..n : /\ IsPublish(q[j], u) /\ q[j].diags = d
                            /\ \A k \in 1..n : k > j => ~IsPublish(q[k], u)
      BY <2>2
    <3>2. j \in 1..Len(p) /\ p[j] = q[j]
      BY <1>1
    <3>3. \A k \in 1..Len(p) : k > j => ~IsPublish(p[k], u)
      BY <1>1, <1>3, <3>1
    <3> QED BY <3>1, <3>2, <3>3 DEF WillShow, p
  <2> QED BY <1>3, <2>1, <2>2 DEF WillShow, n
<1> QED BY <1>2, <1>3

\* Reading the first message brings the screen a step closer.
LEMMA ShowTail ==
    ASSUME NEW S, NEW q \in Seq(S), q # <<>>, NEW u, NEW v, NEW d, WillShow(q, u, v, d)
    PROVE  WillShow(Tail(q), u, IF IsPublish(Head(q), u) THEN Head(q).diags ELSE v, d)
<1> DEFINE p == Tail(q)
           n == Len(q)
           w == IF IsPublish(Head(q), u) THEN Head(q).diags ELSE v
<1>1. /\ n \in Nat /\ 1 \in 1..n /\ Head(q) = q[1] /\ Len(p) = n - 1
      /\ \A k \in 1..Len(p) : k + 1 \in 1..n /\ p[k] = q[k + 1]
  BY HeadTailProperties, LenProperties, EmptySeq
<1>2. w = IF IsPublish(q[1], u) THEN q[1].diags ELSE v
  BY <1>1
<1> HIDE DEF p, w
<1>3. CASE v = d /\ \A k \in 1..n : ~IsPublish(q[k], u)
  BY <1>1, <1>2, <1>3 DEF WillShow
<1>4. CASE \E j \in 1..n : /\ IsPublish(q[j], u) /\ q[j].diags = d
                           /\ \A k \in 1..n : k > j => ~IsPublish(q[k], u)
  <2>1. PICK j \in 1..n : /\ IsPublish(q[j], u) /\ q[j].diags = d
                          /\ \A k \in 1..n : k > j => ~IsPublish(q[k], u)
    BY <1>4
  <2> HIDE DEF n
  <2>2. \A k \in 1..Len(p) : k > j - 1 => ~IsPublish(p[k], u)
    <3> TAKE k \in 1..Len(p)
    <3>1. k > j - 1 => k + 1 > j
      BY <1>1
    <3> QED BY <1>1, <2>1, <3>1
  <2>3. CASE j = 1
    <3>1. \A k \in 1..Len(p) : k > j - 1
      BY <2>3
    <3> QED BY <1>2, <2>1, <2>2, <2>3, <3>1 DEF WillShow
  <2>4. CASE j # 1
    <3>1. j - 1 \in 1..Len(p)
      BY <2>4, <1>1
    <3>2. p[j - 1] = q[j]
      BY <1>1, <3>1
    <3> QED BY <2>1, <2>2, <3>1, <3>2 DEF WillShow
  <2> QED BY <2>3, <2>4
<1> QED BY <1>3, <1>4 DEF WillShow, p, w
-----------------------------------------------------------------------------
(* The steps of the editor. *)

LEMMA InitInv == Init => IInv
<1> SUFFICES ASSUME Init PROVE IInv
  OBVIOUS
<1>1. inbox = <<>> /\ outbox = <<>> /\ hovers = <<>> /\ Len(<<>>) = 0
  BY DEF Init
<1>2. TypeInv
  BY <1>1, BoundAssumption DEF Init, TypeInv, Source
<1>3. StoreInv /\ ViewInv
  BY <1>1 DEF Init, StoreInv, ViewInv, Leaves, WillShow, Shown
<1>4. AskedInv /\ AnswerInv /\ AnsweredInv
  BY <1>1 DEF AskedInv, AnswerInv, AnsweredInv
<1> QED BY <1>2, <1>3, <1>4 DEF IInv

\* Sending a message that does to the editor's texts what it will do to the
\* store, and asks for a hover when it is one.
LEMMA SendKeeps ==
    ASSUME IInv, NEW m \in Message, Send(m), editor # "gone",
           editor' \in {"editing", "leaving"},
           text' \in [Uri -> Source],
           \A u \in Uri : text'[u] = IF Touches(m, u) THEN TextOf(m) ELSE text[u],
           \/ m.method # "hover" /\ hovers' = hovers
           \/ /\ m.method = "hover" /\ m.uri \in Uri /\ m.id = Len(hovers) + 1
              /\ hovers' = Append(hovers, [asked |-> text[m.uri], answer |-> "none"])
    PROVE  IInv'
<1> USE DEF IInv
<1> DEFINE asked == [asked |-> text[m.uri], answer |-> "none"]
<1>1. /\ inbox \in Seq(Message) /\ hovers \in Seq(HoverRecord) /\ outbox \in Seq(Reply)
      /\ inbox' = Append(inbox, m) /\ sent' = sent + 1 /\ sent < MaxSent
      /\ UNCHANGED <<view, outbox, docs, phase, writer>>
  BY DEF TypeInv, Send
<1>2. /\ Len(inbox) \in Nat /\ inbox' \in Seq(Message) /\ Len(inbox') = Len(inbox) + 1
      /\ inbox'[Len(inbox) + 1] = m /\ \A i \in 1..Len(inbox) : inbox'[i] = inbox[i]
  BY <1>1, AppendProperties, LenProperties
<1>3. /\ Len(hovers) \in Nat /\ hovers' \in Seq(HoverRecord)
      /\ Len(hovers') \in {Len(hovers), Len(hovers) + 1}
      /\ \A i \in 1..Len(hovers) : hovers'[i] = hovers[i]
      /\ Len(hovers') > Len(hovers) => hovers'[Len(hovers) + 1].answer = "none"
  <2>1. CASE hovers' = hovers
    BY <1>1, <2>1, LenProperties
  <2>2. CASE m.uri \in Uri /\ hovers' = Append(hovers, asked)
    <3>1. asked \in HoverRecord /\ asked.answer = "none"
      BY <2>2 DEF HoverRecord, TypeInv
    <3> HIDE DEF asked
    <3>2. /\ hovers' \in Seq(HoverRecord) /\ Len(hovers') = Len(hovers) + 1
          /\ \A i \in 1..Len(hovers) : hovers'[i] = hovers[i]
          /\ hovers'[Len(hovers) + 1] = asked
      BY <1>1, <2>2, <3>1, AppendProperties
    <3> QED BY <1>1, <3>1, <3>2, LenProperties
  <2> QED BY <2>1, <2>2
<1>4. TypeInv'
  <2>1. sent' \in 0..MaxSent /\ Len(hovers') <= sent'
    BY <1>1, <1>3, BoundAssumption DEF TypeInv
  <2> QED BY <1>1, <1>2, <1>3, <2>1 DEF TypeInv
<1>5. StoreInv'
  <2> SUFFICES ASSUME phase = "running", NEW u \in Uri
               PROVE  Leaves(inbox', Len(inbox) + 1, u, docs[u], text'[u])
    BY <1>1, <1>2 DEF StoreInv
  <2>1. CASE Touches(m, u)
    BY <1>1, <2>1, LeavesAppend
  <2>2. CASE ~Touches(m, u)
    BY <1>1, <2>2, LeavesAppend DEF StoreInv
  <2> QED BY <2>1, <2>2
<1>6. ViewInv'
  BY <1>1 DEF ViewInv
<1>7. AskedInv'
  <2> SUFFICES ASSUME phase = "running", NEW i \in 1..(Len(inbox) + 1),
                      inbox'[i].method = "hover"
               PROVE  /\ inbox'[i].id \in 1..Len(hovers')
                      /\ Leaves(inbox', i - 1, inbox'[i].uri, docs[inbox'[i].uri],
                                hovers'[inbox'[i].id].asked)
    BY <1>1, <1>2 DEF AskedInv
  <2>1. CASE i \in 1..Len(inbox)
    <3>1. inbox'[i] = inbox[i]
      BY <1>2, <2>1
    <3>2. /\ inbox[i].id \in 1..Len(hovers)
          /\ Leaves(inbox, i - 1, inbox[i].uri, docs[inbox[i].uri], hovers[inbox[i].id].asked)
      BY <2>1, <3>1 DEF AskedInv
    <3>3. hovers'[inbox[i].id] = hovers[inbox[i].id] /\ inbox[i].id \in 1..Len(hovers')
      BY <1>3, <3>2
    <3>4. i - 1 \in 0..Len(inbox)
      BY <1>2, <2>1
    <3> QED BY <1>1, <3>1, <3>2, <3>3, <3>4, LeavesAppend
  <2>2. CASE i = Len(inbox) + 1
    <3>1. inbox'[i] = m /\ i - 1 = Len(inbox)
      BY <1>2, <2>2
    <3>2. m.uri \in Uri /\ m.id = Len(hovers) + 1 /\ hovers' = Append(hovers, asked)
      BY <3>1
    <3>3. asked \in HoverRecord /\ asked.asked = text[m.uri]
      BY <3>2 DEF HoverRecord, TypeInv
    <3> HIDE DEF asked
    <3>4. hovers'[m.id] = asked /\ m.id \in 1..Len(hovers')
      BY <1>1, <1>3, <3>2, <3>3, AppendProperties
    <3>5. Leaves(inbox, Len(inbox), m.uri, docs[m.uri], text[m.uri])
      BY <3>2 DEF StoreInv
    <3>6. Len(inbox) \in 0..Len(inbox)
      BY <1>2
    <3> QED BY <1>1, <3>1, <3>3, <3>4, <3>5, <3>6, LeavesAppend
  <2> QED BY <1>2, <2>1, <2>2
<1>8. AnswerInv'
  <2> SUFFICES ASSUME NEW i \in 1..Len(outbox), outbox[i].method = "hover"
               PROVE  /\ outbox[i].id \in 1..Len(hovers')
                      /\ outbox[i].markdown = Answer(hovers'[outbox[i].id].asked)
    BY <1>1 DEF AnswerInv
  <2> QED BY <1>3 DEF AnswerInv
<1>9. AnsweredInv'
  BY <1>3 DEF AnsweredInv
<1> QED BY <1>4, <1>5, <1>6, <1>7, <1>8, <1>9

\* The things the editor says are messages, and say what they do.
LEMMA EditorKeeps ==
    ASSUME IInv,
           \/ \E u \in Uri : Open(u) \/ Edit(u) \/ Close(u) \/ Hover(u)
           \/ Other \/ Leave
    PROVE  IInv'
<1>1. text \in [Uri -> Source] /\ hovers \in Seq(HoverRecord) /\ sent \in 0..MaxSent
      /\ Len(hovers) <= sent /\ Len(hovers) \in Nat
  BY LenProperties DEF IInv, TypeInv
<1>2. ASSUME NEW u \in Uri, Open(u)
      PROVE  IInv'
  <2>1. PICK t \in Text : /\ Send([method |-> "didOpen", uri |-> u, text |-> t])
                          /\ text' = [text EXCEPT ![u] = t]
    BY <1>2 DEF Open
  <2> DEFINE m == [method |-> "didOpen", uri |-> u, text |-> t]
  <2>2. m \in Message /\ TextOf(m) = t /\ m.method # "hover" /\ \A w : Touches(m, w) <=> w = u
    BY DEF Message, TextOf, Touches
  <2>3. text' \in [Uri -> Source] /\ \A w \in Uri : text'[w] = IF w = u THEN t ELSE text[w]
    BY <1>1, <2>1 DEF Source
  <2>4. Send(m)
    BY <2>1
  <2> HIDE DEF m
  <2> QED BY <1>2, <2>2, <2>3, <2>4, SendKeeps DEF Open
<1>3. ASSUME NEW u \in Uri, Edit(u)
      PROVE  IInv'
  <2>1. PICK n \in 0..MaxChanges : \E changes \in [1..n -> Text] :
           /\ Send([method |-> "didChange", uri |-> u, changes |-> changes])
           /\ text' = [text EXCEPT ![u] = IF n = 0 THEN @ ELSE changes[n]]
    BY <1>3 DEF Edit
  <2>2. PICK changes \in [1..n -> Text] :
           /\ Send([method |-> "didChange", uri |-> u, changes |-> changes])
           /\ text' = [text EXCEPT ![u] = IF n = 0 THEN @ ELSE changes[n]]
    BY <2>1
  <2> DEFINE m == [method |-> "didChange", uri |-> u, changes |-> changes]
  <2>3. n \in Nat /\ changes \in Seq(Text) /\ Len(changes) = n /\ (changes = <<>> <=> n = 0)
    <3>1. n \in Nat /\ changes \in Seq(Text) /\ Len(changes) = n
      BY <2>2, BoundAssumption
    <3> QED BY <3>1, EmptySeq
  <2>4. m \in Message
    BY <2>2 DEF Message
  <2>5. m.method # "hover" /\ \A w : Touches(m, w) <=> (w = u /\ n # 0)
    BY <2>3 DEF Touches
  <2>6. n # 0 => TextOf(m) = changes[n] /\ changes[n] \in Text
    BY <2>3 DEF TextOf
  <2>7. text' \in [Uri -> Source]
    BY <1>1, <2>2, <2>6 DEF Source
  <2>8. \A w \in Uri : text'[w] = IF Touches(m, w) THEN TextOf(m) ELSE text[w]
    BY <1>1, <2>2, <2>5, <2>6
  <2>9. Send(m)
    BY <2>2
  <2> HIDE DEF m
  <2> QED BY <1>3, <2>4, <2>5, <2>7, <2>8, <2>9, SendKeeps DEF Edit
<1>4. ASSUME NEW u \in Uri, Close(u)
      PROVE  IInv'
  <2> DEFINE m == [method |-> "didClose", uri |-> u]
  <2>1. Send(m) /\ text' = [text EXCEPT ![u] = Closed]
    BY <1>4 DEF Close
  <2>2. m \in Message /\ TextOf(m) = Closed /\ m.method # "hover"
        /\ \A w : Touches(m, w) <=> w = u
    BY DEF Message, TextOf, Touches
  <2>3. /\ text' \in [Uri -> Source]
        /\ \A w \in Uri : text'[w] = IF w = u THEN Closed ELSE text[w]
    BY <1>1, <2>1 DEF Source
  <2> HIDE DEF m
  <2>4. editor # "gone" /\ editor' \in {"editing", "leaving"} /\ hovers' = hovers
    BY <1>4 DEF Close
  <2> QED BY <2>1, <2>2, <2>3, <2>4, SendKeeps
<1>5. ASSUME NEW u \in Uri, Hover(u)
      PROVE  IInv'
  <2> DEFINE m == [method |-> "hover", uri |-> u, id |-> Len(hovers) + 1]
  <2>1. /\ Send(m) /\ text' = text
        /\ hovers' = Append(hovers, [asked |-> text[u], answer |-> "none"])
    BY <1>5 DEF Hover
  <2>2. Len(hovers) + 1 \in 1..MaxSent
    BY <1>1, <2>1, BoundAssumption DEF Send
  <2>3. m \in Message /\ m.method = "hover" /\ m.uri = u /\ m.id = Len(hovers) + 1
        /\ \A w : ~Touches(m, w)
    BY <2>2 DEF Message, Touches
  <2> HIDE DEF m
  <2>4. editor # "gone" /\ editor' \in {"editing", "leaving"}
    BY <1>5 DEF Hover
  <2> QED BY <1>1, <2>1, <2>3, <2>4, SendKeeps
<1>6. ASSUME NEW method \in {"other", "shutdown"}, Send([method |-> method]),
             UNCHANGED <<text, hovers>>, editor # "gone", editor' \in {"editing", "leaving"}
      PROVE  IInv'
  <2> DEFINE m == [method |-> method]
  <2>1. m \in Message /\ m.method # "hover" /\ \A w : ~Touches(m, w)
    BY DEF Message, Touches
  <2>2. Send(m)
    BY <1>6
  <2> HIDE DEF m
  <2> QED BY <1>1, <1>6, <2>1, <2>2, SendKeeps
<1>7. CASE Other
  BY <1>6, <1>7 DEF Other
<1>8. CASE Leave
  BY <1>6, <1>8 DEF Leave
<1> QED BY <1>2, <1>3, <1>4, <1>5, <1>7, <1>8

LEMMA ReplyFields ==
    ASSUME NEW m \in Reply
    PROVE  /\ m.method = "publish" => m.uri \in Uri
           /\ m.method = "hover" => m.id \in 1..MaxSent
                                    /\ m.markdown \in { HoverMarkdown(t) : t \in Text }
BY DEF Reply

\* What is read is put on the screen or with the request it answers.
LEMMA ReceiveKeeps ==
    ASSUME IInv, Receive
    PROVE  IInv'
<1> USE DEF IInv
<1> DEFINE m == Head(outbox)
<1>1. /\ outbox \in Seq(Reply) /\ outbox # <<>> /\ outbox' = Tail(outbox)
      /\ inbox \in Seq(Message) /\ hovers \in Seq(HoverRecord)
      /\ view' = (IF m.method = "publish" THEN [view EXCEPT ![m.uri] = m.diags] ELSE view)
      /\ hovers' = (IF m.method = "hover"
                    THEN [hovers EXCEPT ![m.id].answer = m.markdown] ELSE hovers)
      /\ IF m.method = "shutdown"
         THEN editor' = "left" /\ inbox' = Append(inbox, [method |-> "exit"])
         ELSE UNCHANGED <<editor, inbox>>
      /\ UNCHANGED <<text, sent, docs, phase, writer>> /\ editor # "gone"
  BY DEF Receive, TypeInv
<1>2. /\ Len(outbox) \in Nat /\ 1 \in 1..Len(outbox) /\ m = outbox[1] /\ m \in Reply
      /\ outbox' \in Seq(Reply) /\ Len(outbox') = Len(outbox) - 1
      /\ \A i \in 1..Len(outbox') : i + 1 \in 1..Len(outbox) /\ outbox'[i] = outbox[i + 1]
  BY <1>1, HeadTailProperties, LenProperties, EmptySeq
<1> HIDE DEF m
<1>3. /\ hovers' \in Seq(HoverRecord) /\ Len(hovers') = Len(hovers) /\ Len(hovers) \in Nat
      /\ \A i \in 1..Len(hovers) : /\ hovers'[i].asked = hovers[i].asked
                                   /\ \/ hovers'[i].answer = hovers[i].answer
                                      \/ hovers'[i].answer = Answer(hovers[i].asked)
  <2>1. CASE m.method # "hover"
    BY <1>1, <2>1, LenProperties
  <2>2. CASE m.method = "hover"
    <3>1. m.id \in 1..Len(hovers) /\ m.markdown = Answer(hovers[m.id].asked)
      BY <1>2, <2>2 DEF AnswerInv
    <3>2. hovers[m.id] \in HoverRecord
      BY <1>1, <3>1
    <3> DEFINE h == [hovers[m.id] EXCEPT !.answer = m.markdown]
    <3>3. h \in HoverRecord /\ h.asked = hovers[m.id].asked /\ h.answer = m.markdown
      BY <1>2, <2>2, <3>2, ReplyFields DEF HoverRecord
    <3>4. hovers' = [hovers EXCEPT ![m.id] = h]
      BY <1>1, <2>2
    <3> HIDE DEF h
    <3>5. /\ hovers' \in Seq(HoverRecord) /\ Len(hovers') = Len(hovers) /\ Len(hovers) \in Nat
          /\ \A i \in 1..Len(hovers) : hovers'[i] = IF i = m.id THEN h ELSE hovers[i]
      <4>1. hovers \in Seq(HoverRecord) /\ Len(hovers) \in Nat
        BY <1>1, LenProperties
      <4> QED BY <3>1, <3>3, <3>4, <4>1, ExceptSeq
    <3> QED BY <3>1, <3>3, <3>5
  <2> QED BY <2>1, <2>2
<1>4. /\ inbox' \in Seq(Message)
      /\ \/ inbox' = inbox
         \/ \E e \in Message : /\ e.method = "exit" /\ inbox' = Append(inbox, e)
  <2>1. [method |-> "exit"] \in Message
    BY DEF Message
  <2>2. [method |-> "exit"].method = "exit"
    OBVIOUS
  <2> HIDE DEF Message
  <2>3. Append(inbox, [method |-> "exit"]) \in Seq(Message)
    BY <1>1, <2>1, AppendProperties
  <2> QED BY <1>1, <2>1, <2>2, <2>3
<1>5. TypeInv'
  <2>1. DOMAIN view' = Uri
    BY <1>1 DEF TypeInv
  <2>2. editor' \in {"editing", "leaving", "left", "gone"}
    BY <1>1 DEF TypeInv
  <2>3. Len(outbox') <= Capacity
    BY <1>2, BoundAssumption DEF TypeInv
  <2> QED BY <1>1, <1>2, <1>3, <1>4, <2>1, <2>2, <2>3 DEF TypeInv
<1>6. ASSUME NEW u, NEW n \in 0..Len(inbox), NEW t, Leaves(inbox, n, u, docs[u], t)
      PROVE  Leaves(inbox', n, u, docs[u], t)
  BY <1>1, <1>4, <1>6, LeavesAppend
<1>7. StoreInv'
  <2> SUFFICES ASSUME phase = "running", NEW u \in Uri
               PROVE  Leaves(inbox', Len(inbox'), u, docs[u], text[u])
    BY <1>1 DEF StoreInv
  <2>1. Leaves(inbox, Len(inbox), u, docs[u], text[u])
    BY DEF StoreInv
  <2>2. CASE inbox' = inbox
    BY <2>1, <2>2
  <2>3. ASSUME NEW e \in Message, e.method = "exit", inbox' = Append(inbox, e)
        PROVE  Leaves(inbox', Len(inbox'), u, docs[u], text[u])
    <3>1. ~Touches(e, u) /\ Len(inbox') = Len(inbox) + 1
      BY <1>1, <2>3, AppendProperties DEF Touches
    <3> QED BY <1>1, <2>1, <2>3, <3>1, LeavesAppend
  <2> QED BY <1>4, <2>2, <2>3
<1>8. ViewInv'
  <2> SUFFICES ASSUME phase = "running", NEW u \in Uri
               PROVE  WillShow(outbox', u, view'[u], Shown(docs[u]))
    BY <1>1 DEF ViewInv
  <2>1. view'[u] = IF IsPublish(m, u) THEN m.diags ELSE view[u]
    BY <1>1, <1>2, ReplyFields DEF IsPublish, TypeInv
  <2>2. WillShow(outbox, u, view[u], Shown(docs[u]))
    BY <1>1 DEF ViewInv
  <2> QED BY <1>1, <2>1, <2>2, ShowTail DEF m
<1>9. AskedInv'
  <2> SUFFICES ASSUME phase = "running", NEW i \in 1..Len(inbox'),
                      inbox'[i].method = "hover"
               PROVE  /\ inbox'[i].id \in 1..Len(hovers')
                      /\ Leaves(inbox', i - 1, inbox'[i].uri, docs[inbox'[i].uri],
                                hovers'[inbox'[i].id].asked)
    BY <1>1 DEF AskedInv
  <2>1. i \in 1..Len(inbox) /\ inbox'[i] = inbox[i]
    <3>1. CASE inbox' = inbox
      BY <3>1
    <3>2. ASSUME NEW e \in Message, e.method = "exit", inbox' = Append(inbox, e)
          PROVE  i \in 1..Len(inbox) /\ inbox'[i] = inbox[i]
      <4>1. /\ Len(inbox') = Len(inbox) + 1 /\ inbox'[Len(inbox) + 1] = e
            /\ \A k \in 1..Len(inbox) : inbox'[k] = inbox[k]
            /\ Len(inbox) \in Nat
        BY <1>1, <3>2, AppendProperties, LenProperties
      <4> QED BY <3>2, <4>1
    <3> QED BY <1>4, <3>1, <3>2
  <2>2. /\ inbox[i].id \in 1..Len(hovers)
        /\ Leaves(inbox, i - 1, inbox[i].uri, docs[inbox[i].uri], hovers[inbox[i].id].asked)
    BY <2>1 DEF AskedInv
  <2>3. i - 1 \in 0..Len(inbox)
    BY <1>1, <2>1, LenProperties
  <2> QED BY <1>3, <1>6, <2>1, <2>2, <2>3
<1>10. AnswerInv'
  <2> SUFFICES ASSUME NEW i \in 1..Len(outbox'), outbox'[i].method = "hover"
               PROVE  /\ outbox'[i].id \in 1..Len(hovers')
                      /\ outbox'[i].markdown = Answer(hovers'[outbox'[i].id].asked)
    BY DEF AnswerInv
  <2>1. i + 1 \in 1..Len(outbox) /\ outbox'[i] = outbox[i + 1]
    BY <1>2
  <2>2. /\ outbox'[i].id \in 1..Len(hovers)
        /\ outbox'[i].markdown = Answer(hovers[outbox'[i].id].asked)
    BY <2>1 DEF AnswerInv
  <2> QED BY <1>3, <2>2
<1>11. AnsweredInv'
  BY <1>3 DEF AnsweredInv
<1> QED BY <1>5, <1>7, <1>8, <1>9, <1>10, <1>11

LEMMA VanishKeeps ==
    ASSUME IInv, Vanish
    PROVE  IInv'
<1>1. outbox' \in Seq(Reply) /\ Len(outbox') = 0
  BY EmptySeq DEF Vanish
<1>2. TypeInv'
  BY <1>1, BoundAssumption DEF Vanish, IInv, TypeInv
<1>3. AnswerInv'
  BY <1>1 DEF AnswerInv
<1> QED BY <1>2, <1>3 DEF Vanish, IInv, StoreInv, ViewInv, AskedInv, AnsweredInv
-----------------------------------------------------------------------------
(* The steps of the server. *)

\* Handling the first message as it says, with at most one message to the
\* editor: diagnostics of what is stored now, or an answer to what was asked.
LEMMA HandleKeeps ==
    ASSUME IInv, phase = "running", inbox # <<>>, inbox' = Tail(inbox),
           UNCHANGED editorVars,
           phase' \in {"running", "stopping", "stopped", "ended", "failed"},
           writer' \in {"up", "ended"}, docs' \in [Uri -> Source],
           \A u \in Uri : docs'[u] = IF Touches(Head(inbox), u) THEN TextOf(Head(inbox))
                                     ELSE docs[u],
           \/ /\ outbox' = outbox
              /\ phase' # "running" \/ editor = "gone" \/ docs' = docs
           \/ \E r \in Reply :
                 /\ outbox' = Append(outbox, r) /\ Len(outbox) < Capacity
                 /\ \A u \in Uri : IF IsPublish(r, u) THEN r.diags = Shown(docs'[u])
                                   ELSE docs'[u] = docs[u]
                 /\ r.method = "hover" => /\ r.id \in 1..Len(hovers)
                                          /\ r.markdown = Answer(hovers[r.id].asked)
    PROVE  IInv'
<1> USE DEF IInv
<1>1. /\ inbox \in Seq(Message) /\ outbox \in Seq(Reply)
      /\ UNCHANGED <<text, view, hovers, editor, sent>>
  BY DEF TypeInv, editorVars
<1>2. /\ Len(inbox) \in Nat /\ Len(inbox) # 0
      /\ inbox' \in Seq(Message) /\ Len(inbox') = Len(inbox) - 1
      /\ \A i \in 1..Len(inbox') : i + 1 \in 1..Len(inbox) /\ inbox'[i] = inbox[i + 1]
  BY <1>1, HeadTailProperties, LenProperties, EmptySeq
<1>3. ASSUME NEW u \in Uri, NEW n \in 1..Len(inbox), NEW t, Leaves(inbox, n, u, docs[u], t)
      PROVE  Leaves(inbox', n - 1, u, docs'[u], t)
  BY <1>1, <1>3, LeavesTail
<1>4. StoreInv'
  <2> SUFFICES ASSUME NEW u \in Uri
               PROVE  Leaves(inbox', Len(inbox'), u, docs'[u], text[u])
    BY <1>1 DEF StoreInv
  <2> QED BY <1>2, <1>3 DEF StoreInv
<1>5. AskedInv'
  <2> SUFFICES ASSUME NEW i \in 1..Len(inbox'), inbox'[i].method = "hover"
               PROVE  /\ inbox'[i].id \in 1..Len(hovers)
                      /\ Leaves(inbox', i - 1, inbox'[i].uri, docs'[inbox'[i].uri],
                                hovers[inbox'[i].id].asked)
    BY <1>1 DEF AskedInv
  <2> DEFINE m == inbox[i + 1]
  <2>1. inbox'[i] = m /\ i + 1 \in 1..Len(inbox) /\ m \in Message
    BY <1>1, <1>2
  <2>2. /\ m.id \in 1..Len(hovers)
        /\ Leaves(inbox, (i + 1) - 1, m.uri, docs[m.uri], hovers[m.id].asked)
    BY <2>1 DEF AskedInv
  <2>3. m.uri \in Uri
    BY <2>1 DEF Message
  <2>4. (i + 1) - 1 = i /\ i \in 1..Len(inbox)
    BY <1>2
  <2> HIDE DEF m
  <2> QED BY <1>3, <2>1, <2>2, <2>3, <2>4
<1>6. CASE /\ outbox' = outbox
           /\ phase' # "running" \/ editor = "gone" \/ docs' = docs
  <2>1. TypeInv'
    BY <1>1, <1>2, <1>6 DEF TypeInv
  <2>2. ViewInv'
    BY <1>1, <1>6 DEF ViewInv
  <2>3. AnswerInv' /\ AnsweredInv'
    BY <1>1, <1>6 DEF AnswerInv, AnsweredInv
  <2> QED BY <1>4, <1>5, <2>1, <2>2, <2>3
<1>7. ASSUME NEW r \in Reply,
             outbox' = Append(outbox, r), Len(outbox) < Capacity,
             \A u \in Uri : IF IsPublish(r, u) THEN r.diags = Shown(docs'[u])
                            ELSE docs'[u] = docs[u],
             r.method = "hover" => /\ r.id \in 1..Len(hovers)
                                   /\ r.markdown = Answer(hovers[r.id].asked)
      PROVE  IInv'
  <2>1. /\ outbox' \in Seq(Reply) /\ Len(outbox') = Len(outbox) + 1 /\ Len(outbox) \in Nat
        /\ outbox'[Len(outbox) + 1] = r
        /\ \A i \in 1..Len(outbox) : outbox'[i] = outbox[i]
    BY <1>1, <1>7, AppendProperties, LenProperties
  <2>2. TypeInv'
    BY <1>1, <1>2, <1>7, <2>1, BoundAssumption DEF TypeInv
  <2>3. ViewInv'
    <3> SUFFICES ASSUME editor # "gone", NEW u \in Uri
                 PROVE  WillShow(outbox', u, view[u], Shown(docs'[u]))
      BY <1>1 DEF ViewInv
    <3>1. WillShow(outbox, u, view[u], Shown(docs[u]))
      BY DEF ViewInv
    <3>2. \/ IsPublish(r, u) /\ r.diags = Shown(docs'[u])
          \/ ~IsPublish(r, u) /\ WillShow(outbox, u, view[u], Shown(docs'[u]))
      BY <1>7, <3>1
    <3> QED BY <1>1, <1>7, <3>2, ShowAppend
  <2>4. AnswerInv'
    <3> SUFFICES ASSUME NEW i \in 1..Len(outbox'), outbox'[i].method = "hover"
                 PROVE  /\ outbox'[i].id \in 1..Len(hovers)
                        /\ outbox'[i].markdown = Answer(hovers[outbox'[i].id].asked)
      BY <1>1 DEF AnswerInv
    <3>1. CASE i \in 1..Len(outbox)
      BY <2>1, <3>1 DEF AnswerInv
    <3>2. CASE i = Len(outbox) + 1
      BY <1>7, <2>1, <3>2
    <3> QED BY <2>1, <3>1, <3>2
  <2>5. AnsweredInv'
    BY <1>1 DEF AnsweredInv
  <2> QED BY <1>4, <1>5, <2>2, <2>3, <2>4, <2>5
<1> QED BY <1>6, <1>7

\* The handlers of documents publish what they have stored.
LEMMA StoreKeeps ==
    ASSUME IInv, NEW t, NEW u \in Uri, t \in Source,
           phase = "running", inbox # <<>>, inbox' = Tail(inbox), UNCHANGED editorVars,
           \A w : Touches(Head(inbox), w) <=> w = u, TextOf(Head(inbox)) = t,
           docs' = [docs EXCEPT ![u] = t], Publish(u, Shown(t))
    PROVE  IInv'
<1> DEFINE r == [method |-> "publish", uri |-> u, diags |-> Shown(t)]
<1>1. /\ docs' \in [Uri -> Source]
      /\ \A w \in Uri : docs'[w] = IF w = u THEN t ELSE docs[w]
  BY DEF IInv, TypeInv
<1>2. \A w \in Uri : docs'[w] = IF Touches(Head(inbox), w) THEN TextOf(Head(inbox)) ELSE docs[w]
  BY <1>1
<1>3. CASE editor = "gone"
  <2>1. outbox' = outbox /\ phase' \in {"running", "failed"} /\ writer' = "ended"
    BY <1>3 DEF Publish, SendToEditor, Lose
  <2> QED BY <1>1, <1>2, <1>3, <2>1, HandleKeeps
<1>4. CASE editor # "gone"
  <2>1. /\ outbox' = Append(outbox, r) /\ Len(outbox) < Capacity /\ phase' = "running"
        /\ writer' \in {"up", "ended"}
    BY <1>4 DEF Publish, SendToEditor, IInv, TypeInv
  <2>2. /\ r \in Reply /\ r.method # "hover" /\ r.diags = Shown(t)
        /\ \A w : IsPublish(r, w) <=> w = u
    BY DEF Reply, IsPublish, Shown, Source
  <2>3. \A w \in Uri : IF IsPublish(r, w) THEN r.diags = Shown(docs'[w]) ELSE docs'[w] = docs[w]
    BY <1>1, <2>2
  <2> HIDE DEF r
  <2> QED BY <1>1, <1>2, <2>1, <2>2, <2>3, HandleKeeps
<1> QED BY <1>3, <1>4

LEMMA FirstMessage ==
    ASSUME IInv, NEW method, Take(method)
    PROVE  /\ phase = "running" /\ inbox # <<>> /\ inbox' = Tail(inbox)
           /\ UNCHANGED editorVars /\ Head(inbox).method = method
           /\ inbox \in Seq(Message) /\ Head(inbox) \in Message
           /\ Head(inbox) = inbox[1] /\ 1 \in 1..Len(inbox)
<1>1. inbox \in Seq(Message) /\ inbox # <<>>
  BY DEF IInv, TypeInv, Take
<1> QED BY <1>1, HeadTailProperties, LenProperties, EmptySeq DEF Take

LEMMA DocumentKeeps ==
    ASSUME IInv, DidOpen \/ DidChange \/ DidClose
    PROVE  IInv'
<1> DEFINE m == Head(inbox)
<1>1. CASE DidOpen
  <2>1. Take("didOpen") /\ docs' = [docs EXCEPT ![m.uri] = m.text]
        /\ Publish(m.uri, Diagnose(m.text))
    BY <1>1 DEF DidOpen
  <2>2. m \in Message /\ m.method = "didOpen"
    BY <2>1, FirstMessage
  <2> HIDE DEF m
  <2>3. m.uri \in Uri /\ m.text \in Text
    BY <2>2 DEF Message
  <2>4. /\ \A w : Touches(m, w) <=> w = m.uri
        /\ TextOf(m) = m.text /\ Shown(m.text) = Diagnose(m.text) /\ m.text \in Source
    BY <2>2, <2>3, TextAssumption DEF Touches, TextOf, Shown, Source
  <2> QED BY <2>1, <2>3, <2>4, FirstMessage, StoreKeeps DEF m
<1>2. CASE DidChange
  <2>1. Take("didChange")
    BY <1>2 DEF DidChange
  <2>2. m \in Message /\ m.method = "didChange"
    BY <2>1, FirstMessage
  <2>3. CASE m.changes = <<>>
    <3>1. UNCHANGED <<docs, outbox, phase>> /\ writer' \in {"up", "ended"}
      BY <1>2, <2>3 DEF DidChange, IInv, TypeInv
    <3>2. \A w : ~Touches(m, w)
      BY <2>2, <2>3 DEF Touches
    <3>3. docs \in [Uri -> Source]
      BY DEF IInv, TypeInv
    <3> QED BY <2>1, <3>1, <3>2, <3>3, FirstMessage, HandleKeeps
  <2>4. CASE m.changes # <<>>
    <3> DEFINE t == m.changes[Len(m.changes)]
    <3>1. docs' = [docs EXCEPT ![m.uri] = t] /\ Publish(m.uri, Diagnose(t))
      BY <1>2, <2>4 DEF DidChange
    <3> HIDE DEF m
    <3>2. m.uri \in Uri /\ m.changes \in UNION { [1..n -> Text] : n \in 0..MaxChanges }
      BY <2>2 DEF Message
    <3>3. PICK n \in 0..MaxChanges : m.changes \in [1..n -> Text]
      BY <3>2
    <3>4. n \in Nat /\ m.changes \in Seq(Text) /\ Len(m.changes) = n
      BY <3>3, BoundAssumption
    <3>5. t \in Text
      BY <2>4, <3>3, <3>4, EmptySeq
    <3>6. \A w : Touches(m, w) <=> w = m.uri
      BY <2>2, <2>4 DEF Touches
    <3>7. TextOf(m) = t
      BY <2>2 DEF TextOf
    <3> HIDE DEF t
    <3>8. Shown(t) = Diagnose(t) /\ t \in Source
      BY <3>5, TextAssumption DEF Shown, Source
    <3> QED BY <2>1, <3>1, <3>2, <3>6, <3>7, <3>8, FirstMessage, StoreKeeps DEF m
  <2> QED BY <2>3, <2>4
<1>3. CASE DidClose
  <2>1. Take("didClose") /\ docs' = [docs EXCEPT ![m.uri] = Closed] /\ Publish(m.uri, {})
    BY <1>3 DEF DidClose
  <2>2. m \in Message /\ m.method = "didClose"
    BY <2>1, FirstMessage
  <2> HIDE DEF m
  <2>3. m.uri \in Uri
    BY <2>2 DEF Message
  <2>4. /\ \A w : Touches(m, w) <=> w = m.uri
        /\ TextOf(m) = Closed /\ Shown(Closed) = {} /\ Closed \in Source
    BY <2>2 DEF Touches, TextOf, Shown, Source
  <2> QED BY <2>1, <2>3, <2>4, FirstMessage, StoreKeeps DEF m
<1> QED BY <1>1, <1>2, <1>3

\* The store holds what the editor had when it asked.
LEMMA HoverKeeps ==
    ASSUME IInv, AnswerHover
    PROVE  IInv'
<1> DEFINE m == Head(inbox)
           source == IF docs[m.uri] = Closed THEN EmptyText ELSE docs[m.uri]
           r == [method |-> "hover", id |-> m.id, markdown |-> HoverMarkdown(source)]
<1>1. Take("hover") /\ SendToEditor(r) /\ docs' = docs
  BY DEF AnswerHover
<1>2. m \in Message /\ m.method = "hover" /\ m = inbox[1] /\ 1 \in 1..Len(inbox) /\ phase = "running"
  BY <1>1, FirstMessage
<1>3. m.uri \in Uri /\ m.id \in 1..MaxSent
  <2> HIDE DEF m
  <2> QED BY <1>2 DEF Message
<1>4. docs \in [Uri -> Source] /\ \A w : ~Touches(m, w)
  <2>1. \A w : ~Touches(m, w)
    <3> HIDE DEF m
    <3> QED BY <1>2 DEF Touches
  <2> QED BY <2>1 DEF IInv, TypeInv
<1>5. m.id \in 1..Len(hovers) /\ docs[m.uri] = hovers[m.id].asked
  <2>1. m.id \in 1..Len(hovers) /\ Leaves(inbox, 1 - 1, m.uri, docs[m.uri], hovers[m.id].asked)
    BY <1>2 DEF IInv, AskedInv
  <2> QED BY <2>1 DEF Leaves
<1>6. source \in Text /\ HoverMarkdown(source) = Answer(hovers[m.id].asked)
  BY <1>3, <1>4, <1>5, TextAssumption DEF Source, Answer
<1> HIDE DEF source
<1>7. /\ r \in Reply /\ r.id = m.id /\ r.markdown = HoverMarkdown(source)
      /\ \A w : ~IsPublish(r, w)
  BY <1>3, <1>6 DEF Reply, IsPublish
<1> HIDE DEF r
<1>8. \A w \in Uri : docs'[w] = IF Touches(m, w) THEN TextOf(m) ELSE docs[w]
  BY <1>1, <1>4
<1>9. CASE editor = "gone"
  <2>1. outbox' = outbox /\ phase' \in {"running", "failed"} /\ writer' = "ended"
    BY <1>1, <1>2, <1>9 DEF SendToEditor, Lose
  <2> QED BY <1>1, <1>4, <1>8, <1>9, <2>1, FirstMessage, HandleKeeps
<1>10. CASE editor # "gone"
  <2>1. /\ outbox' = Append(outbox, r) /\ Len(outbox) < Capacity /\ phase' = "running"
        /\ writer' \in {"up", "ended"}
    BY <1>1, <1>2, <1>10 DEF SendToEditor, IInv, TypeInv
  <2> QED BY <1>1, <1>4, <1>5, <1>6, <1>7, <1>8, <2>1, FirstMessage, HandleKeeps
<1> QED BY <1>9, <1>10

LEMMA NoticeKeeps ==
    ASSUME IInv, Ignore \/ HandleShutdown
    PROVE  IInv'
<1> DEFINE m == Head(inbox)
<1>1. docs \in [Uri -> Source] /\ docs' = docs
  BY DEF IInv, TypeInv, Ignore, HandleShutdown
<1>2. PICK method \in {"other", "shutdown"} : Take(method)
  BY DEF Ignore, HandleShutdown
<1>3. \A w : ~Touches(m, w)
  <2>1. m.method = method
    BY <1>2, FirstMessage
  <2> QED BY <2>1 DEF Touches
<1>4. \A w \in Uri : docs'[w] = IF Touches(m, w) THEN TextOf(m) ELSE docs[w]
  BY <1>1, <1>3
<1> DEFINE r == [method |-> "shutdown"]
<1>8. writer' \in {"up", "ended"}
  BY DEF IInv, TypeInv, Ignore, HandleShutdown, Lose
<1>5. CASE outbox' = outbox /\ phase' \in {"running", "stopping"}
  <2>1. docs' \in [Uri -> Source]
    BY <1>1
  <2> QED BY <1>1, <1>2, <1>4, <1>5, <1>8, <2>1, FirstMessage, HandleKeeps
<1>6. CASE outbox' = Append(outbox, r) /\ Len(outbox) < Capacity /\ phase' = "stopping"
  <2>1. r \in Reply /\ r.method # "hover" /\ \A w : ~IsPublish(r, w)
    BY DEF Reply, IsPublish
  <2> HIDE DEF r
  <2>2. docs' \in [Uri -> Source]
    BY <1>1
  <2> QED BY <1>1, <1>2, <1>4, <1>6, <1>8, <2>1, <2>2, FirstMessage, HandleKeeps
<1>7. phase = "running"
  BY <1>2 DEF Take
<1> QED BY <1>5, <1>6, <1>7, <1>8 DEF Ignore, HandleShutdown, Lose

\* Once the loop has ended the messages left are of no concern.
LEMMA EndKeeps ==
    ASSUME IInv, AwaitExit \/ ExitTimeout \/ EndOfInput \/ Join
    PROVE  IInv'
<1>1. /\ phase' \in {"stopped", "ended", "failed"}
      /\ UNCHANGED <<text, view, hovers, editor, sent, outbox, docs, writer>>
  BY DEF AwaitExit, ExitTimeout, EndOfInput, Join, editorVars
<1>2. inbox' \in Seq(Message)
  <2>1. inbox \in Seq(Message)
    BY DEF IInv, TypeInv
  <2> QED BY <2>1, HeadTailProperties DEF AwaitExit, ExitTimeout, EndOfInput, Join
<1>3. TypeInv'
  BY <1>1, <1>2 DEF IInv, TypeInv
<1> QED BY <1>1, <1>3 DEF IInv, StoreInv, ViewInv, AskedInv, AnswerInv, AnsweredInv

LEMMA StepKeeps == IInv /\ [Next]_vars => IInv'
<1> SUFFICES ASSUME IInv, [Next]_vars PROVE IInv'
  OBVIOUS
<1>1. CASE UNCHANGED vars
  BY <1>1 DEF vars, IInv, TypeInv, StoreInv, ViewInv, AskedInv, AnswerInv, AnsweredInv
<1>2. CASE Serve
  BY <1>2, DocumentKeeps, HoverKeeps, NoticeKeeps, EndKeeps DEF Serve
<1>3. CASE \/ \E u \in Uri : Open(u) \/ Edit(u) \/ Close(u) \/ Hover(u)
           \/ Other \/ Leave
  BY <1>3, EditorKeeps
<1>4. CASE Receive \/ Vanish
  BY <1>4, ReceiveKeeps, VanishKeeps
<1> QED BY <1>1, <1>2, <1>3, <1>4 DEF Next

THEOREM Invariance == Spec => []IInv
BY InitInv, StepKeeps, PTL DEF Spec

\* The messages under way and the stores are what they are meant to be, and the
\* channel to the editor is never over its capacity (kei_lsp/src/server.rs).
THEOREM TypeCorrect == Spec => []TypeOK
<1>1. IInv => TypeOK
  <2> SUFFICES ASSUME IInv PROVE TypeOK
    OBVIOUS
  <2>1. DOMAIN inbox = 1..Len(inbox) /\ DOMAIN outbox = 1..Len(outbox)
    BY LenProperties DEF IInv, TypeInv
  <2>2. \A i \in 1..Len(inbox) : inbox[i] \in Message
    BY DEF IInv, TypeInv
  <2>3. \A i \in 1..Len(outbox) : outbox[i] \in Reply
    BY DEF IInv, TypeInv
  <2> QED BY <2>1, <2>2, <2>3 DEF IInv, TypeInv, TypeOK, Source
<1> QED BY Invariance, <1>1, PTL

\* Whatever is opened, edited and closed while diagnostics are under way: when
\* everything has been handled, the editor shows for every document those of the
\* text it has (kei_lsp/src/server.rs, publish_for without a version).
THEOREM ViewSettlesAlways == Spec => []ViewSettles
<1>1. IInv => ViewSettles
  <2> SUFFICES ASSUME IInv, Quiet, phase = "running", editor # "gone", NEW u \in Uri
               PROVE  view[u] = IF text[u] = Closed THEN {} ELSE Diagnose(text[u])
    BY DEF ViewSettles
  <2>1. Len(inbox) = 0 /\ Len(outbox) = 0
    BY DEF Quiet
  <2>2. docs[u] = text[u]
    BY <2>1 DEF IInv, StoreInv, Leaves
  <2>3. view[u] = Shown(docs[u])
    BY <2>1 DEF IInv, ViewInv, WillShow
  <2> QED BY <2>2, <2>3 DEF Shown
<1> QED BY Invariance, <1>1, PTL

\* Whatever edits are under way before and after it, a hover is answered from
\* the text the editor had when it asked (kei_lsp/src/server.rs, the one loop).
THEOREM HoverAnswered == Spec => []HoverIsOfItsText
<1>1. IInv => HoverIsOfItsText
  <2> SUFFICES ASSUME IInv PROVE HoverIsOfItsText
    OBVIOUS
  <2>1. DOMAIN hovers = 1..Len(hovers)
    BY LenProperties DEF IInv, TypeInv
  <2> QED BY <2>1 DEF IInv, AnsweredInv, Answer, HoverIsOfItsText
<1> QED BY Invariance, <1>1, PTL
-----------------------------------------------------------------------------
(* Progress, what of HoversAnswered and EndsUnlessJoinWaits is about safety: *)
(* nothing the editor waits for is forgotten, and whatever the loop and the  *)
(* editor's reader do leaves less to do.                                     *)

\* The answer to hover i is on its way, or its request is.
Pending(i) == \/ \E k \in 1..Len(inbox) : inbox[k].method = "hover" /\ inbox[k].id = i
              \/ \E k \in 1..Len(outbox) : outbox[k].method = "hover" /\ outbox[k].id = i

PendingInv == phase = "running" /\ editor # "gone" =>
    \A i \in 1..Len(hovers) : hovers[i].answer = "none" => Pending(i)

\* The shutdown is asked for once, and answered once, by a loop that has ended.
ShutdownInv ==
    /\ phase = "running" => editor # "left"
    /\ phase = "running" /\ editor = "leaving" =>
           \E k \in 1..Len(inbox) : inbox[k].method = "shutdown"
    /\ \A k \in 1..Len(inbox) : inbox[k].method = "shutdown" => editor # "editing"
    /\ \A k \in 1..Len(outbox) : outbox[k].method = "shutdown" =>
           /\ phase # "running" /\ editor = "leaving"
           /\ \A j \in 1..Len(outbox) : outbox[j].method = "shutdown" => j = k

ProgressInv == IInv /\ PendingInv /\ ShutdownInv

\* While the loop runs and the editor is there, what the editor waits for is in a channel.
NothingForgotten == phase = "running" /\ editor # "gone" =>
    /\ \A i \in DOMAIN hovers : Waiting(i) => Pending(i)
    /\ editor # "editing" => \E k \in 1..Len(inbox) : inbox[k].method = "shutdown"

\* A message to the server may be answered; the answer to a shutdown is answered
\* again, by an editor that has not left.
StepsLeft == 2 * Len(inbox) + Len(outbox)
             + (IF editor \in {"editing", "leaving"} THEN 2 ELSE 0)
             + (IF phase \in {"running", "stopping"} THEN 2
                ELSE IF phase = "stopped" THEN 1 ELSE 0)

LEMMA AppendFacts ==
    ASSUME NEW S, NEW q \in Seq(S), NEW m \in S
    PROVE  /\ Len(q) \in Nat /\ Len(Append(q, m)) = Len(q) + 1
           /\ Append(q, m)[Len(q) + 1] = m
           /\ \A k \in 1..Len(q) : k \in 1..(Len(q) + 1) /\ Append(q, m)[k] = q[k]
           /\ \A k \in 1..(Len(q) + 1) : k = Len(q) + 1 \/ k \in 1..Len(q)
<1>1. Len(q) \in Nat
  BY LenProperties
<1> QED BY <1>1, AppendProperties

LEMMA TailFacts ==
    ASSUME NEW S, NEW q \in Seq(S), q # <<>>
    PROVE  /\ Len(q) \in Nat /\ Len(q) # 0 /\ Len(Tail(q)) = Len(q) - 1
           /\ Head(q) = q[1] /\ 1 \in 1..Len(q)
           /\ \A k \in 1..Len(Tail(q)) : k + 1 \in 1..Len(q) /\ Tail(q)[k] = q[k + 1]
           /\ \A k \in 1..Len(q) : k = 1 \/ (k - 1 \in 1..Len(Tail(q)) /\ Tail(q)[k - 1] = q[k])
<1>1. /\ Len(q) \in Nat /\ Len(q) # 0 /\ Len(Tail(q)) = Len(q) - 1 /\ Head(q) = q[1]
      /\ \A k \in 1..Len(Tail(q)) : Tail(q)[k] = q[k + 1]
  BY HeadTailProperties, LenProperties, EmptySeq
<1>2. \A k \in 1..Len(q) : k = 1 \/ (k - 1 \in 1..Len(Tail(q)) /\ (k - 1) + 1 = k)
  BY <1>1
<1>3. \A k \in 1..Len(q) : k = 1 \/ (k - 1 \in 1..Len(Tail(q)) /\ Tail(q)[k - 1] = q[k])
  BY <1>1, <1>2
<1> QED BY <1>1, <1>3

\* The channels and the hovers as sequences.
LEMMA QueueTypes ==
    ASSUME ProgressInv
    PROVE  inbox \in Seq(Message) /\ outbox \in Seq(Reply) /\ hovers \in Seq(HoverRecord)
BY DEF ProgressInv, IInv, TypeInv

LEMMA InitProgress == Init => PendingInv /\ ShutdownInv
<1> SUFFICES ASSUME Init PROVE PendingInv /\ ShutdownInv
  OBVIOUS
<1>1. Len(inbox) = 0 /\ Len(outbox) = 0 /\ Len(hovers) = 0
  BY EmptySeq DEF Init
<1> QED BY <1>1 DEF Init, PendingInv, ShutdownInv

\* A request is on its way when it is made.
LEMMA SendProgress ==
    ASSUME ProgressInv, NEW m \in Message, Send(m), editor \in {"editing", "leaving"},
           \/ editor' = editor /\ m.method # "shutdown"
           \/ editor' = "leaving" /\ editor = "editing" /\ m.method = "shutdown",
           \/ hovers' = hovers
           \/ \E h \in HoverRecord : /\ hovers' = Append(hovers, h)
                                     /\ m.method = "hover" /\ m.id = Len(hovers) + 1
    PROVE  PendingInv' /\ ShutdownInv'
<1>1. /\ inbox \in Seq(Message) /\ hovers \in Seq(HoverRecord)
      /\ inbox' = Append(inbox, m) /\ outbox' = outbox /\ phase' = phase
  BY QueueTypes DEF Send
<1>2. /\ Len(inbox) \in Nat /\ Len(inbox') = Len(inbox) + 1 /\ inbox'[Len(inbox) + 1] = m
      /\ \A k \in 1..Len(inbox) : k \in 1..Len(inbox') /\ inbox'[k] = inbox[k]
      /\ \A k \in 1..Len(inbox') : k = Len(inbox) + 1 \/ k \in 1..Len(inbox)
  BY <1>1, AppendFacts
<1>3. Len(inbox) + 1 \in 1..Len(inbox')
  BY <1>2
<1>4. PendingInv'
  <2> SUFFICES ASSUME phase = "running", NEW i \in 1..Len(hovers'), hovers'[i].answer = "none"
               PROVE  Pending(i)'
    BY <1>1 DEF PendingInv
  <2>1. ASSUME i \in 1..Len(hovers), hovers'[i] = hovers[i]
        PROVE  Pending(i)'
    <3>1. Pending(i)
      BY <2>1 DEF ProgressInv, PendingInv
    <3> QED BY <1>1, <1>2, <3>1 DEF Pending
  <2>2. CASE hovers' = hovers
    BY <2>1, <2>2
  <2>3. ASSUME NEW h \in HoverRecord, hovers' = Append(hovers, h),
               m.method = "hover", m.id = Len(hovers) + 1
        PROVE  Pending(i)'
    <3>1. /\ i = Len(hovers) + 1 \/ i \in 1..Len(hovers)
          /\ \A k \in 1..Len(hovers) : hovers'[k] = hovers[k]
      BY <1>1, <2>3, AppendFacts
    <3>2. CASE i = Len(hovers) + 1
      BY <1>2, <1>3, <2>3, <3>2 DEF Pending
    <3> QED BY <2>1, <3>1, <3>2
  <2> QED BY <2>2, <2>3
<1>5. ShutdownInv'
  <2> USE DEF ProgressInv, ShutdownInv
  <2>1. phase' = "running" => editor' # "left"
    OBVIOUS
  <2>2. phase' = "running" /\ editor' = "leaving" =>
            \E k \in 1..Len(inbox') : inbox'[k].method = "shutdown"
    <3>1. CASE editor' = editor
      BY <1>1, <1>2, <3>1
    <3>2. CASE m.method = "shutdown"
      BY <1>2, <1>3, <3>2
    <3> QED BY <3>1, <3>2
  <2>3. \A k \in 1..Len(inbox') : inbox'[k].method = "shutdown" => editor' # "editing"
    <3> SUFFICES ASSUME NEW k \in 1..Len(inbox'), inbox'[k].method = "shutdown"
                 PROVE  editor' # "editing"
      OBVIOUS
    <3>1. CASE k = Len(inbox) + 1
      BY <1>2, <3>1
    <3>2. CASE k \in 1..Len(inbox)
      BY <1>2, <3>2
    <3> QED BY <1>2, <3>1, <3>2
  <2>4. \A k \in 1..Len(outbox') : outbox'[k].method = "shutdown" =>
            /\ phase' # "running" /\ editor' = "leaving"
            /\ \A j \in 1..Len(outbox') : outbox'[j].method = "shutdown" => j = k
    BY <1>1
  <2> QED BY <2>1, <2>2, <2>3, <2>4
<1> QED BY <1>4, <1>5

LEMMA EditorProgress ==
    ASSUME ProgressInv,
           \/ \E u \in Uri : Open(u) \/ Edit(u) \/ Close(u) \/ Hover(u)
           \/ Other \/ Leave
    PROVE  PendingInv' /\ ShutdownInv'
<1>1. /\ text \in [Uri -> Source] /\ sent \in 0..MaxSent
      /\ Len(hovers) \in Nat /\ Len(hovers) <= sent
  BY LenProperties DEF ProgressInv, IInv, TypeInv
<1>2. ASSUME NEW u \in Uri, Open(u)
      PROVE  PendingInv' /\ ShutdownInv'
  <2>1. PICK t \in Text : Send([method |-> "didOpen", uri |-> u, text |-> t])
    BY <1>2 DEF Open
  <2>2. [method |-> "didOpen", uri |-> u, text |-> t] \in Message
    BY DEF Message
  <2> QED BY <1>2, <2>1, <2>2, SendProgress DEF Open
<1>3. ASSUME NEW u \in Uri, Edit(u)
      PROVE  PendingInv' /\ ShutdownInv'
  <2>1. PICK n \in 0..MaxChanges : \E changes \in [1..n -> Text] :
           Send([method |-> "didChange", uri |-> u, changes |-> changes])
    BY <1>3 DEF Edit
  <2>2. PICK changes \in [1..n -> Text] :
           Send([method |-> "didChange", uri |-> u, changes |-> changes])
    BY <2>1
  <2>3. [method |-> "didChange", uri |-> u, changes |-> changes] \in Message
    BY <2>2 DEF Message
  <2> QED BY <1>3, <2>2, <2>3, SendProgress DEF Edit
<1>4. ASSUME NEW u \in Uri, Close(u)
      PROVE  PendingInv' /\ ShutdownInv'
  <2>1. [method |-> "didClose", uri |-> u] \in Message
    BY DEF Message
  <2> QED BY <1>4, <2>1, SendProgress DEF Close
<1>5. ASSUME NEW u \in Uri, Hover(u)
      PROVE  PendingInv' /\ ShutdownInv'
  <2> DEFINE h == [asked |-> text[u], answer |-> "none"]
             m == [method |-> "hover", uri |-> u, id |-> Len(hovers) + 1]
  <2>1. Send(m) /\ hovers' = Append(hovers, h) /\ editor = "editing" /\ editor' = editor
    BY <1>5 DEF Hover
  <2>2. Len(hovers) + 1 \in 1..MaxSent
    BY <1>1, <2>1, BoundAssumption DEF Send
  <2>3. m \in Message /\ m.method = "hover" /\ m.id = Len(hovers) + 1
    BY <2>2 DEF Message
  <2>4. h \in HoverRecord
    BY <1>1 DEF HoverRecord
  <2> HIDE DEF h, m
  <2> QED BY <2>1, <2>3, <2>4, SendProgress
<1>6. CASE Other
  <2>1. [method |-> "other"] \in Message
    BY DEF Message
  <2> QED BY <1>6, <2>1, SendProgress DEF Other
<1>7. CASE Leave
  <2>1. [method |-> "shutdown"] \in Message
    BY DEF Message
  <2> QED BY <1>7, <2>1, SendProgress DEF Leave
<1> QED BY <1>2, <1>3, <1>4, <1>5, <1>6, <1>7

\* What is read is no longer waited for.  The answer to the shutdown makes the
\* editor say exit, once.
LEMMA ReceiveProgress ==
    ASSUME ProgressInv, Receive
    PROVE  PendingInv' /\ ShutdownInv' /\ StepsLeft' < StepsLeft
<1> DEFINE m == Head(outbox)
           e == [method |-> "exit"]
<1>1. /\ outbox \in Seq(Reply) /\ outbox # <<>> /\ outbox' = Tail(outbox)
      /\ inbox \in Seq(Message) /\ hovers \in Seq(HoverRecord)
      /\ hovers' = (IF m.method = "hover"
                    THEN [hovers EXCEPT ![m.id].answer = m.markdown] ELSE hovers)
      /\ IF m.method = "shutdown" THEN editor' = "left" /\ inbox' = Append(inbox, e)
         ELSE UNCHANGED <<editor, inbox>>
      /\ phase' = phase
  BY QueueTypes DEF Receive
<1>2. /\ Len(outbox) \in Nat /\ Len(outbox) # 0 /\ Len(outbox') = Len(outbox) - 1
      /\ m = outbox[1] /\ 1 \in 1..Len(outbox) /\ m \in Reply
      /\ \A k \in 1..Len(outbox') : k + 1 \in 1..Len(outbox) /\ outbox'[k] = outbox[k + 1]
      /\ \A k \in 1..Len(outbox) :
            k = 1 \/ (k - 1 \in 1..Len(outbox') /\ outbox'[k - 1] = outbox[k])
  BY <1>1, TailFacts
<1>3. /\ Len(inbox) \in Nat
      /\ m.method # "shutdown" => inbox' = inbox /\ editor' = editor
      /\ m.method = "shutdown" => /\ phase # "running" /\ editor = "leaving" /\ editor' = "left"
                                  /\ Len(inbox') = Len(inbox) + 1
                                  /\ inbox'[Len(inbox) + 1].method = "exit"
                                  /\ \A k \in 1..Len(inbox) : inbox'[k] = inbox[k]
                                  /\ \A k \in 1..(Len(inbox) + 1) :
                                        k = Len(inbox) + 1 \/ k \in 1..Len(inbox)
  <2>1. Len(inbox) \in Nat
    BY <1>1, LenProperties
  <2>2. CASE m.method = "shutdown"
    <3>1. e \in Message /\ e.method = "exit"
      BY DEF Message
    <3>2. phase # "running" /\ editor = "leaving"
      BY <1>2, <2>2 DEF ProgressInv, ShutdownInv
    <3>3. editor' = "left" /\ inbox' = Append(inbox, e)
      BY <1>1, <2>2
    <3> HIDE DEF e, m
    <3> QED BY <1>1, <2>2, <3>1, <3>2, <3>3, AppendFacts
  <2> HIDE DEF m
  <2> QED BY <1>1, <2>1, <2>2
<1> HIDE DEF m, e
<1>4. PendingInv'
  <2> SUFFICES ASSUME phase = "running", editor' # "gone", NEW i \in 1..Len(hovers'),
                      hovers'[i].answer = "none"
               PROVE  Pending(i)'
    BY <1>1 DEF PendingInv
  <2>1. m.method # "shutdown" /\ inbox' = inbox /\ editor' = editor
    BY <1>3
  <2>2. i \in 1..Len(hovers) /\ hovers[i].answer = "none" /\ ~(m.method = "hover" /\ m.id = i)
    <3>1. CASE m.method # "hover"
      BY <1>1, <3>1
    <3>2. CASE m.method = "hover"
      <4>1. /\ m.id \in 1..Len(hovers)
            /\ m.markdown # "none"
        <5>1. m.markdown \in { HoverMarkdown(t) : t \in Text }
          BY <1>2, <3>2, ReplyFields
        <5> QED BY <1>2, <3>2, <5>1, TextAssumption DEF ProgressInv, IInv, AnswerInv
      <4>2. hovers[m.id] \in HoverRecord
        BY <1>1, <4>1
      <4> DEFINE h == [hovers[m.id] EXCEPT !.answer = m.markdown]
      <4>3. h \in HoverRecord /\ h.answer = m.markdown
        BY <1>2, <3>2, <4>2, ReplyFields DEF HoverRecord
      <4>4. hovers' = [hovers EXCEPT ![m.id] = h]
        BY <1>1, <3>2
      <4> HIDE DEF h
      <4>5. /\ Len(hovers') = Len(hovers)
            /\ \A k \in 1..Len(hovers) : hovers'[k] = IF k = m.id THEN h ELSE hovers[k]
        BY <1>1, <4>1, <4>3, <4>4, ExceptSeq
      <4> QED BY <4>1, <4>3, <4>5
    <3> QED BY <3>1, <3>2
  <2>3. Pending(i)
    BY <2>1, <2>2 DEF ProgressInv, PendingInv
  <2>4. CASE \E k \in 1..Len(inbox) : inbox[k].method = "hover" /\ inbox[k].id = i
    BY <2>1, <2>4 DEF Pending
  <2>5. CASE \E k \in 1..Len(outbox) : outbox[k].method = "hover" /\ outbox[k].id = i
    <3>1. PICK k \in 1..Len(outbox) : outbox[k].method = "hover" /\ outbox[k].id = i
      BY <2>5
    <3>2. k - 1 \in 1..Len(outbox') /\ outbox'[k - 1] = outbox[k]
      BY <1>2, <2>2, <3>1
    <3> QED BY <3>1, <3>2 DEF Pending
  <2> QED BY <2>3, <2>4, <2>5 DEF Pending
<1>5. ShutdownInv'
  <2> USE DEF ProgressInv, ShutdownInv
  <2>1. /\ phase' = "running" => editor' # "left"
        /\ phase' = "running" /\ editor' = "leaving" =>
               \E k \in 1..Len(inbox') : inbox'[k].method = "shutdown"
    BY <1>1, <1>3
  <2>2. \A k \in 1..Len(inbox') : inbox'[k].method = "shutdown" => editor' # "editing"
    BY <1>3
  <2>3. ASSUME NEW k \in 1..Len(outbox'), outbox'[k].method = "shutdown"
        PROVE  /\ phase' # "running" /\ editor' = "leaving"
               /\ \A j \in 1..Len(outbox') : outbox'[j].method = "shutdown" => j = k
    <3>1. k + 1 \in 1..Len(outbox) /\ outbox[k + 1].method = "shutdown" /\ k + 1 # 1
      BY <1>2, <2>3
    <3>2. m.method # "shutdown"
      BY <1>2, <3>1
    <3>3. phase # "running" /\ editor = "leaving"
      BY <3>1
    <3>4. ASSUME NEW j \in 1..Len(outbox'), outbox'[j].method = "shutdown"
          PROVE  j = k
      <4>1. j + 1 = k + 1
        BY <1>2, <3>1, <3>4
      <4> QED BY <4>1
    <3> QED BY <1>1, <1>3, <3>2, <3>3, <3>4
  <2> QED BY <2>1, <2>2, <2>3
<1>6. StepsLeft' < StepsLeft
  BY <1>1, <1>2, <1>3 DEF StepsLeft
<1> QED BY <1>4, <1>5, <1>6

LEMMA VanishProgress ==
    ASSUME ProgressInv, Vanish
    PROVE  PendingInv' /\ ShutdownInv'
<1>1. Len(outbox') = 0 /\ editor' = "gone" /\ inbox' = inbox
  BY EmptySeq DEF Vanish
<1> QED BY <1>1 DEF PendingInv, ShutdownInv
-----------------------------------------------------------------------------
\* The loop takes a message for less than one reply, answers a hover, and ends
\* with the shutdown.
LEMMA TakeProgress ==
    ASSUME ProgressInv, NEW method, Take(method),
           phase' \in {"running", "stopping", "stopped", "ended", "failed"},
           phase' = "running" => method # "shutdown",
           \/ outbox' = outbox /\ (method = "hover" => phase' # "running" \/ editor = "gone")
           \/ \E r \in Reply :
                 /\ outbox' = Append(outbox, r) /\ editor # "gone"
                 /\ method = "hover" => r.method = "hover" /\ r.id = Head(inbox).id
                 /\ r.method = "shutdown" => method = "shutdown"
    PROVE  PendingInv' /\ ShutdownInv' /\ StepsLeft' < StepsLeft
<1> DEFINE m == Head(inbox)
<1>1. /\ phase = "running" /\ inbox # <<>> /\ inbox' = Tail(inbox) /\ m.method = method
      /\ editor' = editor /\ hovers' = hovers
      /\ inbox \in Seq(Message) /\ outbox \in Seq(Reply)
  BY QueueTypes DEF Take, editorVars
<1>2. /\ Len(inbox) \in Nat /\ Len(inbox) # 0 /\ Len(inbox') = Len(inbox) - 1
      /\ m = inbox[1] /\ 1 \in 1..Len(inbox)
      /\ \A k \in 1..Len(inbox') : k + 1 \in 1..Len(inbox) /\ inbox'[k] = inbox[k + 1]
      /\ \A k \in 1..Len(inbox) :
            k = 1 \/ (k - 1 \in 1..Len(inbox') /\ inbox'[k - 1] = inbox[k])
  BY <1>1, TailFacts
<1> HIDE DEF m
<1>3. /\ Len(outbox) \in Nat
      /\ Len(outbox') \in {Len(outbox), Len(outbox) + 1}
      /\ \A k \in 1..Len(outbox) : k \in 1..Len(outbox') /\ outbox'[k] = outbox[k]
      /\ \A k \in 1..Len(outbox') : outbox'[k].method = "shutdown" =>
            k \in 1..Len(outbox) \/ (k = Len(outbox) + 1 /\ method = "shutdown" /\ editor # "gone")
      /\ phase' = "running" /\ editor # "gone" /\ method = "hover" =>
            \E k \in 1..Len(outbox') : outbox'[k].method = "hover" /\ outbox'[k].id = m.id
  <2>1. Len(outbox) \in Nat
    BY <1>1, LenProperties
  <2>2. CASE outbox' = outbox /\ (method = "hover" => phase' # "running" \/ editor = "gone")
    BY <2>1, <2>2
  <2>3. ASSUME NEW r \in Reply, outbox' = Append(outbox, r), editor # "gone",
               method = "hover" => r.method = "hover" /\ r.id = m.id,
               r.method = "shutdown" => method = "shutdown"
        PROVE  <1>3!1
    <3>1. /\ Len(outbox') = Len(outbox) + 1 /\ outbox'[Len(outbox) + 1] = r
          /\ \A k \in 1..Len(outbox) : k \in 1..(Len(outbox) + 1) /\ outbox'[k] = outbox[k]
          /\ \A k \in 1..(Len(outbox) + 1) : k = Len(outbox) + 1 \/ k \in 1..Len(outbox)
      BY <1>1, <2>3, AppendFacts
    <3> QED BY <2>1, <2>3, <3>1
  <2> QED BY <2>2, <2>3 DEF m
<1>4. PendingInv'
  <2> SUFFICES ASSUME phase' = "running", editor # "gone", NEW i \in 1..Len(hovers),
                      hovers[i].answer = "none"
               PROVE  Pending(i)'
    BY <1>1 DEF PendingInv
  <2>1. Pending(i)
    BY <1>1 DEF ProgressInv, PendingInv
  <2>2. ASSUME NEW k \in 1..Len(inbox), inbox[k].method = "hover", inbox[k].id = i
        PROVE  Pending(i)'
    <3>1. CASE k = 1
      <4>1. m.id = i /\ method = "hover"
        BY <1>1, <1>2, <2>2, <3>1
      <4> QED BY <1>3, <4>1 DEF Pending
    <3>2. CASE k # 1
      BY <1>2, <2>2, <3>2 DEF Pending
    <3> QED BY <3>1, <3>2
  <2>3. ASSUME NEW k \in 1..Len(outbox), outbox[k].method = "hover", outbox[k].id = i
        PROVE  Pending(i)'
    BY <1>3, <2>3 DEF Pending
  <2> QED BY <2>1, <2>2, <2>3 DEF Pending
<1>5. ShutdownInv'
  <2> USE DEF ProgressInv, ShutdownInv
  <2>1. phase' = "running" => editor' # "left"
    BY <1>1
  <2>2. phase' = "running" /\ editor' = "leaving" =>
            \E k \in 1..Len(inbox') : inbox'[k].method = "shutdown"
    <3> SUFFICES ASSUME phase' = "running", editor = "leaving"
                 PROVE  \E k \in 1..Len(inbox') : inbox'[k].method = "shutdown"
      BY <1>1
    <3>1. PICK k \in 1..Len(inbox) : inbox[k].method = "shutdown"
      BY <1>1
    <3>2. k # 1
      BY <1>1, <1>2, <3>1
    <3> QED BY <1>2, <3>1, <3>2
  <2>3. \A k \in 1..Len(inbox') : inbox'[k].method = "shutdown" => editor' # "editing"
    BY <1>1, <1>2
  <2>4. ASSUME NEW k \in 1..Len(outbox'), outbox'[k].method = "shutdown"
        PROVE  /\ phase' # "running" /\ editor' = "leaving"
               /\ \A j \in 1..Len(outbox') : outbox'[j].method = "shutdown" => j = k
    <3>1. \A j \in 1..Len(outbox) : outbox[j].method # "shutdown"
      BY <1>1
    <3>2. \A j \in 1..Len(outbox') : outbox'[j].method = "shutdown" =>
             j = Len(outbox) + 1 /\ method = "shutdown" /\ editor # "gone"
      BY <1>3, <3>1
    <3>3. m.method = "shutdown" /\ editor # "gone" /\ phase' # "running"
      BY <1>1, <2>4, <3>2
    <3>4. editor # "editing" /\ editor # "left"
      BY <1>1, <1>2, <3>3
    <3>5. editor = "leaving"
      BY <3>3, <3>4 DEF IInv, TypeInv
    <3> QED BY <1>1, <2>4, <3>2, <3>3, <3>5
  <2> QED BY <2>1, <2>2, <2>3, <2>4
<1>6. StepsLeft' < StepsLeft
  <2>1. (IF phase' \in {"running", "stopping"} THEN 2
         ELSE IF phase' = "stopped" THEN 1 ELSE 0) \in 0..2
    OBVIOUS
  <2> QED BY <1>1, <1>2, <1>3, <2>1 DEF StepsLeft
<1> QED BY <1>4, <1>5, <1>6

\* The loop has ended or ends: there is no answer any more.
LEMMA EndProgress ==
    ASSUME ProgressInv, AwaitExit \/ ExitTimeout \/ EndOfInput \/ Join
    PROVE  PendingInv' /\ ShutdownInv' /\ StepsLeft' < StepsLeft
<1>1. /\ \/ phase \in {"running", "stopping"} /\ phase' \in {"stopped", "failed"}
         \/ phase = "stopped" /\ phase' = "ended"
      /\ editor' = editor /\ outbox' = outbox
      /\ inbox' = inbox \/ (inbox # <<>> /\ inbox' = Tail(inbox))
      /\ inbox \in Seq(Message) /\ outbox \in Seq(Reply)
  BY QueueTypes DEF AwaitExit, ExitTimeout, EndOfInput, Join, editorVars
<1>2. /\ Len(inbox) \in Nat /\ Len(inbox') \in Nat /\ Len(outbox) \in Nat
      /\ Len(inbox') <= Len(inbox)
      /\ \A k \in 1..Len(inbox') : \E j \in 1..Len(inbox) : inbox'[k] = inbox[j]
  <2>1. CASE inbox' = inbox
    BY <1>1, <2>1, LenProperties
  <2>2. CASE inbox # <<>> /\ inbox' = Tail(inbox)
    BY <1>1, <2>2, TailFacts, LenProperties
  <2> QED BY <1>1, <2>1, <2>2
<1>3. \A k \in 1..Len(inbox') : inbox'[k].method = "shutdown" => editor' # "editing"
  BY <1>1, <1>2 DEF ProgressInv, ShutdownInv
<1>4. ASSUME NEW k \in 1..Len(outbox'), outbox'[k].method = "shutdown"
      PROVE  /\ phase' # "running" /\ editor' = "leaving"
             /\ \A j \in 1..Len(outbox') : outbox'[j].method = "shutdown" => j = k
  BY <1>1, <1>4 DEF ProgressInv, ShutdownInv
<1>5. StepsLeft' < StepsLeft
  BY <1>1, <1>2 DEF StepsLeft
<1> QED BY <1>1, <1>3, <1>4, <1>5 DEF PendingInv, ShutdownInv

LEMMA ServeProgress ==
    ASSUME ProgressInv, Serve
    PROVE  PendingInv' /\ ShutdownInv' /\ StepsLeft' < StepsLeft
<1> DEFINE m == Head(inbox)
           Goal == PendingInv' /\ ShutdownInv' /\ StepsLeft' < StepsLeft
<1>1. ASSUME NEW method, Take(method)
      PROVE  m \in Message /\ m.method = method /\ phase = "running"
  BY <1>1, FirstMessage DEF ProgressInv
<1>2. ASSUME NEW method, Take(method), method \notin {"hover", "shutdown"},
             NEW r \in Reply, r.method # "shutdown", SendToEditor(r)
      PROVE  Goal
  <2>1. phase = "running"
    BY <1>1, <1>2
  <2>2. CASE editor = "gone"
    <3>1. outbox' = outbox /\ phase' \in {"running", "failed"}
      BY <1>2, <2>1, <2>2 DEF SendToEditor, Lose
    <3> QED BY <1>2, <3>1, TakeProgress
  <2>3. CASE editor # "gone"
    <3>1. outbox' = Append(outbox, r) /\ phase' = "running"
      BY <1>2, <2>1, <2>3 DEF SendToEditor
    <3> QED BY <1>2, <2>3, <3>1, TakeProgress
  <2> QED BY <2>2, <2>3
<1>3. ASSUME NEW method, Take(method), method \notin {"hover", "shutdown"},
             outbox' = outbox, phase' = phase
      PROVE  Goal
  <2>1. phase' = "running"
    BY <1>1, <1>3
  <2> QED BY <1>3, <2>1, TakeProgress
<1>4. ASSUME NEW method, Take(method), method \notin {"hover", "shutdown"},
             NEW t \in Source, Publish(m.uri, Shown(t)), m.uri \in Uri
      PROVE  Goal
  <2> DEFINE r == [method |-> "publish", uri |-> m.uri, diags |-> Shown(t)]
  <2>1. r \in Reply /\ r.method # "shutdown"
    BY <1>4 DEF Reply, Shown, Source
  <2>2. SendToEditor(r)
    BY <1>4 DEF Publish
  <2> HIDE DEF r
  <2> QED BY <1>2, <1>4, <2>1, <2>2
<1>5. CASE DidOpen
  <2>1. Take("didOpen") /\ Publish(m.uri, Diagnose(m.text))
    BY <1>5 DEF DidOpen
  <2>2. m.uri \in Uri /\ m.text \in Text
    <3>1. m \in Message /\ m.method = "didOpen"
      BY <1>1, <2>1
    <3> HIDE DEF m
    <3> QED BY <3>1 DEF Message
  <2>3. Shown(m.text) = Diagnose(m.text) /\ m.text \in Source
    BY <2>2, TextAssumption DEF Shown, Source
  <2> QED BY <1>4, <2>1, <2>2, <2>3
<1>6. CASE DidChange
  <2>1. Take("didChange")
    BY <1>6 DEF DidChange
  <2>2. m \in Message /\ m.method = "didChange"
    BY <1>1, <2>1
  <2>3. CASE m.changes = <<>>
    BY <1>3, <1>6, <2>1, <2>3 DEF DidChange
  <2>4. CASE m.changes # <<>>
    <3> DEFINE t == m.changes[Len(m.changes)]
    <3>1. Publish(m.uri, Diagnose(t))
      BY <1>6, <2>4 DEF DidChange
    <3>2. m.uri \in Uri /\ t \in Text
      <4> HIDE DEF m
      <4>1. m.uri \in Uri /\ m.changes \in UNION { [1..n -> Text] : n \in 0..MaxChanges }
        BY <2>2 DEF Message
      <4>2. PICK n \in 0..MaxChanges : m.changes \in [1..n -> Text]
        BY <4>1
      <4>3. n \in Nat /\ m.changes \in Seq(Text) /\ Len(m.changes) = n
        BY <4>2, BoundAssumption
      <4> QED BY <2>4, <4>1, <4>2, <4>3, EmptySeq
    <3> HIDE DEF t
    <3>3. Shown(t) = Diagnose(t) /\ t \in Source
      BY <3>2, TextAssumption DEF Shown, Source
    <3> QED BY <1>4, <2>1, <3>1, <3>2, <3>3
  <2> QED BY <2>3, <2>4
<1>7. CASE DidClose
  <2>1. Take("didClose") /\ Publish(m.uri, {})
    BY <1>7 DEF DidClose
  <2>2. m.uri \in Uri
    <3>1. m \in Message /\ m.method = "didClose"
      BY <1>1, <2>1
    <3> HIDE DEF m
    <3> QED BY <3>1 DEF Message
  <2>3. Shown(Closed) = {} /\ Closed \in Source
    BY DEF Shown, Source
  <2> QED BY <1>4, <2>1, <2>2, <2>3
<1>8. CASE AnswerHover
  <2> DEFINE source == IF docs[m.uri] = Closed THEN EmptyText ELSE docs[m.uri]
             r == [method |-> "hover", id |-> m.id, markdown |-> HoverMarkdown(source)]
  <2>1. Take("hover") /\ SendToEditor(r)
    BY <1>8 DEF AnswerHover
  <2>2. m.uri \in Uri /\ m.id \in 1..MaxSent /\ phase = "running"
    <3>1. m \in Message /\ m.method = "hover" /\ phase = "running"
      BY <1>1, <2>1
    <3> HIDE DEF m
    <3> QED BY <3>1 DEF Message
  <2>3. source \in Text
    BY <2>2, TextAssumption DEF ProgressInv, IInv, TypeInv, Source
  <2> HIDE DEF source
  <2>4. r \in Reply /\ r.method = "hover" /\ r.id = m.id
    BY <2>2, <2>3 DEF Reply
  <2> HIDE DEF r
  <2>5. CASE editor = "gone"
    <3>1. outbox' = outbox /\ phase' \in {"running", "failed"}
      BY <2>1, <2>2, <2>5 DEF SendToEditor, Lose
    <3> QED BY <2>1, <2>5, <3>1, TakeProgress
  <2>6. CASE editor # "gone"
    <3>1. outbox' = Append(outbox, r) /\ phase' = "running"
      BY <2>1, <2>2, <2>6 DEF SendToEditor
    <3> QED BY <2>1, <2>4, <2>6, <3>1, TakeProgress
  <2> QED BY <2>5, <2>6
<1>9. CASE Ignore
  BY <1>3, <1>9 DEF Ignore
<1>10. CASE HandleShutdown
  <2> DEFINE r == [method |-> "shutdown"]
  <2>1. /\ Take("shutdown") /\ phase' = "stopping"
        /\ outbox' = outbox \/ (outbox' = Append(outbox, r) /\ editor # "gone")
    BY <1>10 DEF HandleShutdown, Lose
  <2>2. r \in Reply
    BY DEF Reply
  <2> HIDE DEF r
  <2> QED BY <2>1, <2>2, TakeProgress
<1>11. CASE AwaitExit \/ ExitTimeout \/ EndOfInput \/ Join
  BY <1>11, EndProgress
<1> QED BY <1>5, <1>6, <1>7, <1>8, <1>9, <1>10, <1>11 DEF Serve

LEMMA ProgressStep == ProgressInv /\ [Next]_vars => ProgressInv'
<1> SUFFICES ASSUME ProgressInv, [Next]_vars PROVE ProgressInv'
  OBVIOUS
<1>1. IInv'
  BY StepKeeps DEF ProgressInv
<1>2. CASE UNCHANGED vars
  BY <1>1, <1>2 DEF vars, ProgressInv, PendingInv, Pending, ShutdownInv
<1>3. CASE Next
  <2>1. PendingInv' /\ ShutdownInv'
    BY <1>3, ServeProgress, EditorProgress, ReceiveProgress, VanishProgress DEF Next
  <2> QED BY <1>1, <2>1 DEF ProgressInv
<1> QED BY <1>2, <1>3

LEMMA Progress == Spec => []ProgressInv
<1>1. Init => ProgressInv
  BY InitInv, InitProgress DEF ProgressInv
<1> QED BY <1>1, ProgressStep, PTL DEF Spec

\* A request stays in one of the two channels until the editor has its answer, and
\* the shutdown until the loop has met it, whatever is opened, edited or closed in
\* between: nobody waits for something that is nowhere (kei_lsp/src/server.rs, main_loop).
THEOREM NothingIsForgotten == Spec => []NothingForgotten
<1>1. ProgressInv => NothingForgotten
  <2> SUFFICES ASSUME ProgressInv, phase = "running", editor # "gone"
               PROVE  /\ \A i \in DOMAIN hovers : Waiting(i) => Pending(i)
                      /\ editor # "editing" =>
                             \E k \in 1..Len(inbox) : inbox[k].method = "shutdown"
    BY DEF NothingForgotten
  <2>1. DOMAIN hovers = 1..Len(hovers)
    BY QueueTypes, LenProperties
  <2>2. editor \in {"editing", "leaving"}
    BY DEF ProgressInv, IInv, TypeInv, ShutdownInv
  <2> QED BY <2>1, <2>2 DEF ProgressInv, PendingInv, ShutdownInv, Waiting
<1> QED BY <1>1, Progress, PTL

\* Whatever the server handles and the editor reads leaves less to do: between two
\* things an editor says, the two take at most StepsLeft steps, however full the
\* channels are, and an answer never makes more messages than it takes away
\* (kei_lsp/src/server.rs, main_loop and handle_shutdown).
THEOREM ServingAdvances ==
    Spec => [](StepsLeft \in Nat) /\ [][(Serve \/ Receive) => StepsLeft' < StepsLeft]_vars
<1>1. ProgressInv => StepsLeft \in Nat
  <2> SUFFICES ASSUME ProgressInv PROVE StepsLeft \in Nat
    OBVIOUS
  <2>1. Len(inbox) \in Nat /\ Len(outbox) \in Nat
    BY QueueTypes, LenProperties
  <2> QED BY <2>1 DEF StepsLeft
<1>2. ProgressInv /\ [Next]_vars => [(Serve \/ Receive) => StepsLeft' < StepsLeft]_vars
  BY ServeProgress, ReceiveProgress
<1> QED BY <1>1, <1>2, Progress, PTL DEF Spec
=============================================================================

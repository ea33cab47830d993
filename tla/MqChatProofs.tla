---------------------------- MODULE MqChatProofs ----------------------------
(***************************************************************************)
(* Proofs about the chat over message queues, for any number of users,     *)
(* clients, runs and texts and any length of the queues: every variable    *)
(* has its type and no queue overflows, and every client sees all texts    *)
(* from its registration on, in the order in which they were posted.       *)
(***************************************************************************)
EXTENDS MqChat, FiniteSetTheorems, TLAPS

USE LimitsAssumption, UsersAssumption

-----------------------------------------------------------------------------
(* The inductive invariant.                                                *)

Sending == {v \in Users : pc[v] = "send"}
Listed(q) == \E p \in 1 .. Len(clients) : clients[p] = q
\* The broadcast of a text has come past an entry of q, or there is none.
Reached(q) == \/ ~(server = "send" /\ msg.type = "text")
              \/ \E p \in 1 .. Len(clients) : p < next /\ clients[p] = q
Finished(q) == IF Reached(q) THEN handled ELSE handled - 1

\* Every line somebody has typed and not sent is within the bound.
PostsFit == posted + Cardinality(Sending) <= MaxPosts

\* The queues of later runs are empty and not listed.
RunInv == /\ \A u \in Users : Exists(u) => run[u] >= 1
          /\ \A u \in Users, r \in 1 .. MaxRuns :
               r > run[u] => queue[<<u, r>>] = <<>> /\ ~Listed(<<u, r>>)

\* The texts that wait for the server are those it has not taken up, in order.
PostInv ==
  /\ handled <= posted
  /\ \A i \in Texts(chat_queue) : handled < chat_queue[i].no /\ chat_queue[i].no <= posted
  /\ \A i, j \in Texts(chat_queue) : i < j => chat_queue[i].no < chat_queue[j].no
  /\ \A k \in handled + 1 .. posted : \E i \in Texts(chat_queue) : chat_queue[i].no = k

ServerInv == /\ next <= Len(clients) + 1
             /\ server = "send" /\ msg.type = "text" => msg.no = handled

\* The stream of a user is in order and complete up to the broadcast that goes
\* on, and who is not listed has heard nothing.
Heard(u) == /\ Ordered(Stream(u), handled, Finished(Current(u)))
            /\ Listed(Current(u)) \/ Texts(Stream(u)) = {}
HeardInv == \A u \in Users : Exists(u) => Heard(u)

IInv == TypeOK /\ PostsFit /\ RunInv /\ PostInv /\ ServerInv /\ HeardInv
-----------------------------------------------------------------------------
(* Sequences.                                                              *)

(* Two sequences of the same length with the same entries are the same.    *)
LEMMA SameSeq ==
  ASSUME NEW q \in Seq(Messages), NEW r \in Seq(Messages), Len(q) = Len(r),
         \A i \in 1 .. Len(q) : q[i] = r[i]
  PROVE  q = r
OBVIOUS

(* To receive the head of a queue leaves the stream as it is.              *)
LEMMA StreamReceive ==
  ASSUME NEW g \in Seq(Messages), NEW q \in Seq(Messages), q # <<>>
  PROVE  Append(g, Head(q)) \o Tail(q) = g \o q
<1> DEFINE a == Append(g, Head(q)) \o Tail(q)
           b == g \o q
<1>1. Head(q) \in Messages /\ Tail(q) \in Seq(Messages)
  OBVIOUS
<1>2. a \in Seq(Messages) /\ b \in Seq(Messages) /\ Len(a) = Len(b)
  BY <1>1
<1>3. \A i \in 1 .. Len(a) : a[i] = b[i]
  BY <1>1
<1> HIDE DEF a, b
<1>4. a = b
  BY <1>2, <1>3, SameSeq
<1> QED BY <1>4 DEF a, b

(* To append to a queue is to append to the stream.                        *)
LEMMA StreamAppend ==
  ASSUME NEW g \in Seq(Messages), NEW q \in Seq(Messages), NEW m \in Messages
  PROVE  g \o Append(q, m) = Append(g \o q, m)
<1> DEFINE a == g \o Append(q, m)
           b == Append(g \o q, m)
<1>2. a \in Seq(Messages) /\ b \in Seq(Messages) /\ Len(a) = Len(b)
  OBVIOUS
<1>3. \A i \in 1 .. Len(a) : a[i] = b[i]
  OBVIOUS
<1> HIDE DEF a, b
<1>4. a = b
  BY <1>2, <1>3, SameSeq
<1> QED BY <1>4 DEF a, b

(* What is appended to a sequence is its last entry.                       *)
LEMMA Appended ==
  ASSUME NEW S, NEW s \in Seq(S), NEW m \in S
  PROVE  /\ Append(s, m) \in Seq(S) /\ Len(s) \in Nat /\ Len(Append(s, m)) = Len(s) + 1
         /\ Append(s, m)[Len(s) + 1] = m
         /\ \A i \in 1 .. Len(s) : Append(s, m)[i] = s[i]
OBVIOUS

-----------------------------------------------------------------------------
(* Streams.                                                                *)

(* Texts have numbers.                                                     *)
LEMMA TextNo ==
  ASSUME NEW s \in Seq(Messages), NEW i \in Texts(s)
  PROVE  s[i].no \in Nat /\ i \in Nat
<1>1. s[i] \in Messages /\ i \in Nat
  BY DEF Texts
<1> QED BY <1>1 DEF Messages

(* A stream without texts is in order.                                     *)
LEMMA OrderedEmpty ==
  ASSUME NEW s, NEW h, NEW f, Texts(s) = {}
  PROVE  Ordered(s, h, f)
BY DEF Ordered

(* A text that the server takes up is not yet asked for.                   *)
LEMMA OrderedMore ==
  ASSUME NEW s \in Seq(Messages), NEW h \in Nat, NEW f \in Int, Ordered(s, h, f)
  PROVE  Ordered(s, h + 1, f)
<1>1. \A i \in Texts(s) : s[i].no \in Nat
  BY TextNo
<1> QED BY <1>1 DEF Ordered

(* What is there up to a text is there up to the one before.               *)
LEMMA OrderedLess ==
  ASSUME NEW s \in Seq(Messages), NEW h \in Nat, NEW f \in Int, Ordered(s, h, f)
  PROVE  Ordered(s, h, f - 1)
<1>1. \A i \in Texts(s) : s[i].no \in Nat
  BY TextNo
<1> QED BY <1>1 DEF Ordered

\* What appending m to s does to the texts.
TextsGrow(s, m) ==
  /\ \A i \in Texts(s) : /\ i \in Texts(Append(s, m)) /\ Append(s, m)[i] = s[i]
                        /\ i <= Len(s) /\ i \in Nat
  /\ \A i \in Texts(Append(s, m)) : i \in Texts(s) \/ i = Len(s) + 1
  /\ Append(s, m)[Len(s) + 1] = m /\ Len(s) \in Nat
  /\ m.type = "text" => Len(s) + 1 \in Texts(Append(s, m))
  /\ m.type # "text" => Len(s) + 1 \notin Texts(Append(s, m))

(* The texts of a stream to which a message is appended.                   *)
LEMMA TextsAppend ==
  ASSUME NEW s \in Seq(Messages), NEW m \in Messages
  PROVE  TextsGrow(s, m)
BY Appended DEF Texts, TextsGrow

(* A list of clients does not disturb the order.                           *)
LEMMA OrderedList ==
  ASSUME NEW s \in Seq(Messages), NEW h \in Nat, NEW f \in Int, Ordered(s, h, f),
         NEW m \in Messages, m.type # "text"
  PROVE  Ordered(Append(s, m), h, f) /\ (Texts(s) = {} => Texts(Append(s, m)) = {})
<1> DEFINE t == Append(s, m)
<1>0. TextsGrow(s, m)
  BY TextsAppend
<1>1. /\ \A i \in Texts(s) : i \in Texts(t) /\ t[i] = s[i]
      /\ \A i \in Texts(t) : i \in Texts(s)
  BY <1>0 DEF TextsGrow
<1> HIDE DEF t
<1>2. Ordered(t, h, f) /\ (Texts(s) = {} => Texts(t) = {})
  BY <1>1 DEF Ordered
<1> QED BY <1>2 DEF t

(* The text that is sent is the one that is missing, or is there already.  *)
LEMMA OrderedText ==
  ASSUME NEW s \in Seq(Messages), NEW h \in Nat, NEW f \in {h - 1, h}, Ordered(s, h, f),
         NEW m \in Messages, m.type = "text", m.no = h
  PROVE  Ordered(Append(s, m), h, h)
<1> DEFINE t == Append(s, m)
           n == Len(s) + 1
<1>0. TextsGrow(s, m)
  BY TextsAppend
<1>1. /\ \A i \in Texts(s) : i \in Texts(t) /\ i < n /\ t[i] = s[i] /\ i \in Nat
      /\ \A i \in Texts(t) : i \in Texts(s) \/ i = n
      /\ t[n] = m /\ n \in Texts(t) /\ n \in Nat
  <2>1. \A i \in Texts(s) : i \in Texts(t) /\ i < n /\ t[i] = s[i] /\ i \in Nat
    <3> SUFFICES ASSUME NEW i \in Texts(s)
                 PROVE  i \in Texts(t) /\ i < n /\ t[i] = s[i] /\ i \in Nat
      OBVIOUS
    <3>1. i <= Len(s) /\ i \in Nat /\ Len(s) \in Nat /\ i \in Texts(t)
      BY <1>0, Zenon DEF TextsGrow
    <3>2. t[i] = s[i]
      BY <1>0, Zenon DEF TextsGrow
    <3>3. i < n
      BY <3>1
    <3> QED BY <3>1, <3>2, <3>3
  <2>2. \A i \in Texts(t) : i \in Texts(s) \/ i = n
    BY <1>0, Zenon DEF TextsGrow
  <2>3. t[n] = m /\ n \in Texts(t)
    BY <1>0, Zenon DEF TextsGrow
  <2>4. n \in Nat
    BY <1>0 DEF TextsGrow
  <2> QED BY <2>1, <2>2, <2>3, <2>4
<1>2. \A i \in Texts(s) : s[i].no \in Nat
  BY TextNo
<1> HIDE DEF t, n
<1> SUFFICES ASSUME NEW i \in Texts(t)
             PROVE  /\ t[i].no <= h
                    /\ \A j \in Texts(t) : i < j => t[i].no <= t[j].no
                    /\ \A k \in t[i].no .. h : \E j \in Texts(t) : t[j].no = k
  BY DEF Ordered, t
<1>3. t[i].no <= h /\ t[i].no \in Nat
  BY <1>1, <1>2 DEF Ordered
<1>4. \A j \in Texts(t) : i < j => t[i].no <= t[j].no
  <2> SUFFICES ASSUME NEW j \in Texts(t), i < j PROVE t[i].no <= t[j].no
    OBVIOUS
  <2>1. CASE j = n
    BY <1>1, <1>3, <2>1
  <2>2. CASE j \in Texts(s)
    <3>1. i \in Texts(s)
      <4>1. j < n /\ n \in Nat /\ j \in Nat
        BY <1>1, <2>2
      <4>2. i # n
        BY <4>1
      <4> QED BY <1>1, <4>2
    <3> QED BY <1>1, <2>2, <3>1 DEF Ordered
  <2> QED BY <1>1, <2>1, <2>2
<1>5. \A k \in t[i].no .. h : \E j \in Texts(t) : t[j].no = k
  <2> SUFFICES ASSUME NEW k \in t[i].no .. h PROVE \E j \in Texts(t) : t[j].no = k
    OBVIOUS
  <2>1. CASE k = h
    BY <1>1, <2>1
  <2>2. CASE k # h
    <3>1. i \in Texts(s)
      <4>1. i # n
        BY <1>1, <2>2
      <4> QED BY <1>1, <4>1
    <3>2. k \in s[i].no .. f
      <4>1. t[i].no = s[i].no /\ s[i].no \in Nat
        BY <1>1, <1>2, <3>1
      <4>2. k \in t[i].no .. h /\ k # h
        BY <2>2
      <4> HIDE DEF Messages
      <4> QED BY <4>1, <4>2
    <3>3. PICK j \in Texts(s) : s[j].no = k
      BY <3>1, <3>2 DEF Ordered
    <3> QED BY <1>1, <3>3
  <2> QED BY <2>1, <2>2
<1> QED BY <1>3, <1>4, <1>5
-----------------------------------------------------------------------------
(* Initially.                                                              *)
LEMMA InitInv == Init => IInv
<1> SUFFICES ASSUME Init PROVE IInv
  OBVIOUS
<1>1. TypeOK
  BY DEF Init, TypeOK, Message, Messages, Posts
<1>2. PostsFit
  <2>1. Sending = {}
    BY DEF Init, Sending
  <2> QED BY <2>1, FS_EmptySet DEF Init, PostsFit
<1>3. RunInv
  BY DEF Init, RunInv, Exists, Listed, Queues
<1>4. PostInv
  BY DEF Init, PostInv, Texts
<1>5. ServerInv
  BY DEF Init, ServerInv
<1>6. HeardInv
  BY DEF Init, HeardInv, Exists
<1> QED BY <1>1, <1>2, <1>3, <1>4, <1>5, <1>6 DEF IInv

(* The queue of a client that exists.                                      *)
LEMMA CurrentQueue ==
  ASSUME TypeOK, RunInv, NEW u \in Users, Exists(u)
  PROVE  Current(u) \in Queues
BY DEF TypeOK, RunInv, Current, Queues

(* What the server receives.                                               *)
LEMMA HeadPost ==
  ASSUME TypeOK, chat_queue # <<>>
  PROVE  /\ Head(chat_queue).user \in Users /\ Head(chat_queue).no \in 0 .. MaxPosts
         /\ Head(chat_queue).type \in {"registration", "text"}
<1>1. Head(chat_queue) \in Posts
  BY DEF TypeOK
<1> QED BY <1>1 DEF Posts

(* Every step keeps the types.                                             *)
LEMMA TypeStep == TypeOK /\ PostsFit /\ RunInv /\ ServerInv /\ [Next]_vars => TypeOK'
<1> SUFFICES ASSUME TypeOK, PostsFit, RunInv, ServerInv, [Next]_vars PROVE TypeOK'
  OBVIOUS
<1>0. CASE UNCHANGED vars
  BY <1>0 DEF TypeOK, vars, serverVars
<1>1. ASSUME NEW u \in Users, Start(u) PROVE TypeOK'
  <2>1. run' \in [Users -> 0 .. MaxRuns]
    BY <1>1 DEF TypeOK, Start
  <2>2. got' \in [Users -> Seq(Messages)] /\ pc' \in [Users -> {"out", "register", "typing", "send", "close"}]
    BY <1>1 DEF TypeOK, Start
  <2> QED BY <1>1, <2>1, <2>2 DEF TypeOK, Start, serverVars
<1>2. ASSUME NEW u \in Users, Register(u) PROVE TypeOK'
  <2>1. Registration(u) \in Posts
    <3>1. Registration(u) \in Posts /\ Registration(u).type # "text"
      BY DEF Registration, Posts
    <3> QED BY <3>1
  <2>2. chat_queue' \in Seq(Posts) /\ Len(chat_queue') <= MaxMsg
    BY <1>2, <2>1 DEF TypeOK, Register
  <2> QED BY <1>2, <2>2 DEF TypeOK, Register, serverVars
<1>3. ASSUME NEW u \in Users, TypeLine(u) \/ Quit(u) \/ Leave(u) PROVE TypeOK'
  BY <1>3 DEF TypeOK, TypeLine, Quit, Leave, serverVars
<1>4. ASSUME NEW u \in Users, Send(u) PROVE TypeOK'
  <2>1. posted + 1 \in 0 .. MaxPosts
    <3>1. u \in Sending
      BY <1>4 DEF Send, Sending
    <3>2. IsFiniteSet(Sending)
      BY FS_Subset DEF Sending
    <3>3. Cardinality(Sending) \in Nat /\ Cardinality(Sending) # 0
      BY <3>1, <3>2, FS_CardinalityType, FS_EmptySet
    <3> QED BY <3>3 DEF TypeOK, PostsFit
  <2>2. Text(u, posted + 1) \in Posts
    BY <2>1 DEF Text, Posts
  <2>3. chat_queue' \in Seq(Posts) /\ Len(chat_queue') <= MaxMsg
    BY <1>4, <2>2 DEF TypeOK, Send
  <2> QED BY <1>4, <2>1, <2>3 DEF TypeOK, Send, serverVars
<1>5. ASSUME NEW u \in Users, Receive(u) PROVE TypeOK'
  <2>1. Current(u) \in Queues
    BY <1>5, CurrentQueue DEF Receive, Exists
  <2>2. PICK q \in Seq(Messages) : q = queue[Current(u)] /\ q # <<>> /\ Len(q) <= MaxMsg
    BY <1>5, <2>1 DEF Receive, TypeOK
  <2>3. Head(q) \in Messages /\ Tail(q) \in Seq(Messages) /\ Len(Tail(q)) <= MaxMsg
    BY <2>2
  <2>4. queue' = [queue EXCEPT ![Current(u)] = Tail(q)]
        /\ got' = [got EXCEPT ![u] = Append(got[u], Head(q))]
    BY <1>5, <2>2 DEF Receive
  <2>5. queue' \in [Queues -> Seq(Messages)] /\ \A r \in Queues : Len(queue'[r]) <= MaxMsg
    BY <2>1, <2>3, <2>4 DEF TypeOK
  <2>6. got' \in [Users -> Seq(Messages)]
    <3>1. Append(got[u], Head(q)) \in Seq(Messages)
      BY <2>3 DEF TypeOK
    <3> QED BY <2>4, <3>1 DEF TypeOK
  <2> QED BY <1>5, <2>5, <2>6 DEF TypeOK, Receive, serverVars
<1>6. CASE ServerRegister
  <2>1. PICK u \in Users : u = Head(chat_queue).user /\ CanAdd(u)
    BY <1>6, HeadPost DEF ServerRegister
  <2>2. Current(u) \in Queues
    BY <2>1, CurrentQueue DEF CanAdd
  <2>3. clients' \in Seq(Queues) /\ Len(clients') <= MaxClients
    BY <1>6, <2>1, <2>2 DEF ServerRegister, TypeOK, CanAdd
  <2>4. chat_queue' \in Seq(Posts) /\ Len(chat_queue') <= MaxMsg
    BY <1>6 DEF ServerRegister, TypeOK
  <2>5. msg' \in Messages /\ server' \in {"receive", "send"} /\ next' = 1
    BY <1>6 DEF ServerRegister, StartBroadcast, Message, Messages, TypeOK
  <2> QED BY <1>6, <2>3, <2>4, <2>5 DEF TypeOK, ServerRegister
<1>7. CASE ServerRegisterFails
  <2>1. chat_queue' \in Seq(Posts) /\ Len(chat_queue') <= MaxMsg
    BY <1>7 DEF ServerRegisterFails, TypeOK
  <2> QED BY <1>7, <2>1 DEF TypeOK, ServerRegisterFails, serverVars
<1>8. CASE ServerText
  <2>1. chat_queue' \in Seq(Posts) /\ Len(chat_queue') <= MaxMsg
    BY <1>8 DEF ServerText, TypeOK
  <2>2. Head(chat_queue).no \in 0 .. MaxPosts
    BY <1>8, HeadPost DEF ServerText
  <2>3. msg' \in Messages /\ server' \in {"receive", "send"} /\ next' = 1
    BY <1>8, <2>2 DEF ServerText, StartBroadcast, Message, Messages
  <2> QED BY <1>8, <2>1, <2>2, <2>3 DEF TypeOK, ServerText
<1>9. CASE ServerSend
  <2>1. PICK r \in Queues : r = clients[next]
    BY <1>9 DEF ServerSend, TypeOK
  <2>2. PICK q \in Seq(Messages) : q = queue[r] /\ Len(q) < MaxMsg
    BY <1>9, <2>1 DEF ServerSend, TypeOK
  <2>3. Append(q, msg) \in Seq(Messages) /\ Len(Append(q, msg)) <= MaxMsg
    BY <2>2 DEF TypeOK
  <2>4. queue' = [queue EXCEPT ![r] = Append(q, msg)]
    BY <1>9, <2>1, <2>2 DEF ServerSend
  <2>5. queue' \in [Queues -> Seq(Messages)] /\ \A x \in Queues : Len(queue'[x]) <= MaxMsg
    BY <2>3, <2>4 DEF TypeOK
  <2>6. next' \in 1 .. MaxClients + 1
    BY <1>9 DEF ServerSend, TypeOK
  <2> QED BY <1>9, <2>5, <2>6 DEF TypeOK, ServerSend
<1>10. CASE ServerDone
  BY <1>10 DEF TypeOK, ServerDone, Message, Messages
<1> QED BY <1>0, <1>1, <1>2, <1>3, <1>4, <1>5, <1>6, <1>7, <1>8, <1>9, <1>10
        DEF Next, ServerStep
(* The lines typed and not sent stay within the bound.                     *)
LEMMA FitStep == TypeOK /\ PostsFit /\ [Next]_vars => PostsFit'
<1> SUFFICES ASSUME TypeOK, PostsFit, [Next]_vars PROVE PostsFit'
  OBVIOUS
<1>0. IsFiniteSet(Sending) /\ Cardinality(Sending) \in Nat /\ posted \in Nat
  <2>1. IsFiniteSet(Sending)
    BY FS_Subset DEF Sending
  <2> QED BY <2>1, FS_CardinalityType DEF TypeOK
<1>1. ASSUME NEW u \in Users, TypeLine(u) PROVE PostsFit'
  <2>1. Sending' = Sending \union {u} /\ u \notin Sending
    BY <1>1 DEF TypeLine, Sending, TypeOK
  <2>2. Cardinality(Sending') = Cardinality(Sending) + 1
    BY <1>0, <2>1, FS_AddElement
  <2>3. posted' = posted /\ posted + Cardinality(Sending) < MaxPosts
    BY <1>1 DEF TypeLine, Sending
  <2> QED BY <1>0, <2>2, <2>3 DEF PostsFit
<1>2. ASSUME NEW u \in Users, Send(u) PROVE PostsFit'
  <2>1. Sending' = Sending \ {u} /\ u \in Sending
    BY <1>2 DEF Send, Sending, TypeOK
  <2>2. Cardinality(Sending') = Cardinality(Sending) - 1
    BY <1>0, <2>1, FS_RemoveElement
  <2>3. posted' = posted + 1
    BY <1>2 DEF Send
  <2> QED BY <1>0, <2>2, <2>3 DEF PostsFit
<1>3. CASE Sending' = Sending /\ posted' = posted
  BY <1>3 DEF PostsFit
<1>4. ASSUME NEW u \in Users, Start(u) \/ Register(u) \/ Quit(u) \/ Leave(u) \/ Receive(u)
      PROVE  Sending' = Sending /\ posted' = posted
  BY <1>4 DEF Start, Register, Quit, Leave, Receive, Sending, TypeOK
<1>5. CASE ServerStep \/ UNCHANGED vars
  <2>1. pc' = pc /\ posted' = posted
    BY <1>5 DEF ServerStep, ServerRegister, ServerRegisterFails, ServerText, ServerSend,
                ServerDone, vars
  <2> QED BY <1>3, <2>1 DEF Sending
<1> QED BY <1>1, <1>2, <1>3, <1>4, <1>5 DEF Next

(* The queues of later runs stay empty.                                    *)
LEMMA RunStep == TypeOK /\ RunInv /\ [Next]_vars => RunInv'
<1> SUFFICES ASSUME TypeOK, RunInv, [Next]_vars PROVE RunInv'
  OBVIOUS
<1>1. ASSUME NEW u \in Users, Start(u) PROVE RunInv'
  <2>1. run' = [run EXCEPT ![u] = run[u] + 1] /\ run[u] \in Nat
    BY <1>1 DEF Start, TypeOK
  <2>2. \A v \in Users : run'[v] >= run[v] /\ run[v] \in Nat /\ run'[v] \in Nat
    BY <2>1 DEF TypeOK
  <2>3. \A v \in Users : Exists(v)' => run'[v] >= 1
    BY <1>1, <2>1, <2>2 DEF Start, Exists, RunInv, TypeOK
  <2>4. queue' = queue /\ clients' = clients
    BY <1>1 DEF Start, serverVars
  <2>5. \A v \in Users, r \in 1 .. MaxRuns : r > run'[v] => r > run[v]
    BY <2>2
  <2> QED BY <2>3, <2>4, <2>5 DEF RunInv, Listed
<1>2. CASE /\ run' = run /\ queue' = queue /\ clients' = clients
           /\ \A v \in Users : Exists(v)' => Exists(v)
  BY <1>2 DEF RunInv, Listed
<1>3. ASSUME NEW u \in Users, Register(u) \/ TypeLine(u) \/ Send(u) \/ Quit(u) \/ Leave(u)
      PROVE  RunInv'
  <2>1. run' = run /\ queue' = queue /\ clients' = clients
    BY <1>3 DEF Register, TypeLine, Send, Quit, Leave, serverVars
  <2>2. \A v \in Users : Exists(v)' => Exists(v)
    BY <1>3 DEF Register, TypeLine, Send, Quit, Leave, Exists, TypeOK
  <2> QED BY <1>2, <2>1, <2>2
<1>4. CASE ServerRegisterFails \/ ServerText \/ ServerDone \/ UNCHANGED vars
  <2>1. run' = run /\ queue' = queue /\ clients' = clients /\ pc' = pc
    BY <1>4 DEF ServerRegisterFails, ServerText, ServerDone, vars, serverVars
  <2> QED BY <1>2, <2>1 DEF Exists
<1>5. ASSUME NEW u \in Users, Receive(u) PROVE RunInv'
  <2>1. run' = run /\ clients' = clients /\ pc' = pc
    BY <1>5 DEF Receive, serverVars
  <2>2. \A r \in Queues : r # Current(u) => queue'[r] = queue[r]
    BY <1>5 DEF Receive, TypeOK
  <2>3. \A v \in Users, r \in 1 .. MaxRuns :
          r > run[v] => <<v, r>> # Current(u) /\ <<v, r>> \in Queues
    BY DEF Current, Queues, TypeOK
  <2> QED BY <2>1, <2>2, <2>3 DEF RunInv, Listed, Exists
<1>6. CASE ServerSend
  <2>1. run' = run /\ clients' = clients /\ pc' = pc
    BY <1>6 DEF ServerSend
  <2>2. next \in 1 .. Len(clients) /\ Listed(clients[next])
    BY <1>6 DEF ServerSend, TypeOK, Listed
  <2>3. \A r \in Queues : r # clients[next] => queue'[r] = queue[r]
    BY <1>6 DEF ServerSend, TypeOK
  <2>4. \A v \in Users, r \in 1 .. MaxRuns :
          r > run[v] => <<v, r>> # clients[next] /\ <<v, r>> \in Queues
    BY <2>2 DEF RunInv, Queues
  <2> QED BY <2>1, <2>3, <2>4 DEF RunInv, Listed, Exists
<1>7. CASE ServerRegister
  <2>1. run' = run /\ queue' = queue /\ pc' = pc
    BY <1>7 DEF ServerRegister
  <2>2. PICK u \in Users : CanAdd(u) /\ clients' = Append(clients, Current(u))
    BY <1>7, HeadPost DEF ServerRegister
  <2>3. Current(u) \in Queues
    BY <2>2, CurrentQueue DEF CanAdd
  <2>4. \A q : Listed(q)' => Listed(q) \/ q = Current(u)
    <3>1. /\ Len(clients) \in Nat /\ Len(clients') = Len(clients) + 1
          /\ clients'[Len(clients) + 1] = Current(u)
          /\ \A i \in 1 .. Len(clients) : clients'[i] = clients[i]
      BY <2>2, <2>3 DEF TypeOK
    <3>2. \A i \in 1 .. Len(clients') : i \in 1 .. Len(clients) \/ i = Len(clients) + 1
      BY <3>1
    <3> QED BY <3>1, <3>2 DEF Listed
  <2>5. \A v \in Users, r \in 1 .. MaxRuns : r > run[v] => <<v, r>> # Current(u)
    BY DEF Current, TypeOK
  <2> QED BY <2>1, <2>4, <2>5 DEF RunInv, Exists
<1> QED BY <1>1, <1>3, <1>4, <1>5, <1>6, <1>7 DEF Next, ServerStep
(* The texts of the server's queue, and what remains when one is taken.    *)
LEMMA TailTexts ==
  ASSUME NEW s \in Seq(Posts), s # <<>>
  PROVE  /\ \A i \in Texts(Tail(s)) : i \in Nat /\ i + 1 \in Texts(s) /\ Tail(s)[i] = s[i + 1]
         /\ \A i \in Texts(s) : i \in Nat /\ (i = 1 \/ (i - 1 \in Texts(Tail(s)) /\ i > 1))
<1>1. /\ Tail(s) \in Seq(Posts) /\ Len(s) \in Nat \ {0} /\ Len(Tail(s)) = Len(s) - 1
      /\ \A i \in 1 .. Len(s) - 1 : Tail(s)[i] = s[i + 1]
  OBVIOUS
<1>2. ASSUME NEW i \in Texts(Tail(s))
      PROVE  i \in Nat /\ i + 1 \in Texts(s) /\ Tail(s)[i] = s[i + 1]
  <2>1. i \in 1 .. Len(s) - 1 /\ Tail(s)[i].type = "text"
    BY <1>1, <1>2 DEF Texts
  <2>2. Tail(s)[i] = s[i + 1] /\ i + 1 \in 1 .. Len(s) /\ i \in Nat
    BY <1>1, <2>1
  <2> QED BY <2>1, <2>2 DEF Texts
<1>3. ASSUME NEW i \in Texts(s), i # 1
      PROVE  i \in Nat /\ i - 1 \in Texts(Tail(s)) /\ i > 1
  <2>1. i \in 1 .. Len(s) /\ s[i].type = "text"
    BY <1>3 DEF Texts
  <2>2. i - 1 \in 1 .. Len(s) - 1 /\ i > 1 /\ i \in Nat /\ (i - 1) + 1 = i
    BY <1>1, <1>3, <2>1
  <2>3. Tail(s)[i - 1] = s[i]
    BY <1>1, <2>2
  <2>4. i - 1 \in 1 .. Len(Tail(s))
    BY <1>1, <2>2
  <2> QED BY <2>1, <2>2, <2>3, <2>4 DEF Texts
<1>4. \A i \in Texts(s) : i \in Nat
  BY DEF Texts
<1> QED BY <1>2, <1>3, <1>4

(* The texts of the server's queue to which a post is appended.            *)
LEMMA PostTexts ==
  ASSUME NEW s \in Seq(Posts), NEW m \in Posts
  PROVE  TextsGrow(s, m)
BY Appended DEF Texts, TextsGrow

(* The texts the server has not taken up stay in order and complete.       *)
LEMMA PostStep == TypeOK /\ TypeOK' /\ PostInv /\ [Next]_vars => PostInv'
<1> SUFFICES ASSUME TypeOK, TypeOK', PostInv, [Next]_vars PROVE PostInv'
  OBVIOUS
<1>0. chat_queue \in Seq(Posts) /\ handled \in Nat /\ posted \in Nat
  BY DEF TypeOK
<1>n. \A i \in Texts(chat_queue) : chat_queue[i].no \in Nat /\ i \in Nat
  <2>1. \A i \in Texts(chat_queue) : chat_queue[i] \in Posts /\ i \in Nat
    BY <1>0 DEF Texts
  <2>2. \A m \in Posts : m.no \in Nat
    BY DEF Posts
  <2> QED BY <2>1, <2>2
<1>1. CASE UNCHANGED <<chat_queue, handled, posted>>
  BY <1>1 DEF PostInv
<1>2. ASSUME NEW u \in Users, Register(u) PROVE PostInv'
  <2>1. PICK m \in Posts : m = Registration(u) /\ m.type # "text"
    <3>1. Registration(u) \in Posts /\ Registration(u).type # "text"
      BY DEF Registration, Posts
    <3> QED BY <3>1
  <2>2. chat_queue' = Append(chat_queue, m) /\ handled' = handled /\ posted' = posted
    BY <1>2, <2>1 DEF Register, serverVars
  <2>3. PICK q : q = Append(chat_queue, m)
    OBVIOUS
  <2>4. /\ \A i \in Texts(chat_queue) : i \in Texts(q) /\ q[i] = chat_queue[i]
        /\ \A i \in Texts(q) : i \in Texts(chat_queue)
    <3>1. TextsGrow(chat_queue, m)
      BY <1>0, PostTexts
    <3>2. \A i \in Texts(q) : i \in Texts(chat_queue)
      BY <2>1, <2>3, <3>1, Zenon DEF TextsGrow
    <3>3. \A i \in Texts(chat_queue) : i \in Texts(q) /\ q[i] = chat_queue[i]
      BY <2>3, <3>1, Zenon DEF TextsGrow
    <3> QED BY <3>2, <3>3
  <2>5. chat_queue' = q
    BY <2>2, <2>3
  <2> QED BY <2>2, <2>4, <2>5 DEF PostInv
<1>3. ASSUME NEW u \in Users, Send(u) PROVE PostInv'
  <2>1. posted' = posted + 1 /\ handled' = handled /\ posted + 1 \in 0 .. MaxPosts
    BY <1>3 DEF Send, serverVars, TypeOK
  <2>2. PICK m \in Posts : m = Text(u, posted + 1) /\ m.type = "text" /\ m.no = posted + 1
    <3>1. /\ Text(u, posted + 1) \in Posts
          /\ Text(u, posted + 1).type = "text" /\ Text(u, posted + 1).no = posted + 1
      BY <2>1 DEF Text, Posts
    <3> QED BY <3>1
  <2>3. PICK q, n : q = Append(chat_queue, m) /\ n = Len(chat_queue) + 1
    OBVIOUS
  <2>4. chat_queue' = q
    BY <1>3, <2>2, <2>3 DEF Send
  <2>5. /\ \A i \in Texts(chat_queue) : i \in Texts(q) /\ q[i] = chat_queue[i] /\ i <= Len(chat_queue)
        /\ \A i \in Texts(q) : i \in Texts(chat_queue) \/ i = n
        /\ q[n] = m /\ n \in Texts(q)
    <3>1. TextsGrow(chat_queue, m)
      BY <1>0, PostTexts
    <3>2. /\ \A i \in Texts(q) : i \in Texts(chat_queue) \/ i = n
          /\ q[n] = m /\ n \in Texts(q)
      BY <2>2, <2>3, <3>1, Zenon DEF TextsGrow
    <3>3. \A i \in Texts(chat_queue) : i \in Texts(q) /\ q[i] = chat_queue[i] /\ i <= Len(chat_queue)
      BY <2>3, <3>1, Zenon DEF TextsGrow
    <3> QED BY <3>2, <3>3
  <2>6. \A i \in Texts(chat_queue) : i < n /\ n \in Nat
    BY <1>0, <1>n, <2>3, <2>5
  <2>7. handled <= posted + 1
    BY <1>0 DEF PostInv
  <2>8. \A i \in Texts(q) : handled < q[i].no /\ q[i].no <= posted + 1
    BY <1>0, <1>n, <2>2, <2>5 DEF PostInv
  <2>9. \A i, j \in Texts(q) : i < j => q[i].no < q[j].no
    <3> SUFFICES ASSUME NEW i \in Texts(q), NEW j \in Texts(q), i < j
                 PROVE  q[i].no < q[j].no
      OBVIOUS
    <3>1. CASE i \in Texts(chat_queue) /\ j \in Texts(chat_queue)
      BY <2>5, <3>1 DEF PostInv
    <3>2. CASE i \in Texts(chat_queue) /\ j = n
      BY <1>0, <1>n, <2>2, <2>5, <3>2 DEF PostInv
    <3>3. CASE i = n
      <4>1. n \in Nat
        BY <1>0, <2>3
      <4>2. j # n
        BY <3>3, <4>1
      <4>3. j \in Texts(chat_queue) /\ j < n /\ j \in Nat
        BY <1>n, <2>5, <2>6, <4>2
      <4> QED BY <3>3, <4>1, <4>3
    <3> QED BY <2>5, <3>1, <3>2, <3>3
  <2>10. \A k \in handled + 1 .. posted + 1 : \E i \in Texts(q) : q[i].no = k
    <3> SUFFICES ASSUME NEW k \in handled + 1 .. posted + 1
                 PROVE  \E i \in Texts(q) : q[i].no = k
      OBVIOUS
    <3>1. CASE k = posted + 1
      BY <2>2, <2>5, <3>1
    <3>2. CASE k # posted + 1
      <4>1. k \in handled + 1 .. posted
        BY <1>0, <3>2
      <4>2. PICK i \in Texts(chat_queue) : chat_queue[i].no = k
        BY <4>1 DEF PostInv
      <4> QED BY <2>5, <4>2
    <3> QED BY <3>1, <3>2
  <2> QED BY <2>1, <2>4, <2>7, <2>8, <2>9, <2>10 DEF PostInv
<1>4. CASE ServerRegister \/ ServerRegisterFails \/ ServerText
  <2>0. chat_queue # <<>> /\ chat_queue' = Tail(chat_queue) /\ posted' = posted
    BY <1>4 DEF ServerRegister, ServerRegisterFails, ServerText
  <2>1. PICK q : q = Tail(chat_queue)
    OBVIOUS
  <2>2. /\ \A i \in Texts(q) : i \in Nat /\ i + 1 \in Texts(chat_queue) /\ q[i] = chat_queue[i + 1]
        /\ \A i \in Texts(chat_queue) : i \in Nat /\ (i = 1 \/ (i - 1 \in Texts(q) /\ i > 1))
    BY <1>0, <2>0, <2>1, TailTexts
  <2>3. \A i \in Texts(chat_queue) : i # 1 => q[i - 1] = chat_queue[i]
    <3> SUFFICES ASSUME NEW i \in Texts(chat_queue), i # 1 PROVE q[i - 1] = chat_queue[i]
      OBVIOUS
    <3>1. i - 1 \in Texts(q) /\ (i - 1) + 1 = i
      BY <2>2
    <3> QED BY <2>2, <3>1
  <2>4. \A i, j \in Texts(q) : i < j => q[i].no < q[j].no
    <3> SUFFICES ASSUME NEW i \in Texts(q), NEW j \in Texts(q), i < j
                 PROVE  q[i].no < q[j].no
      OBVIOUS
    <3>1. i + 1 < j + 1
      BY <2>2
    <3> QED BY <2>2, <3>1 DEF PostInv
  <2>5. \A k \in handled + 1 .. posted :
          \/ 1 \in Texts(chat_queue) /\ chat_queue[1].no = k
          \/ \E i \in Texts(q) : q[i].no = k
    <3> SUFFICES ASSUME NEW k \in handled + 1 .. posted
                 PROVE  \/ 1 \in Texts(chat_queue) /\ chat_queue[1].no = k
                        \/ \E i \in Texts(q) : q[i].no = k
      OBVIOUS
    <3>1. PICK i \in Texts(chat_queue) : chat_queue[i].no = k
      BY DEF PostInv
    <3> QED BY <2>2, <2>3, <3>1
  <2>6. CASE handled' = handled /\ 1 \notin Texts(chat_queue)
    <3>1. \A k \in handled + 1 .. posted : \E i \in Texts(q) : q[i].no = k
      BY <2>5, <2>6
    <3>2. \A i \in Texts(q) : handled < q[i].no /\ q[i].no <= posted
      BY <2>2 DEF PostInv
    <3> QED BY <2>0, <2>1, <2>4, <2>6, <3>1, <3>2 DEF PostInv
  <2>7. CASE 1 \in Texts(chat_queue) /\ handled' = chat_queue[1].no
    <3>0. PICK h \in Nat : h = chat_queue[1].no /\ handled < h /\ h <= posted /\ handled' = h
      BY <1>n, <2>7 DEF PostInv
    <3>1. \A i \in Texts(q) : h < q[i].no /\ q[i].no <= posted
      <4> SUFFICES ASSUME NEW i \in Texts(q) PROVE h < q[i].no /\ q[i].no <= posted
        OBVIOUS
      <4>1. i + 1 \in Texts(chat_queue) /\ q[i] = chat_queue[i + 1] /\ 1 < i + 1
        BY <2>2 DEF Texts
      <4> QED BY <2>7, <3>0, <4>1 DEF PostInv
    <3>2. \A k \in h + 1 .. posted : \E i \in Texts(q) : q[i].no = k
      <4> SUFFICES ASSUME NEW k \in h + 1 .. posted PROVE \E i \in Texts(q) : q[i].no = k
        OBVIOUS
      <4>1. k \in handled + 1 .. posted /\ k # h
        BY <1>0, <3>0
      <4> QED BY <2>5, <3>0, <4>1
    <3> QED BY <2>0, <2>1, <2>4, <3>0, <3>1, <3>2 DEF PostInv
  <2>8. Head(chat_queue) = chat_queue[1] /\ (1 \in Texts(chat_queue) <=> chat_queue[1].type = "text")
    BY <1>0, <2>0 DEF Texts
  <2>9. CASE ServerText
    BY <2>7, <2>8, <2>9 DEF ServerText
  <2>10. CASE ServerRegister \/ ServerRegisterFails
    BY <2>6, <2>8, <2>10 DEF ServerRegister, ServerRegisterFails, serverVars
  <2> QED BY <1>4, <2>9, <2>10
<1>5. ASSUME NEW u \in Users, Start(u) \/ TypeLine(u) \/ Quit(u) \/ Leave(u) \/ Receive(u)
      PROVE  PostInv'
  BY <1>1, <1>5 DEF Start, TypeLine, Quit, Leave, Receive, serverVars
<1>6. CASE ServerSend \/ ServerDone \/ UNCHANGED vars
  BY <1>1, <1>6 DEF ServerSend, ServerDone, vars, serverVars
<1> QED BY <1>2, <1>3, <1>4, <1>5, <1>6 DEF Next, ServerStep
(* The server sends what it has taken up.                                  *)
LEMMA ServerInvStep == TypeOK /\ ServerInv /\ [Next]_vars => ServerInv'
<1> SUFFICES ASSUME TypeOK, ServerInv, [Next]_vars PROVE ServerInv'
  OBVIOUS
<1>1. CASE UNCHANGED serverVars
  BY <1>1 DEF serverVars, ServerInv
<1>2. ASSUME NEW u \in Users,
             \/ Start(u) \/ Register(u) \/ TypeLine(u) \/ Send(u)
             \/ Quit(u) \/ Leave(u) \/ Receive(u)
      PROVE  ServerInv'
  BY <1>1, <1>2 DEF Start, Register, TypeLine, Send, Quit, Leave, Receive
<1>3. CASE ServerRegisterFails \/ UNCHANGED vars
  BY <1>1, <1>3 DEF ServerRegisterFails, vars
<1>4. CASE ServerRegister
  <2>1. next' = 1 /\ msg'.type = "list"
    BY <1>4 DEF ServerRegister, StartBroadcast, Message
  <2>2. PICK u \in Users : CanAdd(u) /\ clients' = Append(clients, Current(u))
    BY <1>4, HeadPost DEF ServerRegister
  <2>3. Len(clients') \in Nat
    BY <2>2 DEF TypeOK
  <2> QED BY <2>1, <2>3 DEF ServerInv
<1>5. CASE ServerText
  BY <1>5 DEF ServerText, StartBroadcast, Message, ServerInv, TypeOK
<1>6. CASE ServerSend
  BY <1>6 DEF ServerSend, ServerInv, TypeOK
<1>7. CASE ServerDone
  BY <1>7 DEF ServerDone, Message, ServerInv, TypeOK
<1> QED BY <1>2, <1>3, <1>4, <1>5, <1>6, <1>7 DEF Next, ServerStep

(* The server takes up the texts one after the other.                      *)
LEMMA NextText == ASSUME TypeOK, PostInv, ServerText PROVE handled' = handled + 1
<1>1. /\ chat_queue \in Seq(Posts) /\ chat_queue # <<>> /\ Head(chat_queue) = chat_queue[1]
      /\ handled' = chat_queue[1].no /\ chat_queue[1].type = "text"
      /\ handled \in Nat /\ posted \in Nat
  BY DEF TypeOK, ServerText
<1>2. 1 \in Texts(chat_queue) /\ \A i \in Texts(chat_queue) : i \in Nat \ {0}
  BY <1>1 DEF Texts
<1>3. PICK h \in Nat : h = chat_queue[1].no
  BY <1>1, HeadPost
<1>4. handled < h /\ h <= posted
  BY <1>2, <1>3 DEF PostInv
<1>5. PICK i \in Texts(chat_queue) : chat_queue[i].no = handled + 1
  <2>1. handled + 1 \in handled + 1 .. posted
    BY <1>1, <1>3, <1>4
  <2> QED BY <2>1 DEF PostInv
<1>6. CASE i = 1
  BY <1>1, <1>5, <1>6
<1>7. CASE i # 1
  <2>1. 1 < i
    BY <1>2, <1>7
  <2>2. h < handled + 1
    BY <1>2, <1>3, <1>5, <2>1 DEF PostInv
  <2> QED BY <1>1, <1>3, <1>4, <2>2
<1> QED BY <1>6, <1>7

(* A step that leaves a stream and the broadcast alone.                    *)
LEMMA SameStream ==
  ASSUME NEW u \in Users, Heard(u), Stream(u)' = Stream(u), handled' = handled,
         Finished(Current(u))' = Finished(Current(u)), Listed(Current(u)) => Listed(Current(u))'
  PROVE  Heard(u)'
BY DEF Heard

(* The types of a stream.                                                  *)
LEMMA StreamType ==
  ASSUME TypeOK, RunInv, NEW u \in Users, Exists(u)
  PROVE  /\ Stream(u) \in Seq(Messages) /\ handled \in Nat
         /\ Finished(Current(u)) \in {handled - 1, handled}
<1>1. Current(u) \in Queues
  BY CurrentQueue
<1> QED BY <1>1 DEF TypeOK, Stream, Finished

(* To receive moves a message from the queue to the window.                *)
LEMMA ReceiveKeepsStream ==
  ASSUME TypeOK, RunInv, NEW u \in Users, Receive(u), NEW v \in Users, Exists(v)
  PROVE  Stream(v)' = Stream(v)
<1>1. UNCHANGED run /\ Current(u) \in Queues /\ Current(v) \in Queues
  BY CurrentQueue DEF Receive, Exists
<1>2. CASE u = v
  <2>1. PICK g \in Seq(Messages), q \in Seq(Messages) : g = got[v] /\ q = queue[Current(v)] /\ q # <<>>
    BY <1>1, <1>2 DEF TypeOK, Receive
  <2>2. got'[v] = Append(g, Head(q)) /\ queue'[Current(v)] = Tail(q)
    BY <1>1, <1>2, <2>1 DEF TypeOK, Receive
  <2>3. Append(g, Head(q)) \o Tail(q) = g \o q
    BY <2>1, StreamReceive
  <2>4. Current(v)' = Current(v)
    BY <1>1 DEF Current
  <2> QED BY <2>1, <2>2, <2>3, <2>4 DEF Stream
<1>3. CASE u # v
  <2>1. Current(v) # Current(u) /\ Current(v)' = Current(v)
    BY <1>1, <1>3 DEF Current
  <2>2. got'[v] = got[v] /\ queue'[Current(v)] = queue[Current(v)]
    BY <1>1, <1>3, <2>1 DEF TypeOK, Receive
  <2> QED BY <2>1, <2>2 DEF Stream
<1> QED BY <1>2, <1>3

(* Every stream stays in order and complete.                               *)
LEMMA HeardStep == IInv /\ [Next]_vars => HeardInv'
<1> SUFFICES ASSUME IInv, [Next]_vars, NEW v \in Users, Exists(v)' PROVE Heard(v)'
  BY DEF HeardInv
<1>0. TypeOK /\ RunInv /\ PostInv /\ ServerInv /\ (Exists(v) => Heard(v))
  BY DEF IInv, HeardInv
<1>t. Exists(v) => /\ Stream(v) \in Seq(Messages) /\ handled \in Nat
                   /\ Finished(Current(v)) \in {handled - 1, handled}
                   /\ Current(v) \in Queues
  BY <1>0, StreamType, CurrentQueue
<1>1. CASE UNCHANGED <<queue, serverVars, run, got>> /\ Exists(v)
  <2>1. Stream(v)' = Stream(v) /\ Current(v)' = Current(v) /\ handled' = handled
    BY <1>1 DEF Stream, Current, serverVars
  <2>2. Finished(Current(v))' = Finished(Current(v)) /\ (Listed(Current(v)) => Listed(Current(v))')
    BY <1>1, <2>1 DEF Finished, Reached, Listed, serverVars
  <2> QED BY <1>0, <1>1, <2>1, <2>2, SameStream
<1>2. ASSUME NEW u \in Users, Register(u) \/ TypeLine(u) \/ Send(u) \/ Quit(u) \/ Leave(u)
      PROVE  Heard(v)'
  <2>1. UNCHANGED <<queue, serverVars, run, got>>
    BY <1>2 DEF Register, TypeLine, Send, Quit, Leave
  <2>2. Exists(v)
    BY <1>0, <1>2 DEF Register, TypeLine, Send, Quit, Leave, Exists, TypeOK
  <2> QED BY <1>1, <2>1, <2>2
<1>3. CASE ServerRegisterFails \/ UNCHANGED vars
  BY <1>1, <1>3 DEF ServerRegisterFails, vars, Exists
<1>4. ASSUME NEW u \in Users, Start(u) PROVE Heard(v)'
  <2>1. CASE u = v
    <3>1. PICK r \in 1 .. MaxRuns : r = run[v] + 1 /\ r > run[v]
      BY <1>0, <1>4, <2>1 DEF Start, TypeOK
    <3>2. run'[v] = r /\ got'[v] = <<>> /\ queue' = queue
      BY <1>0, <1>4, <2>1, <3>1 DEF Start, TypeOK
    <3>3. queue[<<v, r>>] = <<>>
      BY <1>0, <3>1 DEF RunInv
    <3>4. Stream(v)' = <<>>
      BY <3>2, <3>3 DEF Stream, Current
    <3>5. Texts(<<>>) = {}
      BY DEF Texts
    <3> QED BY <3>4, <3>5, OrderedEmpty DEF Heard
  <2>2. CASE u # v
    <3>1. run'[v] = run[v] /\ got'[v] = got[v] /\ queue' = queue /\ Exists(v) /\ UNCHANGED serverVars
      BY <1>0, <1>4, <2>2 DEF Start, Exists, TypeOK
    <3>2. Stream(v)' = Stream(v) /\ Current(v)' = Current(v) /\ handled' = handled
      BY <3>1 DEF Stream, Current, serverVars
    <3>3. Finished(Current(v))' = Finished(Current(v)) /\ (Listed(Current(v)) => Listed(Current(v))')
      BY <3>1, <3>2 DEF Finished, Reached, Listed, serverVars
    <3> QED BY <1>0, <3>1, <3>2, <3>3, SameStream
  <2> QED BY <2>1, <2>2
<1>5. ASSUME NEW u \in Users, Receive(u) PROVE Heard(v)'
  <2>1. UNCHANGED <<serverVars, pc, run>> /\ Exists(v) /\ Exists(u)
    BY <1>5 DEF Receive, Exists
  <2>3. Stream(v)' = Stream(v)
    BY <1>0, <1>5, <2>1, ReceiveKeepsStream
  <2>4. Finished(Current(v))' = Finished(Current(v)) /\ (Listed(Current(v)) => Listed(Current(v))')
    BY <2>1 DEF Finished, Reached, Listed, Current, serverVars
  <2>5. handled' = handled
    BY <2>1 DEF serverVars
  <2> QED BY <1>0, <2>1, <2>3, <2>4, <2>5, SameStream
<1>6. CASE ServerRegister
  <2>1. UNCHANGED <<queue, handled, pc, run, got>> /\ Exists(v)
    BY <1>6 DEF ServerRegister, Exists
  <2>2. Stream(v)' = Stream(v) /\ Current(v)' = Current(v)
    BY <2>1 DEF Stream, Current
  <2>3. Finished(Current(v)) = handled /\ Finished(Current(v))' = handled'
    BY <1>6 DEF ServerRegister, StartBroadcast, Message, Finished, Reached
  <2>4. Listed(Current(v)) => Listed(Current(v))'
    <3>1. PICK u \in Users : CanAdd(u) /\ clients' = Append(clients, Current(u))
      BY <1>0, <1>6, HeadPost DEF ServerRegister
    <3>2. /\ Len(clients) \in Nat /\ Len(clients') = Len(clients) + 1
          /\ \A i \in 1 .. Len(clients) : clients'[i] = clients[i]
      <4>1. Current(u) \in Queues
        BY <1>0, <3>1, CurrentQueue DEF CanAdd
      <4> QED BY <1>0, <3>1, <4>1 DEF TypeOK
    <3>3. \A i \in 1 .. Len(clients) : i \in 1 .. Len(clients')
      BY <3>2
    <3> QED BY <2>2, <3>2, <3>3 DEF Listed
  <2> QED BY <1>0, <2>1, <2>2, <2>3, <2>4, SameStream
<1>7. CASE ServerText
  <2>1. UNCHANGED <<queue, clients, pc, run, got>> /\ Exists(v)
    BY <1>7 DEF ServerText, Exists
  <2>2. Stream(v)' = Stream(v) /\ Current(v)' = Current(v) /\ (Listed(Current(v)) => Listed(Current(v))')
    BY <2>1 DEF Stream, Current, Listed
  <2>3. handled' = handled + 1
    BY <1>0, <1>7, NextText
  <2>4. Finished(Current(v)) = handled
    BY <1>7 DEF ServerText, Finished, Reached
  <2>5. Finished(Current(v))' = handled
    <3>1. server' = "send" /\ msg'.type = "text" /\ next' = 1
      BY <1>7 DEF ServerText, StartBroadcast, Message
    <3>2. ~Reached(Current(v))'
      BY <3>1 DEF Reached
    <3> QED BY <1>t, <2>1, <2>3, <3>2 DEF Finished
  <2>6. Ordered(Stream(v), handled + 1, handled)
    BY <1>0, <1>t, <2>1, <2>4, OrderedMore DEF Heard
  <2> QED BY <1>0, <2>1, <2>2, <2>3, <2>5, <2>6 DEF Heard
<1>8. CASE ServerSend
  <2>1. UNCHANGED <<clients, server, msg, handled, pc, run, got>> /\ Exists(v) /\ server = "send"
    BY <1>8 DEF ServerSend, Exists
  <2>2. Current(v)' = Current(v) /\ (Listed(Current(v)) => Listed(Current(v))')
    BY <2>1 DEF Current, Listed
  <2>3. next \in 1 .. Len(clients) /\ next' = next + 1 /\ clients[next] \in Queues /\ next \in Nat
    BY <1>0, <1>8 DEF ServerSend, TypeOK
  <2>4. CASE Current(v) # clients[next]
    <3>1. queue'[Current(v)] = queue[Current(v)]
      BY <1>0, <1>8, <1>t, <2>1, <2>3, <2>4 DEF ServerSend, TypeOK
    <3>2. Stream(v)' = Stream(v)
      BY <2>1, <2>2, <3>1 DEF Stream
    <3>3. \A p \in 1 .. Len(clients) : clients[p] = Current(v) => (p < next <=> p < next')
      BY <2>3, <2>4
    <3>4. Finished(Current(v))' = Finished(Current(v))
      BY <2>1, <2>2, <3>3 DEF Finished, Reached
    <3> QED BY <1>0, <2>1, <2>2, <3>2, <3>4, SameStream
  <2>5. CASE Current(v) = clients[next]
    <3>1. queue'[Current(v)] = Append(queue[Current(v)], msg)
      BY <1>0, <1>8, <2>3, <2>5 DEF ServerSend, TypeOK
    <3>2. Stream(v)' = Append(Stream(v), msg)
      <4>1. got[v] \in Seq(Messages) /\ queue[Current(v)] \in Seq(Messages) /\ msg \in Messages
        BY <1>0, <1>t, <2>1 DEF TypeOK
      <4>2. got[v] \o Append(queue[Current(v)], msg) = Append(got[v] \o queue[Current(v)], msg)
        BY <4>1, StreamAppend
      <4> QED BY <2>1, <2>2, <3>1, <4>2 DEF Stream
    <3>3. Listed(Current(v))'
      BY <2>1, <2>2, <2>3, <2>5 DEF Listed
    <3>4. msg \in Messages /\ Ordered(Stream(v), handled, Finished(Current(v)))
      BY <1>0, <2>1 DEF TypeOK, Heard
    <3>5. CASE msg.type = "text"
      <4>1. msg.no = handled
        BY <1>0, <2>1, <3>5 DEF ServerInv
      <4>2. Ordered(Append(Stream(v), msg), handled, handled)
        BY <1>t, <2>1, <3>4, <3>5, <4>1, OrderedText
      <4>3. Finished(Current(v))' = handled
        <5>1. next < next'
          BY <2>3
        <5>2. Reached(Current(v))'
          BY <2>1, <2>2, <2>3, <2>5, <5>1 DEF Reached
        <5> QED BY <2>1, <5>2 DEF Finished
      <4> QED BY <2>1, <3>2, <3>3, <4>2, <4>3 DEF Heard
    <3>6. CASE msg.type # "text"
      <4>1. Finished(Current(v)) = handled /\ Finished(Current(v))' = handled
        BY <2>1, <3>6 DEF Finished, Reached
      <4>2. Ordered(Append(Stream(v), msg), handled, handled)
        BY <1>t, <2>1, <3>4, <3>6, <4>1, OrderedList
      <4> QED BY <2>1, <3>2, <3>3, <4>1, <4>2 DEF Heard
    <3> QED BY <3>5, <3>6
  <2> QED BY <2>4, <2>5
<1>9. CASE ServerDone
  <2>1. UNCHANGED <<queue, clients, handled, pc, run, got>> /\ Exists(v)
    BY <1>9 DEF ServerDone, Exists
  <2>2. Stream(v)' = Stream(v) /\ Current(v)' = Current(v) /\ (Listed(Current(v)) => Listed(Current(v))')
    BY <2>1 DEF Stream, Current, Listed
  <2>3. Finished(Current(v))' = handled
    BY <1>9, <2>1 DEF ServerDone, Finished, Reached
  <2>4. CASE Reached(Current(v))
    <3>1. Finished(Current(v)) = handled
      BY <2>4 DEF Finished
    <3> QED BY <1>0, <2>1, <2>2, <2>3, <3>1, SameStream
  <2>5. CASE ~Reached(Current(v))
    <3>1. \A p \in 1 .. Len(clients) : p < next
      BY <1>0, <1>9 DEF ServerDone, TypeOK
    <3>2. ~Listed(Current(v))
      BY <2>5, <3>1 DEF Reached, Listed
    <3>3. Texts(Stream(v)) = {}
      BY <1>0, <2>1, <3>2 DEF Heard
    <3> QED BY <2>2, <3>3, OrderedEmpty DEF Heard
  <2> QED BY <2>4, <2>5
<1> QED BY <1>2, <1>3, <1>4, <1>5, <1>6, <1>7, <1>8, <1>9 DEF Next, ServerStep

-----------------------------------------------------------------------------
(* The invariant is inductive.                                             *)
THEOREM Invariance == Spec => []IInv
<1>1. IInv /\ [Next]_vars => IInv'
  <2> SUFFICES ASSUME IInv, [Next]_vars PROVE IInv'
    OBVIOUS
  <2>1. TypeOK' /\ PostsFit' /\ RunInv' /\ ServerInv'
    BY TypeStep, FitStep, RunStep, ServerInvStep DEF IInv
  <2>2. PostInv' /\ HeardInv'
    BY <2>1, PostStep, HeardStep DEF IInv
  <2> QED BY <2>1, <2>2 DEF IInv
<1> QED BY InitInv, <1>1, PTL DEF Spec

(* Every variable has its type, and neither a queue nor the table of       *)
(* clients is ever fuller than mq_maxmsg and MAX_CLIENTS allow.            *)
THEOREM TypeCorrect == Spec => []TypeOK
<1>1. IInv => TypeOK
  BY DEF IInv
<1> QED BY <1>1, Invariance, PTL

(* All clients see the texts in the order of posting, each without a gap   *)
(* from its registration on: broadcast_message blocks on a full queue and  *)
(* skips nobody, and a new run never reads what an earlier one was sent.   *)
THEOREM Order == Spec => []TotalOrder
<1>1. ASSUME IInv PROVE TotalOrder
  <2> SUFFICES ASSUME NEW u \in Users, Chatting(u)
               PROVE  Ordered(Stream(u), handled,
                              IF server = "receive" THEN handled ELSE handled - 1)
    BY DEF TotalOrder
  <2>0. TypeOK /\ RunInv /\ Exists(u) /\ Heard(u)
    BY <1>1 DEF IInv, HeardInv, Chatting, Exists
  <2>1. /\ Stream(u) \in Seq(Messages) /\ handled \in Nat
        /\ Finished(Current(u)) \in {handled - 1, handled}
    BY <2>0, StreamType
  <2>2. Ordered(Stream(u), handled, Finished(Current(u)))
    BY <2>0 DEF Heard
  <2>3. CASE server = "receive"
    BY <2>2, <2>3 DEF Finished, Reached
  <2>4. CASE server # "receive" /\ Finished(Current(u)) = handled - 1
    BY <2>2, <2>4
  <2>5. CASE server # "receive" /\ Finished(Current(u)) = handled
    BY <2>1, <2>2, <2>5, OrderedLess
  <2> QED BY <2>1, <2>3, <2>4, <2>5
<1> QED BY <1>1, Invariance, PTL

-----------------------------------------------------------------------------
(* Broadcasts.  Passed: every client the loop has come past has the        *)
(* message in its stream.  It has to survive that clients read, leave and  *)
(* start again with a new queue while the server goes round.               *)

Has(u, m) == \E i \in 1 .. Len(Stream(u)) : Stream(u)[i] = m

Passed == server = "send" =>
  \A u \in Users, p \in 1 .. Len(clients) :
    Exists(u) /\ p < next /\ clients[p] = Current(u) => Has(u, msg)

LEMMA PassedStep == IInv /\ Passed /\ [Next]_vars => Passed'
<1> SUFFICES ASSUME IInv, Passed, [Next]_vars, server' = "send",
                    NEW v \in Users, NEW p \in 1 .. Len(clients'),
                    Exists(v)', p < next', clients'[p] = Current(v)'
             PROVE  Has(v, msg)'
  BY DEF Passed
<1>0. TypeOK /\ RunInv /\ ServerInv
  BY DEF IInv
<1>t. Exists(v) => Stream(v) \in Seq(Messages) /\ Current(v) \in Queues
  BY <1>0, StreamType, CurrentQueue
<1>1. ASSUME Exists(v), Stream(v)' = Stream(v), Current(v)' = Current(v), UNCHANGED serverVars
      PROVE  Has(v, msg)'
  <2>1. Has(v, msg)
    BY <1>1 DEF serverVars, Passed
  <2> QED BY <1>1, <2>1 DEF Has, serverVars
<1>2. ASSUME NEW u \in Users, Register(u) \/ TypeLine(u) \/ Send(u) \/ Quit(u) \/ Leave(u)
      PROVE  Has(v, msg)'
  <2>1. UNCHANGED <<queue, serverVars, run, got>>
    BY <1>2 DEF Register, TypeLine, Send, Quit, Leave
  <2>2. Exists(v)
    BY <1>0, <1>2 DEF Register, TypeLine, Send, Quit, Leave, Exists, TypeOK
  <2>3. Stream(v)' = Stream(v) /\ Current(v)' = Current(v)
    BY <2>1 DEF Stream, Current
  <2> QED BY <1>1, <2>1, <2>2, <2>3
<1>3. CASE ServerRegisterFails \/ UNCHANGED vars
  <2>1. UNCHANGED <<queue, serverVars, run, got, pc>>
    BY <1>3 DEF ServerRegisterFails, vars
  <2>2. Stream(v)' = Stream(v) /\ Current(v)' = Current(v) /\ Exists(v)
    BY <2>1 DEF Stream, Current, Exists
  <2> QED BY <1>1, <2>1, <2>2
<1>4. ASSUME NEW u \in Users, Start(u) PROVE Has(v, msg)'
  <2>1. CASE u = v
    <3>1. PICK r \in 1 .. MaxRuns : r = run[v] + 1 /\ r > run[v]
      BY <1>0, <1>4, <2>1 DEF Start, TypeOK
    <3>2. run'[v] = r /\ clients' = clients
      BY <1>0, <1>4, <2>1, <3>1 DEF Start, TypeOK, serverVars
    <3>3. ~Listed(<<v, r>>)
      BY <1>0, <3>1 DEF RunInv
    <3> QED BY <3>2, <3>3 DEF Current, Listed
  <2>2. CASE u # v
    <3>1. run'[v] = run[v] /\ got'[v] = got[v] /\ queue' = queue /\ Exists(v) /\ UNCHANGED serverVars
      BY <1>0, <1>4, <2>2 DEF Start, Exists, TypeOK
    <3>2. Stream(v)' = Stream(v) /\ Current(v)' = Current(v)
      BY <3>1 DEF Stream, Current
    <3> QED BY <1>1, <3>1, <3>2
  <2> QED BY <2>1, <2>2
<1>5. ASSUME NEW u \in Users, Receive(u) PROVE Has(v, msg)'
  <2>1. UNCHANGED <<serverVars, pc, run>> /\ Exists(v) /\ Exists(u)
    BY <1>5 DEF Receive, Exists
  <2>2. Current(v)' = Current(v)
    BY <2>1 DEF Current
  <2>3. Stream(v)' = Stream(v)
    BY <1>0, <1>5, <2>1, ReceiveKeepsStream
  <2> QED BY <1>1, <2>1, <2>2, <2>3
<1>6. CASE ServerRegister \/ ServerText
  <2>1. next' = 1 /\ p \in Nat /\ p >= 1
    BY <1>6 DEF ServerRegister, ServerText, StartBroadcast
  <2> QED BY <2>1
<1>7. CASE ServerSend
  <2>1. UNCHANGED <<clients, server, msg, pc, run, got>> /\ Exists(v) /\ server = "send"
    BY <1>7 DEF ServerSend, Exists
  <2>2. Current(v)' = Current(v) /\ clients[p] = Current(v) /\ p \in 1 .. Len(clients)
    BY <2>1 DEF Current
  <2>3. next \in 1 .. Len(clients) /\ next' = next + 1 /\ clients[next] \in Queues /\ next \in Nat
    BY <1>0, <1>7 DEF ServerSend, TypeOK
  <2>4. CASE Current(v) # clients[next]
    <3>1. queue'[Current(v)] = queue[Current(v)]
      BY <1>0, <1>7, <1>t, <2>1, <2>3, <2>4 DEF ServerSend, TypeOK
    <3>2. Stream(v)' = Stream(v)
      BY <2>1, <2>2, <3>1 DEF Stream
    <3>3. p < next
      BY <2>2, <2>3, <2>4
    <3>4. Has(v, msg)
      BY <2>1, <2>2, <3>3 DEF Passed
    <3> QED BY <2>1, <3>2, <3>4 DEF Has
  <2>5. CASE Current(v) = clients[next]
    <3>1. queue'[Current(v)] = Append(queue[Current(v)], msg)
      BY <1>0, <1>7, <2>3, <2>5 DEF ServerSend, TypeOK
    <3>2. got[v] \in Seq(Messages) /\ queue[Current(v)] \in Seq(Messages) /\ msg \in Messages
      BY <1>0, <1>t, <2>1 DEF TypeOK
    <3>3. Stream(v)' = Append(Stream(v), msg)
      <4>1. got[v] \o Append(queue[Current(v)], msg) = Append(got[v] \o queue[Current(v)], msg)
        BY <3>2, StreamAppend
      <4> QED BY <2>1, <2>2, <3>1, <4>1 DEF Stream
    <3>4. /\ Len(Append(Stream(v), msg)) = Len(Stream(v)) + 1 /\ Len(Stream(v)) \in Nat
          /\ Append(Stream(v), msg)[Len(Stream(v)) + 1] = msg
      BY <1>t, <2>1, <3>2, Appended
    <3>5. Len(Stream(v)) + 1 \in 1 .. Len(Stream(v)')
      BY <3>3, <3>4
    <3> QED BY <2>1, <3>3, <3>4, <3>5 DEF Has
  <2> QED BY <2>4, <2>5
<1>8. CASE ServerDone
  BY <1>8 DEF ServerDone
<1> QED BY <1>2, <1>3, <1>4, <1>5, <1>6, <1>7, <1>8 DEF Next, ServerStep

(* No broadcast ends without its message in the stream of every registered *)
(* client: broadcast_message waits for a full queue, and a client that     *)
(* comes back has a new queue, which the loop over clients does not hold.  *)
THEOREM Reach == Spec => BroadcastReachesAll
<1>1. Init => Passed
  BY DEF Init, Passed
<1>2. ASSUME IInv, Passed, ServerDone, NEW u \in Users, Registered(u)
      PROVE  msg \in Range(Stream(u))
  <2>1. TypeOK /\ RunInv /\ Exists(u) /\ server = "send" /\ next > Len(clients)
    BY <1>2 DEF IInv, Registered, ServerDone
  <2>2. clients \in Seq(Queues) /\ next \in Nat
    BY <2>1 DEF TypeOK
  <2>3. PICK p \in 1 .. Len(clients) : clients[p] = Current(u)
    BY <1>2, <2>2 DEF Registered, Range
  <2>4. p < next
    BY <2>1, <2>2
  <2>5. Has(u, msg)
    BY <1>2, <2>1, <2>3, <2>4 DEF Passed
  <2>6. Stream(u) \in Seq(Messages)
    BY <2>1, StreamType
  <2>7. DOMAIN Stream(u) = 1 .. Len(Stream(u))
    BY <2>6
  <2> QED BY <2>5, <2>7 DEF Has, Range
<1>3. IInv /\ Passed /\ [Next]_vars =>
        [ServerDone => \A u \in Users : Registered(u) => msg \in Range(Stream(u))]_vars
  BY <1>2
<1> QED BY <1>1, <1>3, PassedStep, Invariance, PTL DEF Spec, BroadcastReachesAll
=============================================================================

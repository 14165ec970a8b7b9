---------------------- MODULE NetworkControllerProofs ----------------------
(* NetworkController for any number of clients, connections and failures.    *)
(* Agreement follows, for each ready connection, the news on its way down    *)
(* (Says): the last role in the queue, or without one the role the client    *)
(* believes in, is the server's.  That only askers get control needs that    *)
(* nothing mentions a connection which has not asked (AskedInv), and this    *)
(* that identifiers are used again only when nothing mentions them.  The     *)
(* refinement of AbstractControl rests on both, and on a connection having   *)
(* its place in the order of acceptance once (Once).                         *)
EXTENDS NetworkController, SequenceTheorems, WellFoundedInduction, TLAPS

\* The newest role in s, or the belief d without one, is right for i if k controls.
Says(s, d, i, k) ==
  /\ \A n \in 1 .. Len(s) :
       s[n].t = "role" /\ (\A m \in n + 1 .. Len(s) : s[m].t # "role")
         => (s[n].can = TRUE <=> i = k)
  /\ (\A n \in 1 .. Len(s) : s[n].t # "role") => (d = TRUE <=> i = k)

\* s ends by telling i its role under k.
TellsRole(s, i, k) ==
  s # <<>> /\ s[Len(s)].t = "role" /\ (s[Len(s)].can = TRUE <=> i = k)

Agreed(i) == i \in ready /\ Live(i) => Says(down[i], mine[owner[i]], i, controller)

\* What the messages of kind t in s refer to has asked.
Refers(s, t, A) == \A n \in 1 .. Len(s) : s[n].t = t => s[n].who \in A

AskedInv ==
  /\ \A i \in Connections : Refers(up[i], "priorityResponse", asked)
  /\ \A i \in Connections : Refers(down[i], "priorityRequest", asked)
  /\ \A c \in Clients : \A n \in 1 .. Len(dialogs[c]) : dialogs[c][n] \in asked

OwnerInv ==
  /\ \A c \in Clients : socket[c] # None => owner[socket[c]] = c
  /\ \A i \in Connections : ServerEnd(i) => owner[i] # None

IInv ==
  TypeOK /\ SomeoneControls /\ OwnerInv /\ AskedInv /\ \A i \in Connections : Agreed(i)

-----------------------------------------------------------------------------
(* Sequences *)

LEMMA ElementOf ==
  ASSUME NEW S, NEW s \in Seq(S), NEW n \in 1 .. Len(s)
  PROVE  s[n] \in S
OBVIOUS

LEMMA HeadOf ==
  ASSUME NEW S, NEW s \in Seq(S), s # <<>>
  PROVE  /\ Head(s) \in S /\ Head(s) = s[1] /\ 1 \in 1 .. Len(s)
         /\ Tail(s) \in Seq(S) /\ Len(Tail(s)) = Len(s) - 1 /\ Len(s) \in Nat \ {0}
         /\ \A n \in 1 .. Len(s) - 1 : Tail(s)[n] = s[n + 1]
OBVIOUS

LEMMA AppendOf ==
  ASSUME NEW S, NEW s \in Seq(S), NEW x \in S
  PROVE  /\ Append(s, x) \in Seq(S) /\ Len(Append(s, x)) = Len(s) + 1 /\ Len(s) \in Nat
         /\ \A n \in 1 .. Len(s) : Append(s, x)[n] = s[n]
         /\ Append(s, x)[Len(s) + 1] = x
OBVIOUS

LEMMA JoinOf ==
  ASSUME NEW S, NEW s \in Seq(S), NEW t \in Seq(S)
  PROVE  /\ s \o t \in Seq(S) /\ Len(s \o t) = Len(s) + Len(t)
         /\ Len(s) \in Nat /\ Len(t) \in Nat
         /\ \A n \in 1 .. Len(s) : (s \o t)[n] = s[n]
         /\ \A n \in 1 .. Len(t) : (s \o t)[Len(s) + n] = t[n]
<1>1. /\ s \o t \in Seq(S) /\ Len(s \o t) = Len(s) + Len(t)
      /\ Len(s) \in Nat /\ Len(t) \in Nat
      /\ \A n \in 1 .. Len(s) + Len(t) :
           (s \o t)[n] = IF n <= Len(s) THEN s[n] ELSE t[n - Len(s)]
  BY ConcatProperties
<1>2. ASSUME NEW n \in 1 .. Len(t) PROVE (s \o t)[Len(s) + n] = t[n]
  <2>1. Len(s) + n \in 1 .. Len(s) + Len(t) /\ ~ Len(s) + n <= Len(s)
        /\ (Len(s) + n) - Len(s) = n
    BY <1>1
  <2> QED
    BY <1>1, <2>1
<1>3. \A n \in 1 .. Len(s) : n \in 1 .. Len(s) + Len(t) /\ n <= Len(s)
  BY <1>1
<1> QED
  BY <1>1, <1>2, <1>3

\* A non-empty set of numbers has a least element.
LEMMA LeastOf ==
  ASSUME NEW T \in SUBSET Nat, T # {}
  PROVE  \E n \in T : \A m \in T : n <= m
<1>1. IsWellFoundedOn(OpToRel(<, Nat), Nat)
  BY NatLessThanWellFounded, Zenon
<1>2. PICK n \in T : \A m \in T : ~ (<<m, n>> \in OpToRel(<, Nat))
  BY <1>1, WFMin, Zenon
<1>3. \A m \in T : ~ (m < n)
  BY <1>2 DEF OpToRel
<1> QED
  BY <1>3

\* And a bounded one has a greatest.
LEMMA GreatestOf ==
  ASSUME NEW T, NEW b \in Nat, T \subseteq 1 .. b, T # {}
  PROVE  \E n \in T : \A m \in T : m <= n
<1> DEFINE mirrored == {b - n : n \in T}
<1>1. mirrored \in SUBSET Nat /\ mirrored # {}
  <2>1. \A n \in T : b - n \in Nat
    OBVIOUS
  <2> QED
    BY <2>1, Zenon
<1>2. PICK x \in mirrored : \A y \in mirrored : x <= y
  BY <1>1, LeastOf
<1>3. PICK n \in T : x = b - n
  OBVIOUS
<1>4. ASSUME NEW m \in T PROVE m <= n
  <2>1. b - n <= b - m
    BY <1>2, <1>3
  <2> QED
    BY <2>1
<1> QED
  BY <1>4

-----------------------------------------------------------------------------
(* What is said down a connection *)

LEMMA SaysAfterOthers ==
  ASSUME NEW s \in Seq(ToClient), NEW t \in Seq(ToClient), NEW d, NEW i, NEW k,
         Says(s, d, i, k), \A n \in 1 .. Len(t) : t[n].t # "role"
  PROVE  Says(s \o t, d, i, k)
<1> DEFINE j == s \o t
<1>1. /\ Len(j) = Len(s) + Len(t) /\ Len(s) \in Nat /\ Len(t) \in Nat
      /\ \A n \in 1 .. Len(s) : j[n] = s[n]
      /\ \A n \in 1 .. Len(t) : j[Len(s) + n] = t[n]
  BY JoinOf
<1> HIDE DEF j
<1>2. ASSUME NEW n \in Len(s) + 1 .. Len(j) PROVE j[n].t # "role"
  <2>1. n - Len(s) \in 1 .. Len(t) /\ Len(s) + (n - Len(s)) = n
    BY <1>1
  <2> QED
    BY <1>1, <2>1
<1>3. ASSUME NEW n \in 1 .. Len(j), j[n].t = "role",
             \A m \in n + 1 .. Len(j) : j[m].t # "role"
      PROVE  j[n].can = TRUE <=> i = k
  <2>1. n \in 1 .. Len(s)
    BY <1>1, <1>2, <1>3
  <2>2. \A m \in n + 1 .. Len(s) : s[m].t # "role"
    <3> TAKE m \in n + 1 .. Len(s)
    <3>1. m \in 1 .. Len(s) /\ m \in n + 1 .. Len(j)
      BY <1>1, <2>1
    <3> QED
      BY <1>1, <1>3, <3>1
  <2> QED
    BY <1>1, <1>3, <2>1, <2>2 DEF Says
<1>4. ASSUME \A n \in 1 .. Len(j) : j[n].t # "role" PROVE d = TRUE <=> i = k
  <2>1. \A n \in 1 .. Len(s) : s[n].t # "role"
    BY <1>1, <1>4
  <2> QED
    BY <2>1 DEF Says
<1>5. Says(j, d, i, k)
  BY <1>3, <1>4 DEF Says
<1> QED
  BY <1>5 DEF j

LEMMA SaysAfterRole ==
  ASSUME NEW s \in Seq(ToClient), NEW t \in Seq(ToClient), NEW d, NEW i, NEW k,
         TellsRole(t, i, k)
  PROVE  Says(s \o t, d, i, k)
<1> DEFINE j == s \o t
<1>1. /\ Len(j) = Len(s) + Len(t) /\ Len(s) \in Nat /\ Len(t) \in Nat \ {0}
      /\ \A n \in 1 .. Len(t) : j[Len(s) + n] = t[n]
  BY JoinOf DEF TellsRole
<1> HIDE DEF j
<1>2. Len(j) \in 1 .. Len(j) /\ j[Len(j)] = t[Len(t)]
  BY <1>1
<1>3. ASSUME NEW n \in 1 .. Len(j), \A m \in n + 1 .. Len(j) : j[m].t # "role"
      PROVE  n = Len(j)
  <2>1. j[Len(j)].t = "role"
    BY <1>2 DEF TellsRole
  <2>2. n < Len(j) => Len(j) \in n + 1 .. Len(j)
    BY <1>1
  <2> QED
    BY <1>1, <1>3, <2>1, <2>2
<1>4. Says(j, d, i, k)
  BY <1>2, <1>3 DEF Says, TellsRole
<1> QED
  BY <1>4 DEF j

LEMMA SaysTaken ==
  ASSUME NEW s \in Seq(ToClient), s # <<>>, NEW d, NEW i, NEW k, Says(s, d, i, k),
         NEW e, IF Head(s).t = "role" THEN e = Head(s).can ELSE e = d
  PROVE  Says(Tail(s), e, i, k)
<1> DEFINE r == Tail(s)
<1>1. /\ Len(r) = Len(s) - 1 /\ Len(s) \in Nat \ {0} /\ Head(s) = s[1]
      /\ 1 \in 1 .. Len(s) /\ \A n \in 1 .. Len(s) - 1 : r[n] = s[n + 1]
  BY HeadOf
<1> HIDE DEF r
<1>2. ASSUME NEW n \in 1 .. Len(r), r[n].t = "role",
             \A m \in n + 1 .. Len(r) : r[m].t # "role"
      PROVE  r[n].can = TRUE <=> i = k
  <2>1. n + 1 \in 1 .. Len(s) /\ s[n + 1] = r[n]
    BY <1>1
  <2>2. \A m \in (n + 1) + 1 .. Len(s) : s[m].t # "role"
    <3> TAKE m \in (n + 1) + 1 .. Len(s)
    <3>1. m - 1 \in n + 1 .. Len(r) /\ m - 1 \in 1 .. Len(s) - 1 /\ (m - 1) + 1 = m
      BY <1>1
    <3> QED
      BY <1>1, <1>2, <3>1
  <2> QED
    BY <1>2, <2>1, <2>2 DEF Says
<1>3. ASSUME \A n \in 1 .. Len(r) : r[n].t # "role" PROVE e = TRUE <=> i = k
  <2>1. \A n \in 2 .. Len(s) : s[n].t # "role"
    <3> TAKE n \in 2 .. Len(s)
    <3>1. n - 1 \in 1 .. Len(r) /\ (n - 1) + 1 = n
      BY <1>1
    <3> QED
      BY <1>1, <1>3, <3>1
  <2>2. CASE Head(s).t = "role"
    <3>1. \A m \in 1 + 1 .. Len(s) : s[m].t # "role"
      BY <2>1
    <3> QED
      BY <1>1, <2>2, <3>1 DEF Says
  <2>3. CASE Head(s).t # "role"
    <3>1. \A n \in 1 .. Len(s) : s[n].t # "role"
      <4> TAKE n \in 1 .. Len(s)
      <4>1. n = 1 \/ n \in 2 .. Len(s)
        BY <1>1
      <4> QED
        BY <1>1, <2>1, <2>3, <4>1
    <3> QED
      BY <2>3, <3>1 DEF Says
  <2> QED
    BY <2>2, <2>3
<1>4. Says(r, e, i, k)
  BY <1>2, <1>3 DEF Says
<1> QED
  BY <1>4 DEF r

LEMMA ReferMore ==
  ASSUME NEW s, NEW t, NEW A, NEW B, A \subseteq B, Refers(s, t, A)
  PROVE  Refers(s, t, B)
BY DEF Refers

LEMMA RefersTaken ==
  ASSUME NEW S, NEW s \in Seq(S), s # <<>>, NEW t, NEW A, Refers(s, t, A)
  PROVE  Refers(Tail(s), t, A) /\ (Head(s).t = t => Head(s).who \in A)
<1>1. /\ Len(Tail(s)) = Len(s) - 1 /\ Len(s) \in Nat \ {0} /\ Head(s) = s[1]
      /\ 1 \in 1 .. Len(s) /\ \A n \in 1 .. Len(s) - 1 : Tail(s)[n] = s[n + 1]
  BY HeadOf
<1>2. \A n \in 1 .. Len(s) - 1 : n + 1 \in 1 .. Len(s)
  BY <1>1
<1> QED
  BY <1>1, <1>2 DEF Refers

LEMMA RefersJoined ==
  ASSUME NEW S, NEW s \in Seq(S), NEW r \in Seq(S), NEW t, NEW A,
         Refers(s, t, A), Refers(r, t, A)
  PROVE  Refers(s \o r, t, A)
<1> DEFINE j == s \o r
<1>1. /\ Len(j) = Len(s) + Len(r) /\ Len(s) \in Nat /\ Len(r) \in Nat
      /\ \A n \in 1 .. Len(s) : j[n] = s[n]
      /\ \A n \in 1 .. Len(r) : j[Len(s) + n] = r[n]
  BY JoinOf
<1> HIDE DEF j
<1>2. ASSUME NEW n \in 1 .. Len(j), j[n].t = t PROVE j[n].who \in A
  <2>1. CASE n \in 1 .. Len(s)
    BY <1>1, <1>2, <2>1 DEF Refers
  <2>2. CASE n \in Len(s) + 1 .. Len(j)
    <3>1. n - Len(s) \in 1 .. Len(r) /\ Len(s) + (n - Len(s)) = n
      BY <1>1, <2>2
    <3> QED
      BY <1>1, <1>2, <3>1 DEF Refers
  <2> QED
    BY <1>1, <2>1, <2>2
<1>3. Refers(j, t, A)
  BY <1>2 DEF Refers
<1> QED
  BY <1>3 DEF j

-----------------------------------------------------------------------------
(* Messages *)

LEMMA UpMessages ==
  /\ Hello \in ToServer /\ Hello.t = "hello"
  /\ RequestPriority \in ToServer /\ RequestPriority.t = "requestPriority"
  /\ \A i \in Connections, accepted \in BOOLEAN, block \in BOOLEAN :
       /\ PriorityResponse(i, accepted, block) \in ToServer
       /\ PriorityResponse(i, accepted, block).who = i
  /\ \A m \in ToServer : m.t = "priorityResponse" => m.who \in Connections
BY DEF Hello, RequestPriority, PriorityResponse, ToServer

LEMMA DownMessages ==
  /\ Ok \in ToClient /\ Ok.t = "ok"
  /\ \A can \in BOOLEAN :
       Role(can) \in ToClient /\ Role(can).t = "role" /\ Role(can).can = can
  /\ \A i \in Connections :
       /\ PriorityRequest(i) \in ToClient
       /\ PriorityRequest(i).t = "priorityRequest" /\ PriorityRequest(i).who = i
  /\ \A m \in ToClient : m.t = "role" => m.can \in BOOLEAN
  /\ \A m \in ToClient : m.t = "priorityRequest" => m.who \in Connections
<1>1. Ok \in ToClient /\ Ok.t = "ok"
  BY DEF Ok, ToClient
<1>2. ASSUME NEW can \in BOOLEAN
      PROVE  Role(can) \in ToClient /\ Role(can).t = "role" /\ Role(can).can = can
  <2>1. Role(can) \in ToClient
    BY Zenon DEF ToClient
  <2> QED
    BY <2>1 DEF Role
<1>3. ASSUME NEW i \in Connections
      PROVE  /\ PriorityRequest(i) \in ToClient
             /\ PriorityRequest(i).t = "priorityRequest" /\ PriorityRequest(i).who = i
  <2>1. PriorityRequest(i) \in ToClient
    BY Zenon DEF ToClient
  <2> QED
    BY <2>1 DEF PriorityRequest
<1>4. ASSUME NEW m \in ToClient
      PROVE  /\ m = Ok \/ (\E can \in BOOLEAN : m = Role(can))
                       \/ (\E i \in Connections : m = PriorityRequest(i))
  BY Zenon DEF ToClient
<1>5. ASSUME NEW m \in ToClient
      PROVE  /\ m.t = "role" => m.can \in BOOLEAN
             /\ m.t = "priorityRequest" => m.who \in Connections
  BY <1>1, <1>2, <1>3, <1>4
<1> QED
  BY <1>1, <1>2, <1>3, <1>5

LEMMA ShortOf ==
  ASSUME NEW S, NEW x \in S
  PROVE  /\ <<>> \in Seq(S) /\ Len(<<>>) = 0
         /\ <<x>> \in Seq(S) /\ <<x>> # <<>> /\ Len(<<x>>) = 1 /\ <<x>>[1] = x
OBVIOUS

\* What broadcasting roles says to each connection.
LEMMA RolesSay ==
  ASSUME NEW rs, NEW k, NEW i \in Connections
  PROVE  /\ Roles(rs, k) \in [Connections -> Seq(ToClient)]
         /\ Refers(Roles(rs, k)[i], "priorityRequest", {})
         /\ i \in rs => TellsRole(Roles(rs, k)[i], i, k)
         /\ i \notin rs => Roles(rs, k)[i] = <<>>
<1>1. ASSUME NEW j \in Connections
      PROVE  /\ Role(j = k) \in ToClient /\ Role(j = k).t = "role"
             /\ Role(j = k).can = TRUE <=> j = k
  <2> DEFINE same == j = k
  <2>1. same \in BOOLEAN
    OBVIOUS
  <2> HIDE DEF same
  <2>2. Role(same) \in ToClient /\ Role(same).t = "role" /\ Role(same).can = same
    BY <2>1, DownMessages
  <2>3. Role(same).can = TRUE <=> same
    BY <2>1, <2>2
  <2> QED
    BY <2>2, <2>3 DEF same
<1>2. ASSUME NEW j \in Connections
      PROVE  (IF j \in rs THEN <<Role(j = k)>> ELSE <<>>) \in Seq(ToClient)
  <2>1. <<Role(j = k)>> \in Seq(ToClient) /\ <<>> \in Seq(ToClient)
    BY <1>1, ShortOf, Zenon
  <2> QED
    BY <2>1, Zenon
<1>3. Roles(rs, k) \in [Connections -> Seq(ToClient)]
  BY <1>2, Zenon DEF Roles
<1>4. Roles(rs, k)[i] = IF i \in rs THEN <<Role(i = k)>> ELSE <<>>
  BY Zenon DEF Roles
<1>5. CASE i \in rs
  <2> DEFINE r == Role(i = k)
  <2>1. r \in ToClient /\ r.t = "role" /\ (r.can = TRUE <=> i = k)
    BY <1>1
  <2>2. Roles(rs, k)[i] = <<r>>
    BY <1>4, <1>5, Zenon
  <2> HIDE DEF r
  <2> QED
    BY <1>3, <1>5, <2>1, <2>2 DEF Refers, TellsRole
<1>6. CASE i \notin rs
  BY <1>3, <1>4, <1>6 DEF Refers
<1> QED
  BY <1>5, <1>6

\* What a message to one connection says to each.
LEMMA ToSays ==
  ASSUME NEW j \in Connections, NEW m \in ToClient, NEW i \in Connections
  PROVE  /\ To(j, m) \in [Connections -> Seq(ToClient)]
         /\ i = j => To(j, m)[i] = <<m>>
         /\ i # j => To(j, m)[i] = <<>>
<1>1. <<m>> \in Seq(ToClient) /\ <<>> \in Seq(ToClient)
  BY ShortOf, Zenon
<1>2. Nothing \in [Connections -> Seq(ToClient)]
  BY <1>1, Zenon DEF Nothing
<1>3. To(j, m) = [Nothing EXCEPT ![j] = <<m>>]
  BY Zenon DEF To
<1>4. Nothing[i] = <<>>
  BY Zenon DEF Nothing
<1>5. To(j, m) \in [Connections -> Seq(ToClient)]
  BY <1>1, <1>2, <1>3, Zenon
<1>6. i = j => To(j, m)[i] = <<m>>
  BY <1>2, <1>3, Zenon
<1>7. i # j => To(j, m)[i] = <<>>
  BY <1>2, <1>3, <1>4, Zenon
<1> QED
  BY <1>5, <1>6, <1>7, Zenon

\* What the server's answer to a hello says to each connection.
LEMMA WelcomeSays ==
  ASSUME NEW j \in Connections, NEW k, NEW i \in Connections
  PROVE  /\ Welcome(j, k) \in [Connections -> Seq(ToClient)]
         /\ Refers(Welcome(j, k)[i], "priorityRequest", {})
         /\ i = j => TellsRole(Welcome(j, k)[i], i, k)
         /\ i # j /\ j # k => Welcome(j, k)[i] = <<>>
<1> DEFINE roles == IF j = k THEN Roles(ready \cup {j}, k) ELSE To(j, Role(FALSE))
           says == roles[j]
           all == <<Ok>> \o says
<1>1. Welcome(j, k) = [roles EXCEPT ![j] = all]
  BY Zenon DEF Welcome
<1>2. Role(FALSE) \in ToClient /\ Role(FALSE).t = "role" /\ Role(FALSE).can = FALSE
      /\ Ok \in ToClient /\ Ok.t = "ok"
  BY DownMessages
<1>3. /\ roles \in [Connections -> Seq(ToClient)]
      /\ i # j /\ j # k => roles[i] = <<>>
      /\ Refers(roles[i], "priorityRequest", {})
      /\ TellsRole(says, j, k)
      /\ Refers(says, "priorityRequest", {})
  <2>1. CASE j = k
    <3> DEFINE rs == ready \cup {j}
    <3>1. roles = Roles(rs, k)
      BY <2>1, Zenon
    <3>2. j \in rs
      OBVIOUS
    <3> HIDE DEF rs, roles
    <3>3. /\ Roles(rs, k) \in [Connections -> Seq(ToClient)]
          /\ Refers(Roles(rs, k)[i], "priorityRequest", {})
      BY RolesSay, Zenon
    <3>4. /\ TellsRole(Roles(rs, k)[j], j, k)
          /\ Refers(Roles(rs, k)[j], "priorityRequest", {})
      BY <3>2, RolesSay, Zenon
    <3> QED
      BY <2>1, <3>1, <3>3, <3>4, Zenon
  <2>2. CASE j # k
    <3> DEFINE r == Role(FALSE)
    <3>1. roles = To(j, r)
      BY <2>2, Zenon
    <3>2. r \in ToClient /\ r.t = "role" /\ r.can = FALSE
      BY <1>2
    <3> HIDE DEF r, roles
    <3>3. /\ roles \in [Connections -> Seq(ToClient)]
          /\ (i # j => roles[i] = <<>>) /\ (i = j => roles[i] = <<r>>)
      BY <3>1, <3>2, ToSays, Zenon
    <3>4. says = <<r>>
      BY <3>1, <3>2, ToSays, Zenon
    <3>5. Refers(<<r>>, "priorityRequest", {}) /\ Refers(<<>>, "priorityRequest", {})
      BY <3>2 DEF Refers
    <3>6. TellsRole(<<r>>, j, k)
      BY <2>2, <3>2 DEF TellsRole
    <3> QED
      BY <3>3, <3>4, <3>5, <3>6, Zenon
  <2> QED
    BY <2>1, <2>2, Zenon
<1>4. says \in Seq(ToClient) /\ <<Ok>> \in Seq(ToClient) /\ Len(<<Ok>>) = 1 /\ <<Ok>>[1] = Ok
  BY <1>2, <1>3, ShortOf, Zenon
<1> HIDE DEF roles
<1>5. /\ all \in Seq(ToClient) /\ Len(all) = 1 + Len(says) /\ Len(says) \in Nat
      /\ \A n \in 1 .. Len(says) : all[1 + n] = says[n]
  BY <1>4, JoinOf
<1>6. Refers(<<Ok>>, "priorityRequest", {})
  BY <1>2, <1>4 DEF Refers
<1>7. Refers(all, "priorityRequest", {})
  BY <1>3, <1>4, <1>6, RefersJoined
<1> HIDE DEF all
<1>8. Welcome(j, k) \in [Connections -> Seq(ToClient)]
  BY <1>1, <1>3, <1>5, Zenon
<1>9. CASE i = j
  <2>1. Welcome(j, k)[i] = all
    BY <1>1, <1>3, <1>9, Zenon
  <2>2. Len(says) \in 1 .. Len(says)
    <3> HIDE DEF says
    <3> QED
      BY <1>3, <1>4 DEF TellsRole
  <2>3. all # <<>> /\ all[Len(all)] = says[Len(says)]
    <3> HIDE DEF says
    <3> QED
      BY <1>5, <2>2
  <2> QED
    <3>1. TellsRole(all, j, k)
      <4> HIDE DEF says
      <4> QED
        BY <1>3, <2>3 DEF TellsRole
    <3> QED
      BY <1>7, <1>8, <1>9, <2>1, <3>1, Zenon
<1>10. CASE i # j
  <2>1. Welcome(j, k)[i] = roles[i]
    BY <1>1, <1>3, <1>10, Zenon
  <2> QED
    BY <1>3, <1>8, <1>10, <2>1
<1> QED
  BY <1>9, <1>10

-----------------------------------------------------------------------------
(* What sending does *)

LEMMA SentDown ==
  ASSUME TypeOK, NEW msgs \in [Connections -> Seq(ToClient)], SendDown(msgs)
  PROVE  /\ down' \in [Connections -> Seq(ToClient)]
         /\ \A i \in Connections :
              down'[i] = IF ClientEnd(i) /\ i \notin dead THEN down[i] \o msgs[i] ELSE down[i]
<1>1. ASSUME NEW i \in Connections
      PROVE  (IF ClientEnd(i) /\ i \notin dead THEN down[i] \o msgs[i] ELSE down[i])
               \in Seq(ToClient)
  <2>1. down[i] \in Seq(ToClient) /\ msgs[i] \in Seq(ToClient)
    BY DEF TypeOK
  <2>2. down[i] \o msgs[i] \in Seq(ToClient)
    BY <2>1, JoinOf
  <2> QED
    BY <2>1, <2>2, Zenon
<1> QED
  BY <1>1, Zenon DEF SendDown

\* Nothing new is referred to by what was sent.
LEMMA SentAsked ==
  ASSUME TypeOK, AskedInv, NEW msgs \in [Connections -> Seq(ToClient)], SendDown(msgs),
         NEW A, asked \subseteq A,
         \A i \in Connections : Refers(msgs[i], "priorityRequest", A)
  PROVE  \A i \in Connections : Refers(down'[i], "priorityRequest", A)
<1> TAKE i \in Connections
<1>1. down[i] \in Seq(ToClient) /\ msgs[i] \in Seq(ToClient)
  BY DEF TypeOK
<1>2. Refers(down[i], "priorityRequest", A)
  BY ReferMore DEF AskedInv
<1>3. Refers(down[i] \o msgs[i], "priorityRequest", A)
  BY <1>1, <1>2, RefersJoined
<1>4. down'[i] = IF ClientEnd(i) /\ i \notin dead THEN down[i] \o msgs[i] ELSE down[i]
  BY SentDown
<1> QED
  BY <1>2, <1>3, <1>4

\* The news keep client and server agreed: they end with the role there is,
\* or leave controller and roles alone.
LEMMA SentAgreed ==
  ASSUME IInv, NEW msgs \in [Connections -> Seq(ToClient)], SendDown(msgs),
         owner' = owner, dead' = dead, socket' = socket, mine' = mine,
         NEW i \in Connections,
         i \in ready' =>
           \/ /\ i \in ready /\ controller' = controller
              /\ \A n \in 1 .. Len(msgs[i]) : msgs[i][n].t # "role"
           \/ TellsRole(msgs[i], i, controller')
  PROVE  Agreed(i)'
<1> SUFFICES ASSUME i \in ready', Live(i)'
             PROVE  Says(down[i], mine[owner[i]], i, controller)'
  BY DEF Agreed
<1>1. ClientEnd(i) /\ i \notin dead
  BY DEF Live, ClientEnd
<1>2. down'[i] = down[i] \o msgs[i]
  BY <1>1, SentDown DEF IInv
<1>3. down[i] \in Seq(ToClient) /\ msgs[i] \in Seq(ToClient)
  BY DEF IInv, TypeOK
<1>4. mine'[owner'[i]] = mine[owner[i]]
  OBVIOUS
<1> DEFINE d == mine[owner[i]]
           k == controller'
<1>5. Says(down[i] \o msgs[i], d, i, k)
  <2>1. CASE /\ i \in ready /\ controller' = controller
             /\ \A n \in 1 .. Len(msgs[i]) : msgs[i][n].t # "role"
    <3>1. ServerEnd(i)
      BY <2>1 DEF IInv, SomeoneControls, ServerEnd
    <3>2. Says(down[i], d, i, k)
      BY <1>1, <2>1, <3>1 DEF IInv, Agreed, Live
    <3> QED
      BY <1>3, <2>1, <3>2, SaysAfterOthers
  <2>2. CASE TellsRole(msgs[i], i, controller')
    BY <1>3, <2>2, SaysAfterRole
  <2> QED
    BY <2>1, <2>2
<1>6. Says(down'[i], mine'[owner'[i]], i, controller')
  BY <1>2, <1>4, <1>5
<1> QED
  BY <1>6 DEF Says

-----------------------------------------------------------------------------
(* A peer is lost *)

\* What is left without the n-th element, and where it was.
LEMMA RemovedAt ==
  ASSUME NEW S, NEW s \in Seq(S), NEW n \in 1 .. Len(s)
  PROVE  LET rest == RemoveAt(s, n)
         IN  /\ rest \in Seq(S) /\ Len(rest) = Len(s) - 1 /\ Len(s) \in Nat
             /\ \A m \in 1 .. n - 1 : rest[m] = s[m]
             /\ \A m \in 1 .. Len(s) - n : rest[(n - 1) + m] = s[n + m]
<1> DEFINE front == SubSeq(s, 1, n - 1)
           back == SubSeq(s, n + 1, Len(s))
           rest == front \o back
<1>1. /\ front \in Seq(S) /\ Len(front) = n - 1
      /\ \A m \in 1 .. n - 1 : front[m] = s[m]
  BY SubSeqProperties
<1>2. /\ back \in Seq(S) /\ Len(back) = Len(s) - n
      /\ \A m \in 1 .. Len(s) - n : back[m] = s[n + m]
  BY SubSeqProperties
<1> HIDE DEF front, back
<1>3. /\ rest \in Seq(S) /\ Len(rest) = Len(s) - 1 /\ Len(s) \in Nat
      /\ \A m \in 1 .. n - 1 : rest[m] = s[m]
      /\ \A m \in 1 .. Len(s) - n : rest[(n - 1) + m] = s[n + m]
  <2>1. /\ rest \in Seq(S) /\ Len(rest) = Len(front) + Len(back)
        /\ \A m \in 1 .. Len(front) : rest[m] = front[m]
        /\ \A m \in 1 .. Len(back) : rest[Len(front) + m] = back[m]
    <3>1. front \in Seq(S) /\ back \in Seq(S)
      BY <1>1, <1>2
    <3>2. /\ front \o back \in Seq(S) /\ Len(front \o back) = Len(front) + Len(back)
          /\ \A m \in 1 .. Len(front) : (front \o back)[m] = front[m]
          /\ \A m \in 1 .. Len(back) : (front \o back)[Len(front) + m] = back[m]
      BY <3>1, JoinOf
    <3> QED
      BY <3>2
  <2> HIDE DEF rest
  <2>2. Len(s) \in Nat
    OBVIOUS
  <2> QED
    BY <1>1, <1>2, <2>1, <2>2
<1>4. RemoveAt(s, n) = rest
  BY Zenon DEF RemoveAt, front, back
<1> QED
  BY <1>3, <1>4, Zenon

LEMMA RemovedOf ==
  ASSUME NEW S, NEW s \in Seq(S), NEW n \in 1 .. Len(s)
  PROVE  /\ RemoveAt(s, n) \in Seq(S)
         /\ ToSet(RemoveAt(s, n)) \subseteq ToSet(s)
         /\ \A x \in ToSet(s) : x # s[n] => x \in ToSet(RemoveAt(s, n))
<1> DEFINE rest == RemoveAt(s, n)
<1>1. /\ rest \in Seq(S) /\ Len(rest) = Len(s) - 1 /\ Len(s) \in Nat
      /\ \A m \in 1 .. n - 1 : rest[m] = s[m]
      /\ \A m \in 1 .. Len(s) - n : rest[(n - 1) + m] = s[n + m]
  BY RemovedAt
<1>2. RemoveAt(s, n) = rest
  OBVIOUS
<1> HIDE DEF rest
<1>3. /\ ToSet(rest) = {rest[m] : m \in 1 .. Len(s) - 1}
      /\ ToSet(s) = {s[m] : m \in 1 .. Len(s)}
  BY <1>1 DEF ToSet
<1>4. ASSUME NEW m \in 1 .. Len(s), m # n PROVE s[m] \in ToSet(rest)
  <2>1. CASE m < n
    <3>1. rest[m] = s[m] /\ m \in 1 .. Len(s) - 1
      BY <1>1, <2>1
    <3> QED
      BY <1>3, <3>1
  <2>2. CASE m > n
    <3>1. m - n \in 1 .. Len(s) - n /\ n + (m - n) = m
          /\ (n - 1) + (m - n) = m - 1 /\ m - 1 \in 1 .. Len(s) - 1
      BY <1>1, <2>2
    <3>2. rest[m - 1] = s[m]
      BY <1>1, <3>1
    <3> QED
      BY <1>3, <3>1, <3>2
  <2> QED
    BY <1>4, <2>1, <2>2
<1>5. ASSUME NEW m \in 1 .. Len(s) - 1 PROVE rest[m] \in ToSet(s)
  <2>1. CASE m < n
    <3>1. rest[m] = s[m] /\ m \in 1 .. Len(s)
      BY <1>1, <2>1
    <3> QED
      BY <1>3, <3>1
  <2>2. CASE ~ (m < n)
    <3>1. (m + 1) - n \in 1 .. Len(s) - n /\ n + ((m + 1) - n) = m + 1
          /\ (n - 1) + ((m + 1) - n) = m /\ m + 1 \in 1 .. Len(s)
      BY <1>1, <2>2
    <3>2. rest[m] = s[m + 1]
      BY <1>1, <3>1
    <3> QED
      BY <1>3, <3>1, <3>2
  <2> QED
    BY <2>1, <2>2
<1>6. \A x \in ToSet(s) : x # s[n] => x \in ToSet(rest)
  <2> TAKE x \in ToSet(s)
  <2>1. PICK m \in 1 .. Len(s) : x = s[m]
    BY <1>3
  <2> QED
    BY <1>4, <2>1
<1>7. ToSet(rest) \subseteq ToSet(s)
  BY <1>3, <1>5
<1> QED
  BY <1>1, <1>2, <1>6, <1>7, Zenon

\* The controller there was, if it is among the ready, else a ready one, if any.
LEMMA PromotedOne ==
  ASSUME NEW ps \in Seq(Connections), NEW rs, rs \subseteq ToSet(ps), NEW k
  PROVE  /\ k \in rs => Promoted(ps, rs, k) = k
         /\ rs # {} => Promoted(ps, rs, k) \in rs
         /\ rs = {} => Promoted(ps, rs, k) = None
<1> DEFINE candidates == {n \in DOMAIN ps : ps[n] \in rs}
           first == CHOOSE n \in candidates : \A m \in candidates : n <= m
<1>1. Promoted(ps, rs, k) =
        IF k \in rs THEN k ELSE IF candidates = {} THEN None ELSE ps[first]
  BY Zenon DEF Promoted
<1>2. DOMAIN ps = 1 .. Len(ps) /\ Len(ps) \in Nat /\ ToSet(ps) = {ps[n] : n \in 1 .. Len(ps)}
  BY DEF ToSet
<1>3. rs # {} => candidates # {}
  BY <1>2
<1>4. rs = {} => candidates = {}
  OBVIOUS
<1>5. candidates \in SUBSET Nat
  BY <1>2
<1> HIDE DEF candidates
<1>6. ASSUME candidates # {} PROVE first \in candidates
  BY <1>5, <1>6, LeastOf
<1>7. \A n \in candidates : ps[n] \in rs
  BY DEF candidates
<1> HIDE DEF first
<1> QED
  BY <1>1, <1>3, <1>4, <1>6, <1>7

LEMMA Dropped ==
  ASSUME IInv, NEW i \in Connections, i \in ToSet(peers), DropPeer(i),
         owner' = owner, dead' = dead, socket' = socket, mine' = mine
  PROVE  /\ peers' \in Seq(Connections) /\ ready' \subseteq Connections
         /\ controller' \in Connections \cup {None} /\ heartbeat' \in BOOLEAN
         /\ up' \in [Connections -> Seq(ToServer)]
         /\ down' \in [Connections -> Seq(ToClient)]
         /\ SomeoneControls'
         /\ \A j \in Connections : ServerEnd(j)' => ServerEnd(j)
         /\ \A j \in Connections : Refers(up'[j], "priorityResponse", asked)
         /\ \A j \in Connections : Refers(down'[j], "priorityRequest", asked)
         /\ \A j \in Connections : Agreed(j)'
         /\ controller \in ready' => controller' = controller
<1> DEFINE n == CHOOSE m \in DOMAIN peers : peers[m] = i
           ps == RemoveAt(peers, n)
           rs == ready \ {i}
           k == Promoted(ps, rs, controller)
           news == PromotionNews(rs, k)
           lives == heartbeat /\ k # None
<1>1. /\ peers' = ps /\ ready' = rs /\ controller' = k
      /\ heartbeat' = lives /\ SendDown(news) /\ up' = [up EXCEPT ![i] = <<>>]
      /\ pending' = pending
  BY Zenon DEF DropPeer
<1>2. peers \in Seq(Connections) /\ ready \subseteq Connections
      /\ down \in [Connections -> Seq(ToClient)] /\ up \in [Connections -> Seq(ToServer)]
      /\ heartbeat \in BOOLEAN
  BY DEF IInv, TypeOK
<1>3. n \in 1 .. Len(peers) /\ peers[n] = i
  <2>1. \E m \in DOMAIN peers : peers[m] = i
    BY Zenon DEF ToSet
  <2>2. n \in DOMAIN peers /\ peers[n] = i
    BY <2>1, Zenon
  <2> HIDE DEF n
  <2> QED
    BY <1>2, <2>2
<1> HIDE DEF n
<1>4. /\ ps \in Seq(Connections) /\ ToSet(ps) \subseteq ToSet(peers)
      /\ \A x \in ToSet(peers) : x # peers[n] => x \in ToSet(ps)
  BY <1>2, <1>3, RemovedOf
<1> HIDE DEF ps
<1>5. rs \subseteq ToSet(ps)
  BY <1>3, <1>4 DEF IInv, SomeoneControls
<1>6. /\ controller \in rs => k = controller
      /\ rs # {} => k \in rs
      /\ rs = {} => k = None
  BY <1>4, <1>5, PromotedOne
<1> HIDE DEF k
<1>7. None \notin ready
  BY <1>2 DEF None, Connections
<1>8. SomeoneControls'
  <2>1. rs # {} => heartbeat /\ k # None
    BY <1>6, <1>7 DEF IInv, SomeoneControls
  <2>2. k # None => k \in rs
    BY <1>6
  <2>3. rs # {} => lives
    BY <2>1
  <2> HIDE DEF lives
  <2>4. rs # {} => heartbeat' = TRUE
    BY <1>1, <2>3
  <2> HIDE DEF rs
  <2> QED
    BY <1>1, <1>5, <2>1, <2>2, <2>4 DEF SomeoneControls
<1>9. /\ news \in [Connections -> Seq(ToClient)]
      /\ \A j \in Connections : Refers(news[j], "priorityRequest", asked)
      /\ k = controller \/ k = None => \A j \in Connections : news[j] = <<>>
      /\ k # controller /\ k # None =>
           \A j \in Connections : j \in rs => TellsRole(news[j], j, k)
  <2>1. CASE k = controller \/ k = None
    <3>1. news = Nothing
      BY <2>1, Zenon DEF PromotionNews
    <3>2. \A j \in Connections : Nothing[j] = <<>>
      BY Zenon DEF Nothing
    <3>3. Nothing \in [Connections -> Seq(ToClient)]
      BY EmptySeq, Zenon DEF Nothing
    <3>4. Refers(<<>>, "priorityRequest", asked)
      BY DEF Refers
    <3> HIDE DEF news
    <3> QED
      BY <2>1, <3>1, <3>2, <3>3, <3>4, Zenon
  <2>2. CASE ~ (k = controller \/ k = None)
    <3>1. news = Roles(rs, k)
      BY <2>2, Zenon DEF PromotionNews
    <3> HIDE DEF news, rs
    <3>2. ASSUME NEW j \in Connections
          PROVE  /\ Roles(rs, k) \in [Connections -> Seq(ToClient)]
                 /\ Refers(Roles(rs, k)[j], "priorityRequest", {})
                 /\ j \in rs => TellsRole(Roles(rs, k)[j], j, k)
      BY RolesSay, Zenon
    <3>3. \A j \in Connections : Refers(Roles(rs, k)[j], "priorityRequest", asked)
      BY <3>2, ReferMore
    <3>4. \E j \in Connections : TRUE
      BY NetworkAssumption DEF Connections
    <3> QED
      BY <2>2, <3>1, <3>2, <3>3, <3>4, Zenon
  <2> QED
    BY <2>1, <2>2, Zenon
<1> HIDE DEF news
<1>10. down' \in [Connections -> Seq(ToClient)]
  BY <1>1, <1>9, SentDown DEF IInv
<1>11. \A j \in Connections : Refers(down'[j], "priorityRequest", asked)
  BY <1>1, <1>9, SentAsked DEF IInv
<1>12. up' \in [Connections -> Seq(ToServer)]
       /\ \A j \in Connections : Refers(up'[j], "priorityResponse", asked)
  <2>1. up' \in [Connections -> Seq(ToServer)]
    BY <1>1, <1>2, EmptySeq, Zenon
  <2>2. Refers(<<>>, "priorityResponse", asked)
    BY DEF Refers
  <2>3. ASSUME NEW j \in Connections PROVE up'[j] = IF j = i THEN <<>> ELSE up[j]
    BY <1>1, <1>2
  <2> QED
    BY <2>1, <2>2, <2>3 DEF IInv, AskedInv
<1>13. ASSUME NEW j \in Connections PROVE ServerEnd(j)' => ServerEnd(j)
  BY <1>1, <1>4 DEF ServerEnd
<1>14. ASSUME NEW j \in Connections PROVE Agreed(j)'
  <2>1. ASSUME j \in ready'
        PROVE \/ /\ j \in ready /\ controller' = controller
                 /\ \A m \in 1 .. Len(news[j]) : news[j][m].t # "role"
              \/ TellsRole(news[j], j, controller')
    <3>1. CASE k = controller
      <4>1. news[j] = <<>> /\ j \in ready /\ controller' = controller
        BY <1>1, <1>9, <2>1, <3>1
      <4> QED
        BY <4>1
    <3>2. CASE k # controller
      <4>1. k # None /\ j \in rs
        BY <1>1, <1>6, <1>7, <2>1
      <4>2. TellsRole(news[j], j, k)
        BY <1>9, <3>2, <4>1
      <4> QED
        BY <1>1, <4>2
    <3> QED
      BY <3>1, <3>2
  <2> QED
    BY <1>1, <1>9, <2>1, SentAgreed
<1>15. controller' \in Connections \cup {None}
  BY <1>1, <1>2, <1>6
<1>16. heartbeat' \in BOOLEAN
  BY <1>1, Zenon
<1>17. controller \in ready' => controller' = controller
  BY <1>1, <1>6
<1>18. peers' \in Seq(Connections) /\ ready' \subseteq Connections
  BY <1>1, <1>2, <1>4
<1> HIDE DEF lives, rs
<1> QED
  BY <1>8, <1>10, <1>11, <1>12, <1>13, <1>14, <1>15, <1>16, <1>17, <1>18, Zenon

-----------------------------------------------------------------------------
(* The server *)

LEMMA AcceptKeeps ==
  ASSUME IInv, NEW i \in Connections, Accept(i)
  PROVE  IInv'
<1>1. peers \in Seq(Connections)
  BY DEF IInv, TypeOK
<1>2. peers' \in Seq(Connections) /\ ToSet(peers') = ToSet(peers) \cup {i}
  <2>1. peers' = Append(peers, i)
    BY DEF Accept
  <2>2. /\ peers' \in Seq(Connections) /\ Len(peers') = Len(peers) + 1 /\ Len(peers) \in Nat
        /\ \A n \in 1 .. Len(peers) : peers'[n] = peers[n]
        /\ peers'[Len(peers) + 1] = i
    BY <1>1, <2>1, AppendOf
  <2>3. /\ ToSet(peers) = {peers[n] : n \in 1 .. Len(peers)}
        /\ ToSet(peers') = {peers'[n] : n \in 1 .. Len(peers) + 1}
    BY <1>1, <2>2 DEF ToSet
  <2> QED
    BY <2>2, <2>3
<1>3. TypeOK'
  BY <1>2 DEF IInv, TypeOK, Accept, clientVars, wires
<1>4. SomeoneControls'
  BY <1>2 DEF IInv, SomeoneControls, Accept
<1>5. \A j \in Connections : ServerEnd(j)' <=> ServerEnd(j)
  BY <1>2 DEF ServerEnd, Accept
<1>6. OwnerInv'
  BY <1>5 DEF IInv, OwnerInv, Accept, clientVars, wires
<1>7. AskedInv'
  BY DEF IInv, AskedInv, Accept, clientVars, wires, Refers
<1>8. ASSUME NEW j \in Connections PROVE Agreed(j)'
  BY <1>5 DEF IInv, Agreed, Accept, clientVars, wires, Live, ClientEnd, Says
<1> QED
  BY <1>3, <1>4, <1>6, <1>7, <1>8 DEF IInv

\* A handler of a lost peer.
LEMMA DropKeeps ==
  ASSUME IInv, NEW i \in Connections, i \in ToSet(peers), DropPeer(i),
         UNCHANGED <<owner, dead, clientVars, asked, requests>>,
         failures' \in 0 .. MaxFailures
  PROVE  IInv' /\ (controller \in ready' => controller' = controller)
<1>1. /\ owner' = owner /\ dead' = dead /\ socket' = socket /\ mine' = mine
      /\ phase' = phase /\ retry' = retry /\ dialogs' = dialogs
      /\ asked' = asked /\ requests' = requests
  BY DEF clientVars
<1>2. serving' = serving /\ pending' = pending /\ blocked' = blocked
  BY DEF DropPeer
<1>3. /\ peers' \in Seq(Connections) /\ ready' \subseteq Connections
      /\ controller' \in Connections \cup {None} /\ heartbeat' \in BOOLEAN
      /\ up' \in [Connections -> Seq(ToServer)]
      /\ down' \in [Connections -> Seq(ToClient)]
      /\ SomeoneControls'
      /\ \A j \in Connections : ServerEnd(j)' => ServerEnd(j)
      /\ \A j \in Connections : Refers(up'[j], "priorityResponse", asked)
      /\ \A j \in Connections : Refers(down'[j], "priorityRequest", asked)
      /\ \A j \in Connections : Agreed(j)'
      /\ controller \in ready' => controller' = controller
  BY <1>1, Dropped
<1>4. TypeOK'
  BY <1>1, <1>2, <1>3 DEF IInv, TypeOK
<1>5. OwnerInv'
  BY <1>1, <1>3 DEF IInv, OwnerInv
<1>6. AskedInv'
  BY <1>1, <1>3 DEF IInv, AskedInv, Refers
<1> QED
  BY <1>3, <1>4, <1>5, <1>6 DEF IInv

LEMMA PeerGoneKeeps ==
  ASSUME IInv, NEW i \in Connections, PeerGone(i)
  PROVE  IInv' /\ (controller \in ready' => controller' = controller)
<1>1. failures' \in 0 .. MaxFailures
  BY DEF PeerGone, IInv, TypeOK
<1> QED
  BY <1>1, DropKeeps DEF PeerGone

LEMMA HeartbeatTimeoutKeeps ==
  ASSUME IInv, NEW i \in Connections, HeartbeatTimeout(i)
  PROVE  IInv' /\ (controller \in ready' => controller' = controller)
<1>1. failures' \in 0 .. MaxFailures
  BY NetworkAssumption DEF HeartbeatTimeout, IInv, TypeOK
<1>2. i \in ToSet(peers)
  BY DEF HeartbeatTimeout, IInv, SomeoneControls
<1> QED
  BY <1>1, <1>2, DropKeeps DEF HeartbeatTimeout

\* What a handler of a line has to establish.
LEMMA ServedKeeps ==
  ASSUME IInv, NEW i \in Connections, ServerReceive(i),
         ready' \subseteq Connections, controller' \in Connections \cup {None},
         heartbeat' \in BOOLEAN, blocked' \subseteq Range(AddressOf),
         asked \subseteq asked', asked' \subseteq Connections,
         down' \in [Connections -> Seq(ToClient)],
         \A j \in Connections : Refers(down'[j], "priorityRequest", asked'),
         SomeoneControls', \A j \in Connections : Agreed(j)'
  PROVE  IInv'
<1>1. /\ i \in ToSet(peers) /\ up[i] # <<>> /\ up' = [up EXCEPT ![i] = Tail(@)]
      /\ UNCHANGED <<serving, pending, peers, owner, dead, clientVars, failures, requests>>
  BY DEF ServerReceive, Received
<1>2. up \in [Connections -> Seq(ToServer)] /\ up[i] \in Seq(ToServer)
  BY DEF IInv, TypeOK
<1>3. /\ up' \in [Connections -> Seq(ToServer)]
      /\ \A j \in Connections : Refers(up'[j], "priorityResponse", asked')
  <2> DEFINE rest == Tail(up[i])
  <2>1. rest \in Seq(ToServer)
    BY <1>1, <1>2, HeadOf
  <2>2. Refers(rest, "priorityResponse", asked)
    BY <1>1, <1>2, RefersTaken DEF IInv, AskedInv
  <2>3. up' = [up EXCEPT ![i] = rest]
    BY <1>1, Zenon
  <2> HIDE DEF rest
  <2>4. up' \in [Connections -> Seq(ToServer)]
    BY <1>2, <2>1, <2>3, Zenon
  <2>5. ASSUME NEW j \in Connections PROVE Refers(up'[j], "priorityResponse", asked)
    <3>1. up'[j] = IF j = i THEN rest ELSE up[j]
      BY <1>2, <2>3, Zenon
    <3> QED
      BY <2>2, <3>1 DEF IInv, AskedInv
  <2> QED
    BY <2>4, <2>5, ReferMore
<1>4. TypeOK'
  BY <1>1, <1>3 DEF IInv, TypeOK, clientVars
<1>5. OwnerInv'
  BY <1>1 DEF IInv, OwnerInv, ServerEnd, clientVars
<1>6. AskedInv'
  <2>1. \A j \in Connections :
          /\ Refers(up[j], "priorityResponse", asked)'
          /\ Refers(down[j], "priorityRequest", asked)'
    BY <1>3 DEF Refers
  <2>2. dialogs' = dialogs
    BY <1>1 DEF clientVars
  <2> QED
    BY <2>1, <2>2 DEF IInv, AskedInv
<1> QED
  BY <1>4, <1>5, <1>6 DEF IInv

\* The messages' heads.
LEMMA HeadUp ==
  ASSUME TypeOK, NEW i \in Connections, up[i] # <<>>
  PROVE  Head(up[i]) \in ToServer /\ Head(up[i]) = up[i][1] /\ 1 \in 1 .. Len(up[i])
<1>1. up[i] \in Seq(ToServer)
  BY DEF TypeOK
<1> QED
  BY <1>1, HeadOf

LEMMA ReceiveHelloKeeps ==
  ASSUME IInv, NEW i \in Connections, ServerReceive(i), ReceiveHello(i)
  PROVE  IInv' /\ (controller # None => controller' = controller)
<1> DEFINE k == IF controller = None THEN i ELSE controller
           news == Welcome(i, k)
<1>1. /\ IF i \in ready
         THEN UNCHANGED <<ready, controller, heartbeat, down>>
         ELSE /\ ready' = ready \cup {i}
              /\ controller' = k
              /\ heartbeat' = TRUE
              /\ SendDown(news)
      /\ UNCHANGED <<blocked, asked>>
  BY Zenon DEF ReceiveHello
<1>2. /\ i \in ToSet(peers) /\ peers' = peers /\ pending' = pending
      /\ owner' = owner /\ dead' = dead /\ socket' = socket /\ mine' = mine
  BY DEF ServerReceive, clientVars
<1>3. CASE i \in ready
  <2>1. SomeoneControls'
    BY <1>1, <1>2, <1>3 DEF IInv, SomeoneControls
  <2>2. ASSUME NEW j \in Connections PROVE Agreed(j)'
    BY <1>1, <1>2, <1>3 DEF IInv, Agreed, Live, ServerEnd, ClientEnd, Says
  <2>3. IInv'
    <3>1. \A j \in Connections : Refers(down'[j], "priorityRequest", asked')
      BY <1>1, <1>3 DEF IInv, AskedInv
    <3>2. /\ ready' \subseteq Connections /\ controller' \in Connections \cup {None}
          /\ heartbeat' \in BOOLEAN /\ blocked' \subseteq Range(AddressOf)
          /\ asked \subseteq asked' /\ asked' \subseteq Connections
          /\ down' \in [Connections -> Seq(ToClient)]
      BY <1>1, <1>3 DEF IInv, TypeOK
    <3> QED
      BY <2>1, <2>2, <3>1, <3>2, ServedKeeps
  <2> QED
    BY <1>1, <1>3, <2>3
<1>4. CASE i \notin ready
  <2>1. /\ ready' = ready \cup {i} /\ controller' = k /\ heartbeat' = TRUE
        /\ SendDown(news) /\ blocked' = blocked /\ asked' = asked
    BY <1>1, <1>4
  <2>2. ready \subseteq Connections /\ controller \in Connections \cup {None}
        /\ blocked \subseteq Range(AddressOf) /\ asked \subseteq Connections
    BY DEF IInv, TypeOK
  <2>3. None \notin Connections
    BY DEF None, Connections
  <2>4. i # k => controller # None /\ k = controller
    OBVIOUS
  <2>5. i = k => ready = {}
    BY <1>4 DEF IInv, SomeoneControls
  <2>6. SomeoneControls'
    BY <1>2, <2>1, <2>2, <2>3 DEF IInv, SomeoneControls
  <2>7. controller' \in Connections \cup {None} /\ (controller # None => controller' = controller)
    BY <2>1, <2>2
  <2> HIDE DEF k
  <2>8. ASSUME NEW j \in Connections
        PROVE  /\ news \in [Connections -> Seq(ToClient)]
               /\ Refers(news[j], "priorityRequest", {})
               /\ j = i => TellsRole(news[j], j, k)
               /\ j # i /\ i # k => news[j] = <<>>
    BY WelcomeSays, Zenon
  <2> HIDE DEF news
  <2>9. news \in [Connections -> Seq(ToClient)]
        /\ \A j \in Connections : Refers(news[j], "priorityRequest", asked')
    BY <2>8, ReferMore
  <2>10. down' \in [Connections -> Seq(ToClient)]
    BY <2>1, <2>9, SentDown DEF IInv
  <2>11. \A j \in Connections : Refers(down'[j], "priorityRequest", asked')
    BY <2>1, <2>9, SentAsked DEF IInv
  <2>12. ASSUME NEW j \in Connections PROVE Agreed(j)'
    <3>1. ASSUME j \in ready'
          PROVE \/ /\ j \in ready /\ controller' = controller
                   /\ \A m \in 1 .. Len(news[j]) : news[j][m].t # "role"
                \/ TellsRole(news[j], j, controller')
      <4>1. CASE j = i
        BY <2>1, <2>8, <4>1
      <4>2. CASE j # i
        <5>1. j \in ready /\ i # k
          BY <2>1, <2>5, <3>1, <4>2
        <5>2. news[j] = <<>> /\ controller' = controller
          BY <2>1, <2>4, <2>8, <4>2, <5>1
        <5> QED
          BY <5>1, <5>2
      <4> QED
        BY <4>1, <4>2
    <3> QED
      BY <1>2, <2>1, <2>9, <3>1, SentAgreed
  <2>13. ready' \subseteq Connections /\ heartbeat' \in BOOLEAN
         /\ blocked' \subseteq Range(AddressOf)
         /\ asked \subseteq asked' /\ asked' \subseteq Connections
    BY <2>1, <2>2
  <2> QED
    BY <2>6, <2>7, <2>10, <2>11, <2>12, <2>13, ServedKeeps
<1> QED
  BY <1>3, <1>4

\* setControllerPeer() of a connection that has asked.
LEMMA SetControllerKeeps ==
  ASSUME IInv, NEW i \in Connections, SetController(i), i \in asked',
         ready' = ready, heartbeat' = heartbeat, peers' = peers, pending' = pending,
         asked \subseteq asked',
         owner' = owner, dead' = dead, socket' = socket, mine' = mine
  PROVE  /\ controller' \in Connections \cup {None}
         /\ down' \in [Connections -> Seq(ToClient)]
         /\ \A j \in Connections : Refers(down'[j], "priorityRequest", asked')
         /\ SomeoneControls'
         /\ \A j \in Connections : Agreed(j)'
         /\ controller' # controller => controller' \in asked'
<1>1. CASE i \in ready
  <2> DEFINE news == Roles(ready, i)
  <2>1. controller' = i /\ SendDown(news)
    BY <1>1 DEF SetController
  <2>2. ASSUME NEW j \in Connections
        PROVE  /\ news \in [Connections -> Seq(ToClient)]
               /\ Refers(news[j], "priorityRequest", {})
               /\ j \in ready => TellsRole(news[j], j, i)
    BY RolesSay, Zenon
  <2> HIDE DEF news
  <2>3. news \in [Connections -> Seq(ToClient)]
        /\ \A j \in Connections : Refers(news[j], "priorityRequest", asked')
    BY <2>2, ReferMore
  <2>4. down' \in [Connections -> Seq(ToClient)]
    BY <2>1, <2>3, SentDown DEF IInv
  <2>5. \A j \in Connections : Refers(down'[j], "priorityRequest", asked')
    BY <2>1, <2>3, SentAsked DEF IInv
  <2>6. SomeoneControls'
    BY <1>1, <2>1 DEF IInv, SomeoneControls, None, Connections
  <2>7. ASSUME NEW j \in Connections PROVE Agreed(j)'
    <3>1. j \in ready' => TellsRole(news[j], j, controller')
      BY <2>1, <2>2
    <3> QED
      BY <2>1, <2>3, <3>1, SentAgreed
  <2> QED
    BY <2>1, <2>4, <2>5, <2>6, <2>7
<1>2. CASE i \notin ready
  <2>1. controller' = controller /\ down' = down
    BY <1>2 DEF SetController
  <2>2. ASSUME NEW j \in Connections PROVE Agreed(j)'
    BY <2>1 DEF IInv, Agreed, Live, ServerEnd, ClientEnd, Says
  <2>3. SomeoneControls'
    BY <2>1 DEF IInv, SomeoneControls
  <2>4. ASSUME NEW j \in Connections PROVE Refers(down'[j], "priorityRequest", asked')
    BY <2>1, ReferMore DEF IInv, AskedInv
  <2> QED
    BY <2>1, <2>2, <2>3, <2>4 DEF IInv, TypeOK
<1> QED
  BY <1>1, <1>2

\* Likewise a handler that leaves controller and messages alone.
LEMMA SilentKeeps ==
  ASSUME IInv, controller' = controller, down' = down,
         ready' = ready, heartbeat' = heartbeat, peers' = peers, pending' = pending,
         asked \subseteq asked',
         owner' = owner, dead' = dead, socket' = socket, mine' = mine
  PROVE  /\ controller' \in Connections \cup {None}
         /\ down' \in [Connections -> Seq(ToClient)]
         /\ \A j \in Connections : Refers(down'[j], "priorityRequest", asked')
         /\ SomeoneControls'
         /\ \A j \in Connections : Agreed(j)'
<1>1. ASSUME NEW j \in Connections PROVE Agreed(j)'
  BY DEF IInv, Agreed, Live, ServerEnd, ClientEnd, Says
<1>2. SomeoneControls'
  BY DEF IInv, SomeoneControls
<1>3. ASSUME NEW j \in Connections PROVE Refers(down'[j], "priorityRequest", asked')
  BY ReferMore DEF IInv, AskedInv
<1> QED
  BY <1>1, <1>2, <1>3 DEF IInv, TypeOK

\* And one that sends one message, to a ready peer.
LEMMA MessageKeeps ==
  ASSUME IInv, NEW i \in Connections, NEW m \in ToClient, SendDown(To(i, m)),
         m.t = "role" => (m.can = TRUE <=> i = controller),
         m.t = "priorityRequest" => m.who \in asked',
         controller' = controller,
         ready' = ready, heartbeat' = heartbeat, peers' = peers, pending' = pending,
         asked \subseteq asked',
         owner' = owner, dead' = dead, socket' = socket, mine' = mine
  PROVE  /\ controller' \in Connections \cup {None}
         /\ down' \in [Connections -> Seq(ToClient)]
         /\ \A j \in Connections : Refers(down'[j], "priorityRequest", asked')
         /\ SomeoneControls'
         /\ \A j \in Connections : Agreed(j)'
<1> DEFINE news == To(i, m)
<1>1. ASSUME NEW j \in Connections
      PROVE  /\ news \in [Connections -> Seq(ToClient)]
             /\ j = i => news[j] = <<m>>
             /\ j # i => news[j] = <<>>
  BY ToSays, Zenon
<1>2. SendDown(news)
  OBVIOUS
<1> HIDE DEF news
<1>3. Len(<<m>>) = 1 /\ <<m>>[1] = m /\ <<m>> # <<>>
  OBVIOUS
<1>4. Refers(<<m>>, "priorityRequest", asked') /\ Refers(<<>>, "priorityRequest", asked')
  BY <1>3 DEF Refers
<1>5. news \in [Connections -> Seq(ToClient)]
      /\ \A j \in Connections : Refers(news[j], "priorityRequest", asked')
  BY <1>1, <1>4
<1>6. down' \in [Connections -> Seq(ToClient)]
  BY <1>2, <1>5, SentDown DEF IInv
<1>7. \A j \in Connections : Refers(down'[j], "priorityRequest", asked')
  BY <1>2, <1>5, SentAsked DEF IInv
<1>8. SomeoneControls'
  BY DEF IInv, SomeoneControls
<1>9. ASSUME NEW j \in Connections PROVE Agreed(j)'
  <2>1. ASSUME j \in ready'
        PROVE \/ /\ j \in ready /\ controller' = controller
                 /\ \A n \in 1 .. Len(news[j]) : news[j][n].t # "role"
              \/ TellsRole(news[j], j, controller')
    <3>1. CASE j # i
      BY <1>1, <2>1, <3>1
    <3>2. CASE j = i /\ m.t = "role"
      <4>1. TellsRole(<<m>>, i, controller)
        BY <1>3, <3>2 DEF TellsRole
      <4> QED
        BY <1>1, <3>2, <4>1
    <3>3. CASE j = i /\ m.t # "role"
      BY <1>1, <1>3, <2>1, <3>3
    <3> QED
      BY <3>1, <3>2, <3>3
  <2> QED
    BY <1>2, <1>5, <2>1, SentAgreed
<1> QED
  BY <1>6, <1>7, <1>8, <1>9 DEF IInv, TypeOK

LEMMA ReceiveRequestPriorityKeeps ==
  ASSUME IInv, NEW i \in Connections, ServerReceive(i), ReceiveRequestPriority(i)
  PROVE  IInv' /\ (controller' # controller => controller' \in asked')
<1>1. /\ i \in ToSet(peers) /\ peers' = peers /\ pending' = pending
      /\ owner' = owner /\ dead' = dead /\ socket' = socket /\ mine' = mine
  BY DEF ServerReceive, clientVars
<1>2. /\ asked' = asked \cup {i}
      /\ ready' = ready /\ heartbeat' = heartbeat /\ blocked' = blocked
  BY DEF ReceiveRequestPriority
<1>3. \/ i = controller /\ SendDown(To(i, Role(TRUE))) /\ controller' = controller
      \/ controller' = controller /\ down' = down
      \/ controller = None /\ SetController(i)
      \/ controller # None /\ SendDown(To(controller, PriorityRequest(i)))
         /\ controller' = controller
  BY Zenon DEF ReceiveRequestPriority
<1>4. asked \subseteq asked' /\ asked' \subseteq Connections /\ i \in asked'
      /\ blocked' \subseteq Range(AddressOf) /\ ready' \subseteq Connections
      /\ heartbeat' \in BOOLEAN /\ controller \in Connections \cup {None}
  BY <1>2 DEF IInv, TypeOK
<1>5. /\ controller' \in Connections \cup {None}
      /\ down' \in [Connections -> Seq(ToClient)]
      /\ \A j \in Connections : Refers(down'[j], "priorityRequest", asked')
      /\ SomeoneControls'
      /\ \A j \in Connections : Agreed(j)'
      /\ controller' # controller => controller' \in asked'
  <2>1. CASE i = controller /\ SendDown(To(i, Role(TRUE))) /\ controller' = controller
    <3> DEFINE m == Role(TRUE)
    <3>1. m \in ToClient /\ m.t = "role" /\ m.can = TRUE /\ SendDown(To(i, m))
      BY <2>1, DownMessages
    <3> HIDE DEF m
    <3> QED
      BY <1>1, <1>2, <1>4, <2>1, <3>1, MessageKeeps
  <2>2. CASE controller' = controller /\ down' = down
    BY <1>1, <1>2, <1>4, <2>2, SilentKeeps
  <2>3. CASE SetController(i)
    BY <1>1, <1>2, <1>4, <2>3, SetControllerKeeps
  <2>4. CASE controller # None /\ SendDown(To(controller, PriorityRequest(i)))
             /\ controller' = controller
    <3> DEFINE m == PriorityRequest(i)
    <3>1. m \in ToClient /\ m.t = "priorityRequest" /\ m.who = i
          /\ SendDown(To(controller, m)) /\ controller \in Connections
      BY <1>4, <2>4, DownMessages
    <3> HIDE DEF m
    <3> QED
      BY <1>1, <1>2, <1>4, <2>4, <3>1, MessageKeeps
  <2> QED
    BY <1>3, <2>1, <2>2, <2>3, <2>4
<1> QED
  BY <1>4, <1>5, ServedKeeps

LEMMA ReceivePriorityResponseKeeps ==
  ASSUME IInv, NEW i \in Connections, ServerReceive(i), ReceivePriorityResponse(i)
  PROVE  IInv' /\ (controller' # controller => controller' \in asked')
<1> DEFINE m == Head(up[i])
<1>1. /\ i \in ToSet(peers) /\ up[i] # <<>> /\ peers' = peers /\ pending' = pending
      /\ owner' = owner /\ dead' = dead /\ socket' = socket /\ mine' = mine
  BY DEF ServerReceive, clientVars
<1>2. /\ m.t = "priorityResponse"
      /\ ready' = ready /\ heartbeat' = heartbeat /\ asked' = asked
      /\ \/ blocked' = blocked
         \/ m.who \in ToSet(peers) /\ blocked' = blocked \cup {AddressOf[owner[m.who]]}
      /\ \/ controller' = controller /\ down' = down
         \/ SetController(m.who)
  BY Zenon DEF ReceivePriorityResponse
<1>3. m \in ToServer /\ m = up[i][1] /\ 1 \in 1 .. Len(up[i])
  BY <1>1, HeadUp DEF IInv
<1> HIDE DEF m
<1>4. m.who \in Connections /\ m.who \in asked
  <2>1. m.who \in Connections
    BY <1>2, <1>3, UpMessages
  <2>2. Refers(up[i], "priorityResponse", asked)
    BY DEF IInv, AskedInv
  <2> QED
    BY <1>2, <1>3, <2>1, <2>2 DEF Refers
<1>5. blocked' \subseteq Range(AddressOf)
  <2>1. blocked \subseteq Range(AddressOf)
    BY DEF IInv, TypeOK
  <2>2. ASSUME m.who \in ToSet(peers) PROVE AddressOf[owner[m.who]] \in Range(AddressOf)
    <3>1. owner[m.who] # None /\ owner[m.who] \in Clients \cup {None}
      BY <1>4, <2>2 DEF IInv, OwnerInv, ServerEnd, TypeOK
    <3>2. owner[m.who] \in DOMAIN AddressOf
      BY <3>1, NetworkAssumption
    <3> QED
      BY <3>2 DEF Range
  <2> QED
    BY <1>2, <2>1, <2>2
<1>6. ready' \subseteq Connections /\ heartbeat' \in BOOLEAN
      /\ asked \subseteq asked' /\ asked' \subseteq Connections
  BY <1>2 DEF IInv, TypeOK
<1>7. /\ controller' \in Connections \cup {None}
      /\ down' \in [Connections -> Seq(ToClient)]
      /\ \A j \in Connections : Refers(down'[j], "priorityRequest", asked')
      /\ SomeoneControls'
      /\ \A j \in Connections : Agreed(j)'
      /\ controller' # controller => controller' \in asked'
  <2>1. CASE controller' = controller /\ down' = down
    BY <1>1, <1>2, <1>6, <2>1, SilentKeeps
  <2>2. CASE SetController(m.who)
    BY <1>1, <1>2, <1>4, <1>6, <2>2, SetControllerKeeps
  <2> QED
    BY <1>2, <2>1, <2>2
<1> QED
  BY <1>5, <1>6, <1>7, ServedKeeps

LEMMA StopServerKeeps ==
  ASSUME IInv, StopServer
  PROVE  IInv'
<1>1. /\ pending' = {} /\ peers' = <<>> /\ ready' = {} /\ controller' = None
      /\ heartbeat' = FALSE /\ serving' = FALSE /\ up' = Nothing
      /\ blocked' = blocked /\ owner' = owner /\ dead' = dead /\ down' = down
      /\ socket' = socket /\ phase' = phase /\ mine' = mine /\ retry' = retry
      /\ dialogs' = dialogs /\ asked' = asked /\ requests' = requests
      /\ failures < MaxFailures /\ failures' = failures + 1
  BY DEF StopServer, clientVars
<1>2. up' \in [Connections -> Seq(ToServer)] /\ \A j \in Connections : up'[j] = <<>>
  BY <1>1, EmptySeq, Zenon DEF Nothing
<1>3. peers' \in Seq(Connections) /\ ToSet(peers') = {}
  BY <1>1 DEF ToSet
<1>4. TypeOK'
  <2>1. failures' \in 0 .. MaxFailures
    BY <1>1, NetworkAssumption DEF IInv, TypeOK
  <2>2. /\ serving' \in BOOLEAN /\ heartbeat' \in BOOLEAN
        /\ pending' \subseteq Connections /\ ready' \subseteq Connections
        /\ controller' \in Connections \cup {None}
    BY <1>1
  <2> QED
    BY <1>1, <1>2, <1>3, <2>1, <2>2 DEF IInv, TypeOK
<1>5. SomeoneControls'
  BY <1>1 DEF SomeoneControls
<1>6. OwnerInv'
  BY <1>1, <1>3 DEF IInv, OwnerInv, ServerEnd
<1>7. AskedInv'
  <2>1. \A j \in Connections :
          /\ Refers(up[j], "priorityResponse", asked)'
          /\ Refers(down[j], "priorityRequest", asked)'
    BY <1>1, <1>2 DEF IInv, AskedInv, Refers
  <2> QED
    BY <1>1, <2>1 DEF IInv, AskedInv
<1>8. ASSUME NEW j \in Connections PROVE Agreed(j)'
  BY <1>1 DEF Agreed
<1> QED
  BY <1>4, <1>5, <1>6, <1>7, <1>8 DEF IInv

LEMMA StartServerKeeps ==
  ASSUME IInv, StartServer
  PROVE  IInv'
<1>1. /\ serving' = TRUE
      /\ UNCHANGED <<pending, peers, ready, controller, heartbeat, blocked, clientVars,
                     wires, asked, failures, requests>>
  BY DEF StartServer
<1>2. TypeOK'
  BY <1>1 DEF IInv, TypeOK, clientVars, wires
<1>3. SomeoneControls' /\ OwnerInv'
  BY <1>1 DEF IInv, SomeoneControls, OwnerInv, ServerEnd, clientVars, wires
<1>4. AskedInv'
  BY <1>1 DEF IInv, AskedInv, Refers, clientVars, wires
<1>5. ASSUME NEW j \in Connections PROVE Agreed(j)'
  BY <1>1 DEF IInv, Agreed, Live, ServerEnd, ClientEnd, Says, clientVars, wires
<1> QED
  BY <1>2, <1>3, <1>4, <1>5 DEF IInv

-----------------------------------------------------------------------------
(* The clients *)

\* What a step of a client, or of the network, has to establish.
LEMMA ClientKeeps ==
  ASSUME IInv, UNCHANGED serverVars, owner' = owner, asked' = asked, TypeOK',
         \A c \in Clients : socket'[c] # None => socket'[c] = socket[c],
         \A j \in Connections : Refers(up'[j], "priorityResponse", asked),
         \A j \in Connections : Refers(down'[j], "priorityRequest", asked),
         \A c \in Clients : \A n \in 1 .. Len(dialogs'[c]) : dialogs'[c][n] \in asked,
         \A j \in Connections :
           ClientEnd(j)' /\ j \notin dead' =>
             /\ ClientEnd(j) /\ j \notin dead
             /\ \/ down'[j] = down[j] /\ mine'[owner[j]] = mine[owner[j]]
                \/ /\ down[j] # <<>> /\ down'[j] = Tail(down[j])
                   /\ IF Head(down[j]).t = "role"
                      THEN mine'[owner[j]] = Head(down[j]).can
                      ELSE mine'[owner[j]] = mine[owner[j]]
  PROVE  IInv'
<1>1. /\ pending' = pending /\ peers' = peers /\ ready' = ready
      /\ controller' = controller /\ heartbeat' = heartbeat
  BY DEF serverVars
<1>2. SomeoneControls'
  BY <1>1 DEF IInv, SomeoneControls
<1>3. OwnerInv'
  BY <1>1 DEF IInv, OwnerInv, ServerEnd
<1>4. AskedInv'
  <2>1. \A j \in Connections :
          /\ Refers(up[j], "priorityResponse", asked)'
          /\ Refers(down[j], "priorityRequest", asked)'
    BY DEF Refers
  <2> QED
    BY <2>1 DEF AskedInv
<1>5. ASSUME NEW j \in Connections PROVE Agreed(j)'
  <2> SUFFICES ASSUME j \in ready', Live(j)'
               PROVE  Says(down'[j], mine'[owner'[j]], j, controller')
    BY DEF Agreed, Says
  <2>1. ClientEnd(j)' /\ j \notin dead' /\ ServerEnd(j)
    BY <1>1 DEF Live, ServerEnd
  <2>2. ClientEnd(j) /\ j \notin dead
    BY <2>1
  <2>3. Says(down[j], mine[owner[j]], j, controller)
    BY <1>1, <2>1, <2>2 DEF IInv, Agreed, Live
  <2>4. CASE down'[j] = down[j] /\ mine'[owner[j]] = mine[owner[j]]
    BY <1>1, <2>3, <2>4
  <2>5. CASE /\ down[j] # <<>> /\ down'[j] = Tail(down[j])
             /\ IF Head(down[j]).t = "role"
                THEN mine'[owner[j]] = Head(down[j]).can
                ELSE mine'[owner[j]] = mine[owner[j]]
    <3> DEFINE d == mine[owner[j]]
               e == mine'[owner[j]]
    <3>1. down[j] \in Seq(ToClient)
      BY DEF IInv, TypeOK
    <3>2. IF Head(down[j]).t = "role" THEN e = Head(down[j]).can ELSE e = d
      BY <2>5
    <3>3. Says(down[j], d, j, controller)
      BY <2>3
    <3> HIDE DEF d, e
    <3>4. Says(Tail(down[j]), e, j, controller)
      BY <2>5, <3>1, <3>2, <3>3, SaysTaken
    <3> QED
      BY <1>1, <2>5, <3>4 DEF e
  <2> QED
    BY <2>1, <2>4, <2>5
<1> QED
  BY <1>2, <1>3, <1>4, <1>5 DEF IInv

\* An emptied queue refers to nothing.
LEMMA EmptyRefers ==
  ASSUME NEW t, NEW A
  PROVE  Refers(<<>>, t, A)
BY DEF Refers

\* The connection of a client is the only one whose client end it has.
LEMMA OwnEnd ==
  ASSUME IInv, NEW c \in Clients, NEW j \in Connections, ClientEnd(j)
  PROVE  /\ owner[j] \in Clients /\ socket[owner[j]] = j
         /\ owner[j] = c <=> j = socket[c]
<1>1. owner[j] \in Clients /\ socket[owner[j]] = j
  BY DEF ClientEnd, IInv, TypeOK
<1>2. j # None
  BY DEF None, Connections
<1> QED
  BY <1>1, <1>2 DEF IInv, OwnerInv

\* A client gives its connection up.
LEMMA ClosedKeeps ==
  ASSUME IInv, NEW c \in Clients, UNCHANGED <<serverVars, owner, asked>>,
         socket' = [socket EXCEPT ![c] = None], TypeOK', dead \subseteq dead',
         \A d \in Clients : d # c => mine'[d] = mine[d],
         \A d \in Clients : dialogs'[d] \in {dialogs[d], <<>>},
         \A j \in Connections : up'[j] \in {up[j], <<>>},
         \A j \in Connections : down'[j] = down[j] \/ (j = socket[c] /\ down'[j] = <<>>)
  PROVE  IInv'
<1>1. \A d \in Clients : socket'[d] = IF d = c THEN None ELSE socket[d]
  BY DEF IInv, TypeOK
<1>2. \A d \in Clients : socket'[d] # None => socket'[d] = socket[d]
  BY <1>1
<1>3. \A j \in Connections : Refers(up'[j], "priorityResponse", asked)
  BY EmptyRefers DEF IInv, AskedInv
<1>4. \A j \in Connections : Refers(down'[j], "priorityRequest", asked)
  BY EmptyRefers DEF IInv, AskedInv
<1>5. \A d \in Clients : \A n \in 1 .. Len(dialogs'[d]) : dialogs'[d][n] \in asked
  <2> TAKE d \in Clients
  <2>1. CASE dialogs'[d] = dialogs[d]
    BY <2>1 DEF IInv, AskedInv
  <2>2. CASE dialogs'[d] = <<>>
    BY <2>2
  <2> QED
    BY <2>1, <2>2
<1>6. ASSUME NEW j \in Connections, ClientEnd(j)', j \notin dead'
      PROVE  /\ ClientEnd(j) /\ j \notin dead
             /\ down'[j] = down[j] /\ mine'[owner[j]] = mine[owner[j]]
  <2>1. owner[j] # None /\ socket'[owner[j]] = j /\ owner[j] \in Clients /\ j # None
    <3>1. owner[j] # None /\ socket'[owner[j]] = j
      BY <1>6 DEF ClientEnd
    <3>2. owner[j] \in Clients \cup {None}
      BY DEF IInv, TypeOK
    <3> QED
      BY <3>1, <3>2 DEF None, Connections
  <2>2. owner[j] # c /\ socket[owner[j]] = j
    BY <1>1, <2>1
  <2>3. ClientEnd(j) /\ j # socket[c]
    BY <2>1, <2>2, OwnEnd DEF ClientEnd
  <2> QED
    BY <1>6, <2>1, <2>2, <2>3
<1> QED
  BY <1>2, <1>3, <1>4, <1>5, <1>6, ClientKeeps

LEMMA LoseChannelKeeps ==
  ASSUME IInv, NEW c \in Clients, LoseChannel(c),
         failures' \in 0 .. MaxFailures
  PROVE  IInv'
<1>1. /\ socket' = [socket EXCEPT ![c] = None]
      /\ phase' = [phase EXCEPT ![c] = "closed"]
      /\ retry' = [retry EXCEPT ![c] = TRUE]
      /\ down' = [down EXCEPT ![socket[c]] = <<>>]
      /\ UNCHANGED serverVars
      /\ owner' = owner /\ dead' = dead /\ up' = up /\ mine' = mine
      /\ dialogs' = dialogs /\ asked' = asked /\ requests' = requests
  BY DEF LoseChannel
<1>2. down \in [Connections -> Seq(ToClient)]
  BY DEF IInv, TypeOK
<1>3. down' \in [Connections -> Seq(ToClient)]
  BY <1>1, <1>2, EmptySeq, Zenon
<1>4. socket' \in [Clients -> Connections \cup {None}]
      /\ phase' \in [Clients -> {"off", "closed", "connecting", "handshake", "ready"}]
      /\ retry' \in [Clients -> BOOLEAN]
  BY <1>1 DEF IInv, TypeOK
<1>5. TypeOK'
  BY <1>1, <1>3, <1>4 DEF IInv, TypeOK, serverVars
<1>6. \A j \in Connections : down'[j] = down[j] \/ (j = socket[c] /\ down'[j] = <<>>)
  BY <1>1, <1>2
<1> QED
  BY <1>1, <1>5, <1>6, ClosedKeeps

LEMMA ServerGoneKeeps ==
  ASSUME IInv, NEW c \in Clients, ServerGone(c)
  PROVE  IInv'
<1>1. failures' \in 0 .. MaxFailures
  BY DEF ServerGone, IInv, TypeOK
<1> QED
  BY <1>1, LoseChannelKeeps DEF ServerGone

LEMMA HandshakeTimeoutKeeps ==
  ASSUME IInv, NEW c \in Clients, HandshakeTimeout(c)
  PROVE  IInv'
<1>1. failures' \in 0 .. MaxFailures
  BY NetworkAssumption DEF HandshakeTimeout, IInv, TypeOK
<1> QED
  BY <1>1, LoseChannelKeeps DEF HandshakeTimeout

LEMMA ServerSilentKeeps ==
  ASSUME IInv, NEW c \in Clients, ServerSilent(c)
  PROVE  IInv'
<1>1. failures' \in 0 .. MaxFailures
  BY NetworkAssumption DEF ServerSilent, IInv, TypeOK
<1> QED
  BY <1>1, LoseChannelKeeps DEF ServerSilent

LEMMA DisconnectKeeps ==
  ASSUME IInv, NEW c \in Clients, Disconnect(c)
  PROVE  IInv'
<1>1. /\ socket' = [socket EXCEPT ![c] = None]
      /\ phase' = [phase EXCEPT ![c] = "off"]
      /\ mine' = [mine EXCEPT ![c] = TRUE]
      /\ down' = [i \in Connections |-> IF i = socket[c] THEN <<>> ELSE down[i]]
      /\ UNCHANGED serverVars
      /\ owner' = owner /\ dead' = dead /\ up' = up /\ retry' = retry
      /\ dialogs' = dialogs /\ asked' = asked /\ requests' = requests
      /\ failures < MaxFailures /\ failures' = failures + 1
  BY DEF Disconnect
<1>2. ASSUME NEW j \in Connections
      PROVE  /\ down'[j] = IF j = socket[c] THEN <<>> ELSE down[j]
             /\ down'[j] \in Seq(ToClient)
  <2>1. down'[j] = IF j = socket[c] THEN <<>> ELSE down[j]
    BY <1>1, Zenon
  <2>2. down[j] \in Seq(ToClient)
    BY DEF IInv, TypeOK
  <2> QED
    BY <2>1, <2>2, EmptySeq
<1>3. down' \in [Connections -> Seq(ToClient)]
  <2>1. down' = [i \in Connections |-> down'[i]]
    BY <1>1, Zenon
  <2> QED
    BY <1>2, <2>1, Zenon
<1>4. socket' \in [Clients -> Connections \cup {None}]
      /\ phase' \in [Clients -> {"off", "closed", "connecting", "handshake", "ready"}]
      /\ mine' \in [Clients -> BOOLEAN]
  BY <1>1 DEF IInv, TypeOK
<1>5. failures' \in 0 .. MaxFailures
  BY <1>1, NetworkAssumption DEF IInv, TypeOK
<1>6. TypeOK'
  BY <1>1, <1>3, <1>4, <1>5 DEF IInv, TypeOK, serverVars
<1>7. \A d \in Clients : d # c => mine'[d] = mine[d]
  BY <1>1 DEF IInv, TypeOK
<1> QED
  BY <1>1, <1>2, <1>6, <1>7, ClosedKeeps

LEMMA ClientCrashKeeps ==
  ASSUME IInv, NEW c \in Clients, ClientCrash(c)
  PROVE  IInv'
<1>1. /\ socket[c] # None
      /\ dead' = dead \cup {socket[c]}
      /\ socket' = [socket EXCEPT ![c] = None]
      /\ phase' = [phase EXCEPT ![c] = "off"]
      /\ mine' = [mine EXCEPT ![c] = TRUE]
      /\ retry' = [retry EXCEPT ![c] = FALSE]
      /\ dialogs' = [dialogs EXCEPT ![c] = <<>>]
      /\ up' = [up EXCEPT ![socket[c]] = <<>>]
      /\ down' = [down EXCEPT ![socket[c]] = <<>>]
      /\ UNCHANGED serverVars
      /\ owner' = owner /\ asked' = asked /\ requests' = requests
      /\ failures < MaxFailures /\ failures' = failures + 1
  BY DEF ClientCrash
<1>2. /\ down \in [Connections -> Seq(ToClient)] /\ up \in [Connections -> Seq(ToServer)]
      /\ dialogs \in [Clients -> Seq(Connections)] /\ socket[c] \in Connections
  BY <1>1 DEF IInv, TypeOK
<1>3. /\ down' \in [Connections -> Seq(ToClient)] /\ up' \in [Connections -> Seq(ToServer)]
      /\ dialogs' \in [Clients -> Seq(Connections)]
  BY <1>1, <1>2, EmptySeq, Zenon
<1>4. socket' \in [Clients -> Connections \cup {None}]
      /\ phase' \in [Clients -> {"off", "closed", "connecting", "handshake", "ready"}]
      /\ mine' \in [Clients -> BOOLEAN] /\ retry' \in [Clients -> BOOLEAN]
      /\ dead' \subseteq Connections
  BY <1>1, <1>2 DEF IInv, TypeOK
<1>5. failures' \in 0 .. MaxFailures
  BY <1>1, NetworkAssumption DEF IInv, TypeOK
<1>6. TypeOK'
  BY <1>1, <1>3, <1>4, <1>5 DEF IInv, TypeOK, serverVars
<1>7. \A d \in Clients : d # c => mine'[d] = mine[d]
  BY <1>1 DEF IInv, TypeOK
<1>8. /\ \A d \in Clients : dialogs'[d] \in {dialogs[d], <<>>}
      /\ \A j \in Connections : up'[j] \in {up[j], <<>>}
      /\ \A j \in Connections : down'[j] = down[j] \/ (j = socket[c] /\ down'[j] = <<>>)
      /\ dead \subseteq dead'
  BY <1>1, <1>2
<1> QED
  BY <1>1, <1>6, <1>7, <1>8, ClosedKeeps

LEMMA LinkDiesKeeps ==
  ASSUME IInv, NEW i \in Connections, LinkDies(i)
  PROVE  IInv'
<1>1. /\ dead' = dead \cup {i}
      /\ up' = [up EXCEPT ![i] = <<>>] /\ down' = [down EXCEPT ![i] = <<>>]
      /\ UNCHANGED serverVars
      /\ owner' = owner /\ asked' = asked /\ requests' = requests
      /\ socket' = socket /\ phase' = phase /\ mine' = mine /\ retry' = retry
      /\ dialogs' = dialogs
      /\ failures < MaxFailures /\ failures' = failures + 1
  BY DEF LinkDies, clientVars
<1>2. /\ down \in [Connections -> Seq(ToClient)] /\ up \in [Connections -> Seq(ToServer)]
  BY DEF IInv, TypeOK
<1>3. /\ down' \in [Connections -> Seq(ToClient)] /\ up' \in [Connections -> Seq(ToServer)]
  BY <1>1, <1>2, EmptySeq, Zenon
<1>4. failures' \in 0 .. MaxFailures /\ dead' \subseteq Connections
  BY <1>1, NetworkAssumption DEF IInv, TypeOK
<1>5. TypeOK'
  BY <1>1, <1>3, <1>4 DEF IInv, TypeOK, serverVars
<1>6. ASSUME NEW j \in Connections
      PROVE  /\ up'[j] \in {up[j], <<>>} /\ down'[j] \in {down[j], <<>>}
             /\ j # i => down'[j] = down[j]
  BY <1>1, <1>2
<1>7. \A j \in Connections : Refers(up'[j], "priorityResponse", asked)
  BY <1>6, EmptyRefers DEF IInv, AskedInv
<1>8. \A j \in Connections : Refers(down'[j], "priorityRequest", asked)
  BY <1>6, EmptyRefers DEF IInv, AskedInv
<1>9. \A d \in Clients : \A n \in 1 .. Len(dialogs'[d]) : dialogs'[d][n] \in asked
  BY <1>1 DEF IInv, AskedInv
<1>10. ASSUME NEW j \in Connections, ClientEnd(j)', j \notin dead'
       PROVE  /\ ClientEnd(j) /\ j \notin dead
              /\ down'[j] = down[j] /\ mine'[owner[j]] = mine[owner[j]]
  BY <1>1, <1>6, <1>10 DEF ClientEnd
<1>11. \A d \in Clients : socket'[d] # None => socket'[d] = socket[d]
  BY <1>1
<1> QED
  BY <1>1, <1>5, <1>7, <1>8, <1>9, <1>10, <1>11, ClientKeeps

\* A client sends a message that refers only to connections that have asked.
LEMMA SentUp ==
  ASSUME IInv, NEW i \in Connections, NEW m \in ToServer,
         m.t = "priorityResponse" => m.who \in asked,
         up' = [up EXCEPT ![i] = Append(@, m)] \/ up' = up
  PROVE  /\ up' \in [Connections -> Seq(ToServer)]
         /\ \A j \in Connections : Refers(up'[j], "priorityResponse", asked)
<1> DEFINE more == Append(up[i], m)
<1>1. up \in [Connections -> Seq(ToServer)] /\ up[i] \in Seq(ToServer)
  BY DEF IInv, TypeOK
<1>2. \A j \in Connections : Refers(up[j], "priorityResponse", asked)
  BY DEF IInv, AskedInv
<1>3. /\ more \in Seq(ToServer) /\ Len(more) = Len(up[i]) + 1 /\ Len(up[i]) \in Nat
      /\ \A n \in 1 .. Len(up[i]) : more[n] = up[i][n]
      /\ more[Len(up[i]) + 1] = m
  BY <1>1, AppendOf
<1>4. up' = [up EXCEPT ![i] = more] \/ up' = up
  BY Zenon
<1> HIDE DEF more
<1>5. Refers(more, "priorityResponse", asked)
  BY <1>2, <1>3 DEF Refers
<1>6. up' \in [Connections -> Seq(ToServer)]
  BY <1>1, <1>3, <1>4, Zenon
<1>7. \A j \in Connections : up'[j] = up[j] \/ up'[j] = more
  BY <1>1, <1>4, Zenon
<1> QED
  BY <1>2, <1>5, <1>6, <1>7

\* A client that keeps its connection: what is left to establish.
LEMMA StayKeeps ==
  ASSUME IInv, UNCHANGED <<serverVars, owner, dead, down, socket, mine, asked>>, TypeOK',
         \A j \in Connections : Refers(up'[j], "priorityResponse", asked),
         \A c \in Clients : \A n \in 1 .. Len(dialogs'[c]) : dialogs'[c][n] \in asked
  PROVE  IInv'
<1>1. \A j \in Connections : Refers(down'[j], "priorityRequest", asked)
  BY DEF IInv, AskedInv
<1>2. ASSUME NEW j \in Connections, ClientEnd(j)', j \notin dead'
      PROVE  /\ ClientEnd(j) /\ j \notin dead
             /\ down'[j] = down[j] /\ mine'[owner[j]] = mine[owner[j]]
  BY <1>2 DEF ClientEnd
<1> QED
  BY <1>1, <1>2, ClientKeeps

LEMMA ConnectedKeeps ==
  ASSUME IInv, NEW c \in Clients, Connected(c)
  PROVE  IInv'
<1>1. /\ ServerEnd(socket[c])
      /\ phase' = [phase EXCEPT ![c] = "handshake"]
      /\ up' = [up EXCEPT ![socket[c]] = Append(@, Hello)]
      /\ UNCHANGED serverVars
      /\ owner' = owner /\ dead' = dead /\ down' = down /\ socket' = socket
      /\ mine' = mine /\ retry' = retry /\ dialogs' = dialogs /\ asked' = asked
      /\ failures' = failures /\ requests' = requests
  BY DEF Connected
<1>2. socket[c] \in Connections
  BY <1>1 DEF IInv, TypeOK, ServerEnd, ToSet
<1>3. /\ up' \in [Connections -> Seq(ToServer)]
      /\ \A j \in Connections : Refers(up'[j], "priorityResponse", asked)
  BY <1>1, <1>2, UpMessages, SentUp
<1>4. phase' \in [Clients -> {"off", "closed", "connecting", "handshake", "ready"}]
  BY <1>1 DEF IInv, TypeOK
<1>5. TypeOK'
  BY <1>1, <1>3, <1>4 DEF IInv, TypeOK, serverVars
<1> QED
  BY <1>1, <1>3, <1>5, StayKeeps DEF IInv, AskedInv

LEMMA SendUpKeeps ==
  ASSUME IInv, NEW c \in Clients, NEW m \in ToServer, SendUp(c, m),
         m.t = "priorityResponse" => m.who \in asked
  PROVE  /\ up' \in [Connections -> Seq(ToServer)]
         /\ \A j \in Connections : Refers(up'[j], "priorityResponse", asked)
<1>1. CASE phase[c] = "ready" /\ Live(socket[c])
  <2>1. up' = [up EXCEPT ![socket[c]] = Append(@, m)]
    BY <1>1, Zenon DEF SendUp
  <2>2. socket[c] \in Connections
    BY <1>1 DEF IInv, TypeOK, Live, ServerEnd, ToSet
  <2> QED
    BY <2>1, <2>2, SentUp
<1>2. CASE ~ (phase[c] = "ready" /\ Live(socket[c]))
  <2>1. up' = up
    BY <1>2, Zenon DEF SendUp
  <2> QED
    BY <2>1 DEF IInv, TypeOK, AskedInv
<1> QED
  BY <1>1, <1>2

LEMMA RequestControlKeeps ==
  ASSUME IInv, NEW c \in Clients, RequestControl(c)
  PROVE  IInv'
<1>1. /\ SendUp(c, RequestPriority)
      /\ requests < MaxRequests /\ requests' = requests + 1
      /\ UNCHANGED serverVars
      /\ owner' = owner /\ dead' = dead /\ down' = down /\ socket' = socket
      /\ phase' = phase /\ mine' = mine /\ retry' = retry /\ dialogs' = dialogs
      /\ asked' = asked /\ failures' = failures
  BY DEF RequestControl, clientVars
<1>2. RequestPriority \in ToServer /\ RequestPriority.t # "priorityResponse"
  BY UpMessages
<1>3. /\ up' \in [Connections -> Seq(ToServer)]
      /\ \A j \in Connections : Refers(up'[j], "priorityResponse", asked)
  BY <1>1, <1>2, SendUpKeeps
<1>4. requests' \in 0 .. MaxRequests
  BY <1>1, NetworkAssumption DEF IInv, TypeOK
<1>5. TypeOK'
  BY <1>1, <1>3, <1>4 DEF IInv, TypeOK, serverVars
<1> QED
  BY <1>1, <1>3, <1>5, StayKeeps DEF IInv, AskedInv

LEMMA FrontOf ==
  ASSUME NEW S, NEW s \in Seq(S), s # <<>>
  PROVE  /\ Front(s) \in Seq(S) /\ Len(Front(s)) = Len(s) - 1 /\ Len(s) \in Nat \ {0}
         /\ \A n \in 1 .. Len(s) - 1 : Front(s)[n] = s[n]
         /\ Last(s) = s[Len(s)] /\ Len(s) \in 1 .. Len(s) /\ Last(s) \in S
<1>1. Len(s) \in Nat \ {0}
  OBVIOUS
<1>2. /\ SubSeq(s, 1, Len(s) - 1) \in Seq(S)
      /\ Len(SubSeq(s, 1, Len(s) - 1)) = Len(s) - 1
      /\ \A n \in 1 .. Len(s) - 1 : SubSeq(s, 1, Len(s) - 1)[n] = s[n]
  <2> DEFINE b == Len(s) - 1
             r == SubSeq(s, 1, b)
  <2>1. b \in Nat /\ \A n \in 1 .. b : s[n] \in S
    BY <1>1
  <2> HIDE DEF b
  <2>2. /\ r \in Seq(S)
        /\ Len(r) = IF 1 <= b THEN b - 1 + 1 ELSE 0
        /\ \A n \in 1 .. b - 1 + 1 : r[n] = s[1 + n - 1]
    BY <2>1, SubSeqProperties
  <2> HIDE DEF r
  <2>3. Len(r) = b /\ \A n \in 1 .. b : r[n] = s[n]
    BY <2>1, <2>2
  <2> QED
    BY <2>2, <2>3 DEF r, b
<1> QED
  BY <1>1, <1>2 DEF Front, Last

LEMMA AnswerRequestKeeps ==
  ASSUME IInv, NEW c \in Clients, NEW accepted \in BOOLEAN, NEW block \in BOOLEAN,
         AnswerRequest(c, accepted, block)
  PROVE  IInv'
<1> DEFINE who == Last(dialogs[c])
           rest == Front(dialogs[c])
           m == PriorityResponse(who, accepted, block)
<1>1. /\ dialogs[c] # <<>> /\ dialogs' = [dialogs EXCEPT ![c] = rest]
      /\ SendUp(c, m) /\ UNCHANGED serverVars
      /\ owner' = owner /\ dead' = dead /\ down' = down /\ socket' = socket
      /\ phase' = phase /\ mine' = mine /\ retry' = retry
      /\ asked' = asked /\ failures' = failures /\ requests' = requests
  BY DEF AnswerRequest
<1>2. dialogs \in [Clients -> Seq(Connections)] /\ dialogs[c] \in Seq(Connections)
  BY DEF IInv, TypeOK
<1>3. \A d \in Clients : \A n \in 1 .. Len(dialogs[d]) : dialogs[d][n] \in asked
  BY DEF IInv, AskedInv
<1>4. /\ rest \in Seq(Connections) /\ Len(rest) = Len(dialogs[c]) - 1
      /\ Len(dialogs[c]) \in Nat
      /\ \A n \in 1 .. Len(dialogs[c]) - 1 : rest[n] = dialogs[c][n]
      /\ who = dialogs[c][Len(dialogs[c])] /\ Len(dialogs[c]) \in 1 .. Len(dialogs[c])
      /\ who \in Connections
  BY <1>1, <1>2, FrontOf
<1>5. who \in asked
  BY <1>3, <1>4
<1> HIDE DEF who, rest
<1>6. m \in ToServer /\ m.who = who
  BY <1>4, UpMessages
<1> HIDE DEF m
<1>7. /\ up' \in [Connections -> Seq(ToServer)]
      /\ \A j \in Connections : Refers(up'[j], "priorityResponse", asked)
  BY <1>1, <1>5, <1>6, SendUpKeeps
<1>8. dialogs' \in [Clients -> Seq(Connections)]
  BY <1>1, <1>2, <1>4, Zenon
<1>9. \A d \in Clients : \A n \in 1 .. Len(dialogs'[d]) : dialogs'[d][n] \in asked
  <2> TAKE d \in Clients
  <2>1. dialogs'[d] = IF d = c THEN rest ELSE dialogs[d]
    BY <1>1, <1>2, Zenon
  <2>2. \A n \in 1 .. Len(rest) : rest[n] \in asked
    BY <1>3, <1>4
  <2> QED
    BY <1>3, <2>1, <2>2
<1>10. TypeOK'
  BY <1>1, <1>7, <1>8 DEF IInv, TypeOK, serverVars
<1> QED
  BY <1>1, <1>7, <1>9, <1>10, StayKeeps

LEMMA ClientReceiveKeeps ==
  ASSUME IInv, NEW c \in Clients, ClientReceive(c)
  PROVE  IInv'
<1> DEFINE i == socket[c]
           m == Head(down[i])
           rest == Tail(down[i])
           more == Append(dialogs[c], m.who)
<1>1. /\ i # None /\ down[i] # <<>>
      /\ down' = [down EXCEPT ![i] = rest]
      /\ phase' = IF m = Ok THEN [phase EXCEPT ![c] = "ready"] ELSE phase
      /\ mine' = IF m.t = "role" THEN [mine EXCEPT ![c] = m.can] ELSE mine
      /\ \/ m.t = "priorityRequest" /\ dialogs' = [dialogs EXCEPT ![c] = more]
         \/ dialogs' = dialogs
      /\ retry' = IF m = Ok THEN [retry EXCEPT ![c] = FALSE] ELSE retry
      /\ UNCHANGED serverVars
      /\ owner' = owner /\ dead' = dead /\ up' = up /\ socket' = socket
      /\ asked' = asked /\ failures' = failures /\ requests' = requests
  BY Zenon DEF ClientReceive
<1>2. /\ i \in Connections /\ down \in [Connections -> Seq(ToClient)]
      /\ down[i] \in Seq(ToClient) /\ phase \in [Clients ->
           {"off", "closed", "connecting", "handshake", "ready"}]
      /\ mine \in [Clients -> BOOLEAN] /\ retry \in [Clients -> BOOLEAN]
      /\ dialogs \in [Clients -> Seq(Connections)] /\ dialogs[c] \in Seq(Connections)
  BY <1>1 DEF IInv, TypeOK
<1>3. /\ m \in ToClient /\ m = down[i][1] /\ 1 \in 1 .. Len(down[i])
      /\ rest \in Seq(ToClient)
  BY <1>1, <1>2, HeadOf
<1>4. /\ m.t = "role" => m.can \in BOOLEAN
      /\ m.t = "priorityRequest" => m.who \in Connections
  BY <1>3, DownMessages
<1>5. \A j \in Connections : Refers(down[j], "priorityRequest", asked)
  BY DEF IInv, AskedInv
<1>6. m.t = "priorityRequest" => m.who \in asked
  BY <1>2, <1>3, <1>5 DEF Refers
<1>7. Refers(rest, "priorityRequest", asked)
  BY <1>1, <1>2, <1>5, RefersTaken
<1> HIDE DEF m, rest
<1>8. ASSUME m.t = "priorityRequest"
      PROVE  /\ more \in Seq(Connections) /\ \A n \in 1 .. Len(more) : more[n] \in asked
  <2> DEFINE who == m.who
             s == dialogs[c]
  <2>1. s \in Seq(Connections) /\ who \in Connections /\ who \in asked
        /\ \A n \in 1 .. Len(s) : s[n] \in asked
    BY <1>2, <1>4, <1>6, <1>8 DEF IInv, AskedInv
  <2> HIDE DEF who, s
  <2>2. /\ Append(s, who) \in Seq(Connections)
        /\ \A n \in 1 .. Len(Append(s, who)) : Append(s, who)[n] \in asked
    <3>1. /\ Append(s, who) \in Seq(Connections)
          /\ Len(Append(s, who)) = Len(s) + 1 /\ Len(s) \in Nat
          /\ \A n \in 1 .. Len(s) : Append(s, who)[n] = s[n]
          /\ Append(s, who)[Len(s) + 1] = who
      BY <2>1, AppendOf
    <3> QED
      BY <2>1, <3>1
  <2> QED
    BY <2>2 DEF who, s
<1> HIDE DEF more
<1>9. down' \in [Connections -> Seq(ToClient)]
  BY <1>1, <1>2, <1>3, Zenon
<1>10. dialogs' \in [Clients -> Seq(Connections)]
  BY <1>1, <1>2, <1>8, Zenon
<1>11. /\ phase' \in [Clients -> {"off", "closed", "connecting", "handshake", "ready"}]
       /\ mine' \in [Clients -> BOOLEAN] /\ retry' \in [Clients -> BOOLEAN]
  <2>1. phase' \in [Clients -> {"off", "closed", "connecting", "handshake", "ready"}]
    BY <1>1, <1>2
  <2>2. mine' \in [Clients -> BOOLEAN]
    BY <1>1, <1>2, <1>4, Zenon
  <2>3. retry' \in [Clients -> BOOLEAN]
    BY <1>1, <1>2
  <2> QED
    BY <2>1, <2>2, <2>3
<1>12. TypeOK'
  BY <1>1, <1>9, <1>10, <1>11 DEF IInv, TypeOK, serverVars
<1>13. \A j \in Connections : down'[j] = IF j = i THEN rest ELSE down[j]
  BY <1>1, <1>2, Zenon
<1>14. \A j \in Connections : Refers(down'[j], "priorityRequest", asked)
  BY <1>5, <1>7, <1>13
<1>15. \A d \in Clients : \A n \in 1 .. Len(dialogs'[d]) : dialogs'[d][n] \in asked
  <2> TAKE d \in Clients
  <2>1. CASE dialogs' = dialogs
    BY <2>1 DEF IInv, AskedInv
  <2>2. CASE m.t = "priorityRequest" /\ dialogs' = [dialogs EXCEPT ![c] = more]
    <3>1. dialogs'[d] = IF d = c THEN more ELSE dialogs[d]
      BY <1>2, <2>2, Zenon
    <3> QED
      BY <1>8, <2>2, <3>1 DEF IInv, AskedInv
  <2> QED
    BY <1>1, <2>1, <2>2
<1>16. ASSUME NEW j \in Connections, ClientEnd(j)', j \notin dead'
       PROVE  /\ ClientEnd(j) /\ j \notin dead
              /\ \/ down'[j] = down[j] /\ mine'[owner[j]] = mine[owner[j]]
                 \/ /\ down[j] # <<>> /\ down'[j] = Tail(down[j])
                    /\ IF Head(down[j]).t = "role"
                       THEN mine'[owner[j]] = Head(down[j]).can
                       ELSE mine'[owner[j]] = mine[owner[j]]
  <2>1. ClientEnd(j) /\ j \notin dead
    BY <1>1, <1>16 DEF ClientEnd
  <2>2. /\ owner[j] \in Clients /\ socket[owner[j]] = j
        /\ owner[j] = c <=> j = i
    BY <2>1, OwnEnd
  <2>3. mine'[owner[j]] = IF m.t = "role" /\ owner[j] = c THEN m.can ELSE mine[owner[j]]
    BY <1>1, <1>2, <2>2, Zenon
  <2>4. CASE j # i
    BY <1>13, <2>1, <2>2, <2>3, <2>4
  <2>5. CASE j = i
    <3>1. down'[j] = rest /\ owner[j] = c /\ down[j] # <<>>
      BY <1>1, <1>13, <2>2, <2>5
    <3>2. IF m.t = "role" THEN mine'[owner[j]] = m.can ELSE mine'[owner[j]] = mine[owner[j]]
      BY <2>3, <3>1, Zenon
    <3>3. rest = Tail(down[j]) /\ m = Head(down[j])
      BY <2>5 DEF rest, m
    <3> QED
      BY <2>1, <3>1, <3>2, <3>3, Zenon
  <2> QED
    BY <2>4, <2>5
<1>17. \A j \in Connections : Refers(up'[j], "priorityResponse", asked)
  BY <1>1 DEF IInv, AskedInv
<1>18. \A d \in Clients : socket'[d] # None => socket'[d] = socket[d]
  BY <1>1
<1> HIDE DEF i
<1> QED
  BY <1>1, <1>12, <1>14, <1>15, <1>16, <1>17, <1>18, ClientKeeps

\* A new connection is one that nothing mentions and no end is left of.
LEMMA FreshOne ==
  ASSUME IInv, NEW i \in Connections, Fresh(i)
  PROVE  /\ ~ ServerEnd(i) /\ ~ ClientEnd(i)
         /\ \A j \in Connections : Refers(up[j], "priorityResponse", asked \ {i})
         /\ \A j \in Connections : Refers(down[j], "priorityRequest", asked \ {i})
         /\ \A c \in Clients : \A n \in 1 .. Len(dialogs[c]) : dialogs[c][n] \in asked \ {i}
<1>1. i \notin InUse /\ i \notin Mentioned
  BY Zenon DEF Fresh
<1>2. ~ ServerEnd(i) /\ ~ ClientEnd(i)
  BY <1>1, Zenon DEF InUse
<1>3. ASSUME NEW j \in Connections, NEW n \in 1 .. Len(up[j]), up[j][n].t = "priorityResponse"
      PROVE  up[j][n].who # i
  <2>1. up[j] \in Seq(ToServer)
    BY DEF IInv, TypeOK
  <2>2. n \in DOMAIN up[j]
    BY <2>1
  <2>3. up[j][n] \in ToSet(up[j])
    BY <2>2, Zenon DEF ToSet
  <2>4. up[j][n] \in {x \in UNION {ToSet(up[h]) : h \in Connections} : x.t = "priorityResponse"}
    BY <1>3, <2>3, Zenon
  <2>5. up[j][n].who \in Mentioned
    BY <2>4, Zenon DEF Mentioned
  <2> QED
    BY <1>1, <2>5
<1>4. ASSUME NEW j \in Connections, NEW n \in 1 .. Len(down[j]),
             down[j][n].t = "priorityRequest"
      PROVE  down[j][n].who # i
  <2>1. down[j] \in Seq(ToClient)
    BY DEF IInv, TypeOK
  <2>2. n \in DOMAIN down[j]
    BY <2>1
  <2>3. down[j][n] \in ToSet(down[j])
    BY <2>2, Zenon DEF ToSet
  <2>4. down[j][n] \in
          {x \in UNION {ToSet(down[h]) : h \in Connections} : x.t = "priorityRequest"}
    BY <1>4, <2>3, Zenon
  <2>5. down[j][n].who \in Mentioned
    BY <2>4, Zenon DEF Mentioned
  <2> QED
    BY <1>1, <2>5
<1>5. ASSUME NEW c \in Clients, NEW n \in 1 .. Len(dialogs[c])
      PROVE  dialogs[c][n] # i
  <2>1. dialogs[c] \in Seq(Connections)
    BY DEF IInv, TypeOK
  <2>2. n \in DOMAIN dialogs[c]
    BY <2>1
  <2>3. dialogs[c][n] \in ToSet(dialogs[c])
    BY <2>2, Zenon DEF ToSet
  <2>4. dialogs[c][n] \in Mentioned
    BY <2>3, Zenon DEF Mentioned
  <2> QED
    BY <1>1, <2>4
<1> QED
  BY <1>2, <1>3, <1>4, <1>5 DEF IInv, AskedInv, Refers

LEMMA TestClientConnectionKeeps ==
  ASSUME IInv, NEW c \in Clients, NEW i \in Connections, TestClientConnection(c, i),
         retry' \in [Clients -> BOOLEAN], requests' \in 0 .. MaxRequests
  PROVE  IInv'
<1>1. /\ Fresh(i)
      /\ socket' = [socket EXCEPT ![c] = i]
      /\ phase' = [phase EXCEPT ![c] = "connecting"]
      /\ mine' = [mine EXCEPT ![c] = TRUE]
      /\ owner' = [owner EXCEPT ![i] = c]
      /\ pending' \in {pending, pending \cup {i}}
      /\ dead' = dead \ {i}
      /\ up' = [up EXCEPT ![i] = <<>>]
      /\ down' = [j \in Connections |-> IF j \in {i, socket[c]} THEN <<>> ELSE down[j]]
      /\ asked' = asked \ {i}
      /\ serving' = serving /\ peers' = peers /\ ready' = ready
      /\ controller' = controller /\ heartbeat' = heartbeat /\ blocked' = blocked
      /\ dialogs' = dialogs /\ failures' = failures
  BY DEF TestClientConnection
<1>2. /\ up \in [Connections -> Seq(ToServer)] /\ down \in [Connections -> Seq(ToClient)]
      /\ owner \in [Connections -> Clients \cup {None}]
      /\ socket \in [Clients -> Connections \cup {None}]
      /\ mine \in [Clients -> BOOLEAN]
      /\ phase \in [Clients -> {"off", "closed", "connecting", "handshake", "ready"}]
  BY DEF IInv, TypeOK
<1>3. /\ ~ ServerEnd(i) /\ ~ ClientEnd(i)
      /\ \A j \in Connections : Refers(up[j], "priorityResponse", asked \ {i})
      /\ \A j \in Connections : Refers(down[j], "priorityRequest", asked \ {i})
      /\ \A d \in Clients : \A n \in 1 .. Len(dialogs[d]) : dialogs[d][n] \in asked \ {i}
  BY <1>1, FreshOne
<1>4. /\ \A j \in Connections : owner'[j] = IF j = i THEN c ELSE owner[j]
      /\ \A d \in Clients : socket'[d] = IF d = c THEN i ELSE socket[d]
      /\ \A d \in Clients : d # c => mine'[d] = mine[d]
      /\ \A j \in Connections : up'[j] = IF j = i THEN <<>> ELSE up[j]
      /\ \A j \in Connections : down'[j] = IF j \in {i, socket[c]} THEN <<>> ELSE down[j]
  BY <1>1, <1>2
<1>5. /\ up' \in [Connections -> Seq(ToServer)]
      /\ down' \in [Connections -> Seq(ToClient)]
  <2>1. up' \in [Connections -> Seq(ToServer)]
    BY <1>1, <1>2, EmptySeq, Zenon
  <2>2. ASSUME NEW j \in Connections PROVE down'[j] \in Seq(ToClient)
    <3>1. down'[j] = <<>> \/ down'[j] = down[j]
      BY <1>4, Zenon
    <3>2. down[j] \in Seq(ToClient) /\ <<>> \in Seq(ToClient)
      BY <1>2, EmptySeq
    <3> QED
      BY <3>1, <3>2, Zenon
  <2>3. down' = [j \in Connections |-> down'[j]]
    BY <1>1, Zenon
  <2> QED
    BY <2>1, <2>2, <2>3, Zenon
<1>6. /\ owner' \in [Connections -> Clients \cup {None}]
      /\ socket' \in [Clients -> Connections \cup {None}]
      /\ mine' \in [Clients -> BOOLEAN]
      /\ phase' \in [Clients -> {"off", "closed", "connecting", "handshake", "ready"}]
  BY <1>1, <1>2
<1>7. /\ pending' \subseteq Connections /\ dead' \subseteq Connections
      /\ asked' \subseteq Connections
  BY <1>1 DEF IInv, TypeOK
<1>8. TypeOK'
  BY <1>1, <1>5, <1>6, <1>7 DEF IInv, TypeOK
<1>9. SomeoneControls'
  BY <1>1 DEF IInv, SomeoneControls
<1>10. None \notin Clients /\ None \notin Connections
  BY NetworkAssumption DEF None, Connections
<1>11. OwnerInv'
  <2>1. ASSUME NEW d \in Clients, socket'[d] # None PROVE owner'[socket'[d]] = d
    <3>1. CASE d = c
      BY <1>4, <3>1
    <3>2. CASE d # c
      <4>1. socket'[d] = socket[d] /\ socket[d] \in Connections /\ owner[socket[d]] = d
        BY <1>2, <1>4, <2>1, <3>2 DEF IInv, OwnerInv
      <4>2. socket[d] # i
        BY <1>3, <1>10, <4>1 DEF ClientEnd
      <4> QED
        BY <1>4, <4>1, <4>2
    <3> QED
      BY <3>1, <3>2
  <2>2. ASSUME NEW j \in Connections, ServerEnd(j)' PROVE owner'[j] # None
    <3>1. j # i => ServerEnd(j)
      BY <1>1, <2>2 DEF ServerEnd
    <3> QED
      BY <1>4, <1>10, <3>1 DEF IInv, OwnerInv
  <2> QED
    BY <2>1, <2>2 DEF OwnerInv
<1>12. AskedInv'
  <2>1. ASSUME NEW j \in Connections PROVE Refers(up'[j], "priorityResponse", asked')
    <3>1. up'[j] = <<>> \/ up'[j] = up[j]
      BY <1>4, Zenon
    <3>2. Refers(up[j], "priorityResponse", asked \ {i}) /\ asked' = asked \ {i}
      BY <1>1, <1>3
    <3>3. Refers(<<>>, "priorityResponse", asked')
      BY EmptyRefers
    <3> QED
      BY <3>1, <3>2, <3>3
  <2>2. ASSUME NEW j \in Connections PROVE Refers(down'[j], "priorityRequest", asked')
    <3>1. down'[j] = <<>> \/ down'[j] = down[j]
      BY <1>4, Zenon
    <3> QED
      BY <1>1, <1>3, <3>1, EmptyRefers, Zenon
  <2>3. \A d \in Clients : \A n \in 1 .. Len(dialogs'[d]) : dialogs'[d][n] \in asked'
    BY <1>1, <1>3
  <2> QED
    BY <2>1, <2>2, <2>3 DEF AskedInv, Refers
<1>13. ASSUME NEW j \in Connections PROVE Agreed(j)'
  <2> SUFFICES ASSUME j \in ready', Live(j)'
               PROVE  Says(down'[j], mine'[owner'[j]], j, controller')
    BY DEF Agreed, Says
  <2>1. j \in ready /\ ServerEnd(j) /\ j # i
    BY <1>1, <1>3 DEF IInv, SomeoneControls, ServerEnd
  <2>2. owner'[j] = owner[j] /\ owner[j] # None /\ socket'[owner[j]] = j /\ j \notin dead
    BY <1>1, <1>4, <2>1 DEF Live, ClientEnd
  <2>3. owner[j] \in Clients
    BY <1>2, <2>2
  <2>4. owner[j] # c /\ socket[owner[j]] = j
    BY <1>4, <2>1, <2>2, <2>3
  <2>5. ClientEnd(j) /\ Live(j)
    BY <2>1, <2>2, <2>4 DEF ClientEnd, Live
  <2>6. j # socket[c]
    BY <2>4, <2>5, OwnEnd
  <2>7. down'[j] = down[j] /\ mine'[owner'[j]] = mine[owner[j]]
    BY <1>4, <2>1, <2>2, <2>3, <2>4, <2>6
  <2>8. Says(down[j], mine[owner[j]], j, controller)
    BY <2>1, <2>5 DEF IInv, Agreed
  <2> QED
    BY <1>1, <2>7, <2>8
<1> QED
  BY <1>8, <1>9, <1>11, <1>12, <1>13 DEF IInv

LEMMA ConnectKeeps ==
  ASSUME IInv, NEW c \in Clients, Connect(c)
  PROVE  IInv'
<1>1. PICK i \in Connections : TestClientConnection(c, i)
  BY DEF Connect
<1>2. retry' \in [Clients -> BOOLEAN] /\ requests' \in 0 .. MaxRequests
  BY NetworkAssumption DEF Connect, IInv, TypeOK
<1> QED
  BY <1>1, <1>2, TestClientConnectionKeeps

LEMMA ReconnectKeeps ==
  ASSUME IInv, NEW c \in Clients, Reconnect(c)
  PROVE  IInv'
<1>1. retry' = [retry EXCEPT ![c] = FALSE] /\ requests' = requests
  BY DEF Reconnect
<1>2. retry' \in [Clients -> BOOLEAN] /\ requests' \in 0 .. MaxRequests
  BY <1>1 DEF IInv, TypeOK
<1>3. CASE phase[c] \in {"off", "ready"}
  <2>1. UNCHANGED <<serverVars, wires, socket, phase, mine, dialogs, asked, failures>>
    BY <1>3 DEF Reconnect
  <2>2. TypeOK'
    BY <1>1, <1>2, <2>1 DEF IInv, TypeOK, serverVars, wires
  <2>3. \A j \in Connections : Refers(up'[j], "priorityResponse", asked)
    BY <2>1 DEF IInv, AskedInv, wires
  <2>4. \A d \in Clients : \A n \in 1 .. Len(dialogs'[d]) : dialogs'[d][n] \in asked
    BY <2>1 DEF IInv, AskedInv
  <2> QED
    BY <2>1, <2>2, <2>3, <2>4, StayKeeps DEF wires
<1>4. CASE phase[c] \notin {"off", "ready"}
  <2>1. PICK i \in Connections : TestClientConnection(c, i)
    BY <1>4 DEF Reconnect
  <2> QED
    BY <1>2, <2>1, TestClientConnectionKeeps
<1> QED
  BY <1>3, <1>4

-----------------------------------------------------------------------------
(* The theorems *)

LEMMA InitHolds ==
  ASSUME Init
  PROVE  IInv
<1>1. /\ serving = TRUE /\ pending = {} /\ peers = <<>> /\ ready = {}
      /\ controller = None /\ heartbeat = FALSE /\ blocked = {}
      /\ owner = [i \in Connections |-> None] /\ dead = {}
      /\ up = Nothing /\ down = Nothing
      /\ socket = [c \in Clients |-> None] /\ phase = [c \in Clients |-> "off"]
      /\ mine = [c \in Clients |-> TRUE] /\ retry = [c \in Clients |-> FALSE]
      /\ dialogs = [c \in Clients |-> <<>>]
      /\ asked = {} /\ failures = 0 /\ requests = 0
  BY DEF Init
<1>2. /\ up \in [Connections -> Seq(ToServer)] /\ down \in [Connections -> Seq(ToClient)]
      /\ dialogs \in [Clients -> Seq(Connections)]
  BY <1>1, EmptySeq, Zenon DEF Nothing
<1>3. /\ \A i \in Connections : up[i] = <<>> /\ down[i] = <<>>
      /\ \A c \in Clients : dialogs[c] = <<>>
  BY <1>1, Zenon DEF Nothing
<1>4. failures \in 0 .. MaxFailures /\ requests \in 0 .. MaxRequests
  BY <1>1, NetworkAssumption
<1>5. peers \in Seq(Connections) /\ ToSet(peers) = {}
  BY <1>1 DEF ToSet
<1>6. TypeOK
  BY <1>1, <1>2, <1>4, <1>5 DEF TypeOK
<1>7. SomeoneControls
  BY <1>1 DEF SomeoneControls
<1>8. OwnerInv
  BY <1>1, <1>5 DEF OwnerInv, ServerEnd
<1>9. AskedInv
  BY <1>3 DEF AskedInv, Refers
<1>10. \A i \in Connections : Agreed(i)
  BY <1>1 DEF Agreed
<1> QED
  BY <1>6, <1>7, <1>8, <1>9, <1>10 DEF IInv

LEMMA StutterKeeps ==
  ASSUME IInv, UNCHANGED vars
  PROVE  IInv'
<1>1. UNCHANGED <<serverVars, owner, dead, down, socket, mine, asked>>
  BY DEF vars, clientVars, wires
<1>2. TypeOK'
  BY DEF IInv, TypeOK, vars, serverVars, clientVars, wires
<1>3. \A j \in Connections : Refers(up'[j], "priorityResponse", asked)
  BY DEF IInv, AskedInv, vars, wires
<1>4. \A d \in Clients : \A n \in 1 .. Len(dialogs'[d]) : dialogs'[d][n] \in asked
  BY DEF IInv, AskedInv, vars, clientVars
<1> QED
  BY <1>1, <1>2, <1>3, <1>4, StayKeeps

\* Every step keeps the invariant, and control moves only as it may.
LEMMA NextKeeps ==
  ASSUME IInv, Next
  PROVE  /\ IInv'
         /\ (controller # controller' /\ controller # None /\ controller \in ready')
              => controller' \in asked'
<1>1. \/ \E i \in Connections :
           \/ Accept(i) \/ PeerGone(i) \/ HeartbeatTimeout(i) \/ ServerReceive(i)
           \/ LinkDies(i)
      \/ StopServer
      \/ StartServer
      \/ \E c \in Clients :
           \/ Connect(c) \/ Reconnect(c) \/ Disconnect(c) \/ Connected(c) \/ ServerGone(c)
           \/ HandshakeTimeout(c) \/ ServerSilent(c) \/ ClientReceive(c)
           \/ RequestControl(c) \/ ClientCrash(c)
           \/ \E accepted \in BOOLEAN, block \in BOOLEAN : AnswerRequest(c, accepted, block)
  BY Zenon DEF Next
<1>2. ASSUME NEW i \in Connections, Accept(i)
      PROVE  IInv' /\ controller' = controller
  BY <1>2, AcceptKeeps DEF Accept
<1>3. ASSUME NEW i \in Connections, PeerGone(i)
      PROVE  IInv' /\ (controller \in ready' => controller' = controller)
  BY <1>3, PeerGoneKeeps
<1>4. ASSUME NEW i \in Connections, HeartbeatTimeout(i)
      PROVE  IInv' /\ (controller \in ready' => controller' = controller)
  BY <1>4, HeartbeatTimeoutKeeps
<1>5. ASSUME NEW i \in Connections, ServerReceive(i)
      PROVE  /\ IInv'
             /\ \/ controller # None => controller' = controller
                \/ controller' # controller => controller' \in asked'
  <2>1. ReceiveHello(i) \/ ReceiveRequestPriority(i) \/ ReceivePriorityResponse(i)
    BY <1>5 DEF ServerReceive
  <2>2. CASE ReceiveHello(i)
    BY <1>5, <2>2, ReceiveHelloKeeps
  <2>3. CASE ReceiveRequestPriority(i)
    BY <1>5, <2>3, ReceiveRequestPriorityKeeps
  <2>4. CASE ReceivePriorityResponse(i)
    BY <1>5, <2>4, ReceivePriorityResponseKeeps
  <2> QED
    BY <2>1, <2>2, <2>3, <2>4
<1>6. ASSUME NEW i \in Connections, LinkDies(i)
      PROVE  IInv' /\ controller' = controller
  BY <1>6, LinkDiesKeeps DEF LinkDies, serverVars
<1>7. ASSUME StopServer PROVE IInv' /\ ready' = {}
  BY <1>7, StopServerKeeps DEF StopServer
<1>8. ASSUME StartServer PROVE IInv' /\ controller' = controller
  BY <1>8, StartServerKeeps DEF StartServer
<1>9. ASSUME NEW c \in Clients, Connect(c)
      PROVE  IInv' /\ controller' = controller
  BY <1>9, ConnectKeeps DEF Connect, TestClientConnection
<1>10. ASSUME NEW c \in Clients, Reconnect(c)
       PROVE  IInv' /\ controller' = controller
  BY <1>10, ReconnectKeeps DEF Reconnect, TestClientConnection, serverVars
<1>11. ASSUME NEW c \in Clients, Disconnect(c)
       PROVE  IInv' /\ controller' = controller
  BY <1>11, DisconnectKeeps DEF Disconnect, serverVars
<1>12. ASSUME NEW c \in Clients, Connected(c)
       PROVE  IInv' /\ controller' = controller
  BY <1>12, ConnectedKeeps DEF Connected, serverVars
<1>13. ASSUME NEW c \in Clients, ServerGone(c)
       PROVE  IInv' /\ controller' = controller
  BY <1>13, ServerGoneKeeps DEF ServerGone, LoseChannel, serverVars
<1>14. ASSUME NEW c \in Clients, HandshakeTimeout(c)
       PROVE  IInv' /\ controller' = controller
  BY <1>14, HandshakeTimeoutKeeps DEF HandshakeTimeout, LoseChannel, serverVars
<1>15. ASSUME NEW c \in Clients, ServerSilent(c)
       PROVE  IInv' /\ controller' = controller
  BY <1>15, ServerSilentKeeps DEF ServerSilent, LoseChannel, serverVars
<1>16. ASSUME NEW c \in Clients, ClientReceive(c)
       PROVE  IInv' /\ controller' = controller
  <2>1. controller' = controller
    BY <1>16, Zenon DEF ClientReceive, serverVars
  <2> QED
    BY <1>16, <2>1, ClientReceiveKeeps
<1>17. ASSUME NEW c \in Clients, RequestControl(c)
       PROVE  IInv' /\ controller' = controller
  BY <1>17, RequestControlKeeps DEF RequestControl, serverVars
<1>18. ASSUME NEW c \in Clients, ClientCrash(c)
       PROVE  IInv' /\ controller' = controller
  BY <1>18, ClientCrashKeeps DEF ClientCrash, serverVars
<1>19. ASSUME NEW c \in Clients, NEW accepted \in BOOLEAN, NEW block \in BOOLEAN,
              AnswerRequest(c, accepted, block)
       PROVE  IInv' /\ controller' = controller
  BY <1>19, AnswerRequestKeeps DEF AnswerRequest, serverVars
<1>20. controller \in ready => controller # None
  BY DEF IInv, TypeOK, None, Connections
<1>21. CASE \E i \in Connections :
              \/ Accept(i) \/ PeerGone(i) \/ HeartbeatTimeout(i) \/ ServerReceive(i)
              \/ LinkDies(i)
  BY <1>2, <1>3, <1>4, <1>5, <1>6, <1>21
<1>22. CASE StopServer
  BY <1>7, <1>22
<1>23. CASE StartServer
  BY <1>8, <1>23
<1>24. CASE \E c \in Clients :
              \/ Connect(c) \/ Reconnect(c) \/ Disconnect(c) \/ Connected(c) \/ ServerGone(c)
              \/ HandshakeTimeout(c) \/ ServerSilent(c) \/ ClientReceive(c)
              \/ RequestControl(c) \/ ClientCrash(c)
              \/ \E accepted \in BOOLEAN, block \in BOOLEAN : AnswerRequest(c, accepted, block)
  BY <1>9, <1>10, <1>11, <1>12, <1>13, <1>14, <1>15, <1>16, <1>17, <1>18, <1>19, <1>24
<1> QED
  BY <1>1, <1>21, <1>22, <1>23, <1>24

LEMMA Invariance == Spec => []IInv
<1>1. Init => IInv
  BY InitHolds
<1>2. IInv /\ [Next]_vars => IInv'
  BY NextKeeps, StutterKeeps
<1> QED
  BY <1>1, <1>2, PTL DEF Spec

\* The variables of the control channel keep their types: peers, messages on
\* their way and dialogs refer only to connections there are.
THEOREM TypeCorrect == Spec => []TypeOK
<1>1. IInv => TypeOK
  BY DEF IInv
<1> QED
  BY <1>1, Invariance, PTL

\* Whatever peers are lost and in which order: while one is ready, a ready one
\* controls the receiver and the heartbeat runs (promoteControllerIfNeeded()).
THEOREM SomeoneControlsCorrect == Spec => []SomeoneControls
<1>1. IInv => SomeoneControls
  BY DEF IInv
<1> QED
  BY <1>1, Invariance, PTL

\* Once a client has read what was sent to it, it believes in the role the
\* server gives it: the news of broadcastRoleUpdates() never end wrong.
THEOREM RoleAgreementCorrect == Spec => []RoleAgreement
<1>1. ASSUME IInv PROVE RoleAgreement
  <2> SUFFICES ASSUME NEW i \in ready, Live(i)
               PROVE  Belief(i) <=> i = controller
    BY DEF RoleAgreement
  <2>1. i \in Connections
    BY <1>1 DEF IInv, TypeOK
  <2> DEFINE s == down[i]
             d == mine[owner[i]]
             roles == {n \in DOMAIN s : s[n].t = "role"}
             last == CHOOSE n \in roles : \A m \in roles : m <= n
  <2>2. s \in Seq(ToClient) /\ DOMAIN s = 1 .. Len(s) /\ Len(s) \in Nat
    BY <1>1, <2>1 DEF IInv, TypeOK
  <2>3. Says(s, d, i, controller)
    BY <1>1, <2>1 DEF IInv, Agreed
  <2>4. owner[i] \in Clients /\ d \in BOOLEAN
    BY <1>1, <2>1 DEF IInv, TypeOK, Live, ClientEnd
  <2>5. Belief(i) = IF roles = {} THEN d ELSE s[last].can
    BY Zenon DEF Belief
  <2> HIDE DEF s, d
  <2>6. CASE roles = {}
    <3>1. \A n \in 1 .. Len(s) : s[n].t # "role"
      BY <2>2, <2>6
    <3>2. d = TRUE <=> i = controller
      BY <2>3, <3>1 DEF Says
    <3> QED
      BY <2>4, <2>5, <2>6, <3>2, Zenon
  <2>7. CASE roles # {}
    <3>1. roles \subseteq 1 .. Len(s)
      BY <2>2
    <3>2. last \in roles /\ \A m \in roles : m <= last
      <4> HIDE DEF roles
      <4>1. \E n \in roles : \A m \in roles : m <= n
        BY <2>2, <2>7, <3>1, GreatestOf
      <4> QED
        BY <4>1
    <3> HIDE DEF last
    <3>3. last \in 1 .. Len(s) /\ s[last].t = "role"
      BY <3>1, <3>2
    <3>4. \A m \in last + 1 .. Len(s) : s[m].t # "role"
      <4> TAKE m \in last + 1 .. Len(s)
      <4>1. m \in 1 .. Len(s) /\ ~ (m <= last)
        BY <2>2, <3>3
      <4> QED
        BY <2>2, <3>2, <4>1
    <3>5. s[last].can = TRUE <=> i = controller
      BY <2>3, <3>3, <3>4 DEF Says
    <3>6. s[last].can \in BOOLEAN
      <4>1. s[last] \in ToClient
        BY <2>2, <3>3, ElementOf
      <4> QED
        BY <3>3, <4>1, DownMessages
    <3> QED
      BY <2>5, <2>7, <3>5, <3>6, Zenon
  <2> QED
    BY <2>6, <2>7
<1> QED
  BY <1>1, Invariance, PTL

\* A controller the server still talks to loses its role only to a peer that
\* asked for it in this very connection.
ControlOnlyForAskers ==
  [][(controller # controller' /\ controller # None /\ controller \in ready')
     => controller' \in asked']_vars

\* Control leaves a peer that stays only for one that asked for it in this
\* connection: answers to requests of lost connections move nothing
\* (processLine(), setControllerPeer()).
THEOREM ControlOnlyForAskersCorrect == Spec => ControlOnlyForAskers
<1>1. IInv /\ [Next]_vars =>
        [(controller # controller' /\ controller # None /\ controller \in ready')
           => controller' \in asked']_vars
  <2> SUFFICES ASSUME IInv, [Next]_vars,
                      controller # controller', controller # None, controller \in ready'
               PROVE  controller' \in asked'
    OBVIOUS
  <2>1. Next
    BY DEF vars, serverVars
  <2> QED
    BY <2>1, NextKeeps
<1> QED
  BY <1>1, Invariance, PTL DEF Spec, ControlOnlyForAskers

-----------------------------------------------------------------------------
(* A connection is accepted once *)

\* A connection waits to be accepted or has been, and has its place in the
\* order of acceptance once.
Once ==
  /\ \A i \in pending : i \notin ToSet(peers)
  /\ \A m, n \in 1 .. Len(peers) : peers[m] = peers[n] => m = n

\* A sequence without repetitions has none without its n-th element, which is
\* then gone, and keeps its order.
LEMMA RemovedOnce ==
  ASSUME NEW S, NEW s \in Seq(S), NEW n \in 1 .. Len(s),
         \A k, m \in 1 .. Len(s) : s[k] = s[m] => k = m
  PROVE  /\ \A k, m \in 1 .. Len(RemoveAt(s, n)) :
              RemoveAt(s, n)[k] = RemoveAt(s, n)[m] => k = m
         /\ s[n] \notin ToSet(RemoveAt(s, n))
<1> DEFINE rest == RemoveAt(s, n)
<1>1. /\ rest \in Seq(S) /\ Len(rest) = Len(s) - 1 /\ Len(s) \in Nat
      /\ \A m \in 1 .. n - 1 : rest[m] = s[m]
      /\ \A m \in 1 .. Len(s) - n : rest[(n - 1) + m] = s[n + m]
  BY RemovedAt
<1>2. RemoveAt(s, n) = rest
  OBVIOUS
<1> HIDE DEF rest
<1> DEFINE from(m) == IF m < n THEN m ELSE m + 1
<1>3. ASSUME NEW m \in 1 .. Len(s) - 1
      PROVE  from(m) \in 1 .. Len(s) /\ from(m) # n /\ rest[m] = s[from(m)]
  <2>1. CASE m < n
    BY <1>1, <2>1
  <2>2. CASE ~ (m < n)
    <3>1. (m + 1) - n \in 1 .. Len(s) - n /\ n + ((m + 1) - n) = m + 1
          /\ (n - 1) + ((m + 1) - n) = m
      BY <1>1, <2>2
    <3>2. rest[m] = s[m + 1]
      BY <1>1, <3>1
    <3> QED
      BY <1>1, <2>2, <3>2
  <2> QED
    BY <2>1, <2>2
<1>4. ASSUME NEW k \in 1 .. Len(s) - 1, NEW m \in 1 .. Len(s) - 1, from(k) = from(m)
      PROVE  k = m
  BY <1>1, <1>4
<1> HIDE DEF from
<1>5. ASSUME NEW k \in 1 .. Len(s) - 1, NEW m \in 1 .. Len(s) - 1, rest[k] = rest[m]
      PROVE  k = m
  BY <1>3, <1>4, <1>5
<1>6. s[n] \notin ToSet(rest)
  <2> SUFFICES ASSUME NEW m \in 1 .. Len(s) - 1, rest[m] = s[n] PROVE FALSE
    BY <1>1 DEF ToSet
  <2> QED
    BY <1>3
<1> QED
  BY <1>1, <1>2, <1>5, <1>6

\* The first of the candidates gets the control.
LEMMA PromotedFirst ==
  ASSUME NEW ps \in Seq(Connections), NEW rs, rs \subseteq ToSet(ps), NEW k, k \notin rs
  PROVE  Control!Succeeds(Promoted(ps, rs, k), ps, rs)
<1> DEFINE candidates == {n \in DOMAIN ps : ps[n] \in rs}
           first == CHOOSE n \in candidates : \A m \in candidates : n <= m
<1>1. Promoted(ps, rs, k) = IF candidates = {} THEN None ELSE ps[first]
  BY Zenon DEF Promoted
<1>2. DOMAIN ps = 1 .. Len(ps) /\ Len(ps) \in Nat /\ ToSet(ps) = {ps[n] : n \in 1 .. Len(ps)}
  BY DEF ToSet
<1>3. candidates \in SUBSET Nat /\ (candidates = {} <=> rs = {})
  BY <1>2
<1>4. \A n \in DOMAIN ps : ps[n] \in rs => n \in candidates
  OBVIOUS
<1>5. \A n \in candidates : n \in DOMAIN ps /\ ps[n] \in rs
  OBVIOUS
<1> HIDE DEF candidates
<1>6. ASSUME candidates # {}
      PROVE  first \in candidates /\ \A m \in candidates : first <= m
  <2>1. \E n \in candidates : \A m \in candidates : n <= m
    BY <1>3, <1>6, LeastOf
  <2> QED
    BY <2>1
<1> HIDE DEF first
<1>7. CASE rs = {}
  BY <1>1, <1>3, <1>7 DEF Control!Succeeds
<1>8. CASE rs # {}
  <2>1. first \in DOMAIN ps /\ ps[first] \in rs /\ Promoted(ps, rs, k) = ps[first]
    BY <1>1, <1>3, <1>5, <1>6, <1>8
  <2>2. \A m \in DOMAIN ps : ps[m] \in rs => first <= m
    BY <1>3, <1>4, <1>6, <1>8
  <2> QED
    BY <1>8, <2>1, <2>2 DEF Control!Succeeds
<1> QED
  BY <1>7, <1>8

\* A handler of a lost peer, as its neighbours see it.
LEMMA DropsOnce ==
  ASSUME IInv, Once, NEW i \in Connections, i \in ToSet(peers), DropPeer(i), asked' = asked
  PROVE  Once' /\ Control!Leave(i)
<1> DEFINE n == CHOOSE m \in DOMAIN peers : peers[m] = i
           ps == RemoveAt(peers, n)
           rs == ready \ {i}
           k == Promoted(ps, rs, controller)
<1>1. peers' = ps /\ ready' = rs /\ controller' = k /\ pending' = pending
  BY Zenon DEF DropPeer
<1>2. peers \in Seq(Connections) /\ DOMAIN peers = 1 .. Len(peers)
  BY DEF IInv, TypeOK
<1>3. n \in 1 .. Len(peers) /\ peers[n] = i
  <2>1. \E m \in DOMAIN peers : peers[m] = i
    BY Zenon DEF ToSet
  <2>2. n \in DOMAIN peers /\ peers[n] = i
    BY <2>1, Zenon
  <2> HIDE DEF n
  <2> QED
    BY <1>2, <2>2
<1> HIDE DEF n
<1>4. /\ ps \in Seq(Connections) /\ ToSet(ps) \subseteq ToSet(peers)
      /\ \A x \in ToSet(peers) : x # peers[n] => x \in ToSet(ps)
  BY <1>2, <1>3, RemovedOf
<1>5. /\ \A l, m \in 1 .. Len(ps) : ps[l] = ps[m] => l = m
      /\ i \notin ToSet(ps)
  BY <1>2, <1>3, RemovedOnce DEF Once
<1>6. \E m \in DOMAIN peers : peers[m] = i /\ peers' = RemoveAt(peers, m)
  BY <1>1, <1>2, <1>3
<1> HIDE DEF ps
<1>7. Once'
  BY <1>1, <1>4, <1>5 DEF Once
<1>8. rs \subseteq ToSet(ps)
  BY <1>3, <1>4 DEF IInv, SomeoneControls
<1>9. IF controller = i THEN Control!Succeeds(k, ps, rs) ELSE k = controller
  <2>1. CASE controller = i
    BY <1>4, <1>8, <2>1, PromotedFirst
  <2>2. CASE controller # i /\ controller # None
    <3>1. controller \in rs
      BY <2>2 DEF IInv, SomeoneControls
    <3>2. k = controller
      BY <3>1 DEF Promoted
    <3> QED
      BY <2>2, <3>2
  <2>3. CASE controller # i /\ controller = None
    <3>1. rs = {}
      BY <2>3 DEF IInv, SomeoneControls
    <3>2. k = None
      BY <1>4, <3>1, PromotedOne
    <3> QED
      BY <2>3, <3>2
  <2> QED
    BY <2>1, <2>2, <2>3
<1> HIDE DEF k, rs
<1>10. Control!Leave(i)
  BY <1>1, <1>5, <1>6, <1>9 DEF Control!Leave, Control!ToSet, Control!RemoveAt, ToSet, RemoveAt, rs
<1> QED
  BY <1>7, <1>10

\* What a step looks like to the users of the server.
Moves == Control!Next \/ UNCHANGED Control!vars

LEMMA UnseenMoves ==
  ASSUME Once, UNCHANGED <<pending, peers, ready, controller, asked>>
  PROVE  Once' /\ Moves
BY DEF Once, Moves, Control!vars

LEMMA AcceptMoves ==
  ASSUME IInv, Once, NEW i \in Connections, Accept(i)
  PROVE  Once' /\ Moves
<1>1. /\ i \in pending /\ pending' = pending \ {i} /\ peers' = Append(peers, i)
      /\ UNCHANGED <<ready, controller, asked>>
  BY DEF Accept
<1>2. peers \in Seq(Connections)
  BY DEF IInv, TypeOK
<1>3. i \notin ToSet(peers)
  BY <1>1 DEF Once
<1>4. /\ peers' \in Seq(Connections) /\ Len(peers') = Len(peers) + 1 /\ Len(peers) \in Nat
      /\ \A n \in 1 .. Len(peers) : peers'[n] = peers[n]
      /\ peers'[Len(peers) + 1] = i
  BY <1>1, <1>2, AppendOf
<1>5. /\ ToSet(peers) = {peers[n] : n \in 1 .. Len(peers)}
      /\ ToSet(peers') = {peers'[n] : n \in 1 .. Len(peers) + 1}
  BY <1>2, <1>4 DEF ToSet
<1>6. ASSUME NEW n \in 1 .. Len(peers) + 1, n # Len(peers) + 1
      PROVE  n \in 1 .. Len(peers) /\ peers'[n] = peers[n] /\ peers'[n] # i
  BY <1>3, <1>4, <1>5, <1>6
<1>7. ASSUME NEW m \in 1 .. Len(peers'), NEW n \in 1 .. Len(peers'), peers'[m] = peers'[n]
      PROVE  m = n
  <2>1. CASE m = Len(peers) + 1
    BY <1>4, <1>6, <1>7, <2>1
  <2>2. CASE n = Len(peers) + 1
    BY <1>4, <1>6, <1>7, <2>2
  <2>3. CASE m # Len(peers) + 1 /\ n # Len(peers) + 1
    <3>1. m \in 1 .. Len(peers) /\ n \in 1 .. Len(peers) /\ peers[m] = peers[n]
      BY <1>4, <1>6, <1>7, <2>3
    <3> QED
      BY <3>1 DEF Once
  <2> QED
    BY <2>1, <2>2, <2>3
<1>8. ASSUME NEW j \in pending' PROVE j \notin ToSet(peers')
  <2>1. j # i /\ j \notin ToSet(peers)
    BY <1>1, <1>8 DEF Once
  <2> QED
    BY <1>4, <1>5, <2>1
<1>9. Control!Enter(i)
  BY <1>1, <1>3 DEF Control!Enter, Control!ToSet, ToSet
<1> QED
  BY <1>7, <1>8, <1>9 DEF Once, Moves, Control!Next

LEMMA LostMoves ==
  ASSUME IInv, Once, NEW i \in Connections, PeerGone(i) \/ HeartbeatTimeout(i)
  PROVE  Once' /\ Moves
<1>1. i \in ToSet(peers)
  BY DEF PeerGone, HeartbeatTimeout, IInv, SomeoneControls
<1>2. DropPeer(i) /\ asked' = asked
  BY DEF PeerGone, HeartbeatTimeout
<1> QED
  BY <1>1, <1>2, DropsOnce DEF Moves, Control!Next

LEMMA HelloMoves ==
  ASSUME IInv, Once, NEW i \in Connections, ServerReceive(i), ReceiveHello(i)
  PROVE  Once' /\ Moves
<1>1. /\ i \in ToSet(peers) /\ peers' = peers /\ pending' = pending /\ asked' = asked
  BY DEF ServerReceive, ReceiveHello
<1>2. CASE i \in ready
  <2>1. ready' = ready /\ controller' = controller
    BY <1>2 DEF ReceiveHello
  <2> QED
    BY <1>1, <2>1, UnseenMoves
<1>3. CASE i \notin ready
  <2>1. ready' = ready \cup {i} /\ controller' = IF controller = None THEN i ELSE controller
    BY <1>3 DEF ReceiveHello
  <2>2. controller = None <=> ready = {}
    BY DEF IInv, SomeoneControls
  <2>3. Control!Join(i)
    BY <1>1, <1>3, <2>1, <2>2 DEF Control!Join, Control!ToSet, ToSet
  <2>4. Once'
    BY <1>1 DEF Once
  <2> QED
    BY <2>3, <2>4 DEF Moves, Control!Next
<1> QED
  BY <1>2, <1>3

LEMMA RequestMoves ==
  ASSUME IInv, Once, NEW i \in Connections, ServerReceive(i), ReceiveRequestPriority(i)
  PROVE  Once' /\ Moves
<1>1. /\ i \in ToSet(peers) /\ peers' = peers /\ pending' = pending
      /\ asked' = asked \cup {i} /\ ready' = ready
  BY DEF ServerReceive, ReceiveRequestPriority
<1>2. controller' = controller
  <2>1. controller' = controller \/ (controller = None /\ SetController(i))
    BY Zenon DEF ReceiveRequestPriority
  <2>2. controller = None => i \notin ready
    BY DEF IInv, SomeoneControls
  <2> QED
    BY <2>1, <2>2 DEF SetController
<1>3. Control!Wish(i)
  BY <1>1, <1>2 DEF Control!Wish, Control!ToSet, ToSet
<1>4. Once'
  BY <1>1 DEF Once
<1> QED
  BY <1>3, <1>4 DEF Moves, Control!Next

LEMMA ResponseMoves ==
  ASSUME IInv, Once, NEW i \in Connections, ServerReceive(i), ReceivePriorityResponse(i)
  PROVE  Once' /\ Moves
<1> DEFINE m == Head(up[i])
<1>1. /\ peers' = peers /\ pending' = pending /\ up[i] # <<>>
      /\ asked' = asked /\ ready' = ready
      /\ m.t = "priorityResponse"
  BY Zenon DEF ServerReceive, ReceivePriorityResponse
<1>2. \/ controller' = controller
      \/ i = controller /\ m.who \in ready /\ SetController(m.who)
  BY Zenon DEF ReceivePriorityResponse
<1>3. m \in ToServer /\ m = up[i][1] /\ 1 \in 1 .. Len(up[i])
  BY <1>1, HeadUp DEF IInv
<1> HIDE DEF m
<1>4. m.who \in Connections /\ m.who \in asked
  <2>1. Refers(up[i], "priorityResponse", asked)
    BY DEF IInv, AskedInv
  <2> QED
    BY <1>1, <1>3, <2>1, UpMessages DEF Refers
<1>5. CASE controller' = controller
  BY <1>1, <1>5, UnseenMoves
<1>6. CASE i = controller /\ m.who \in ready /\ SetController(m.who)
  <2>1. controller' = m.who
    BY <1>6 DEF SetController
  <2>2. controller \in ready
    BY <1>6 DEF IInv, SomeoneControls, None, Connections
  <2>3. Control!HandOver(m.who)
    BY <1>1, <1>4, <1>6, <2>1, <2>2 DEF Control!HandOver
  <2>4. Once'
    BY <1>1 DEF Once
  <2> QED
    BY <1>4, <2>3, <2>4 DEF Moves, Control!Next
<1> QED
  BY <1>2, <1>5, <1>6

LEMMA StopServerMoves ==
  ASSUME Once, StopServer
  PROVE  Once' /\ Moves
<1>1. pending' = {} /\ peers' = <<>> /\ ready' = {} /\ controller' = None /\ asked' = asked
  BY DEF StopServer
<1>2. Once'
  BY <1>1 DEF Once, ToSet
<1>3. Control!Close
  BY <1>1 DEF Control!Close
<1> QED
  BY <1>2, <1>3 DEF Moves, Control!Next

\* The name of a connection that is used again is nobody's.
LEMMA ConnectionMoves ==
  ASSUME IInv, Once, NEW c \in Clients, NEW i \in Connections, TestClientConnection(c, i)
  PROVE  Once' /\ Moves
<1>1. /\ Fresh(i) /\ pending' \subseteq pending \cup {i} /\ asked' = asked \ {i}
      /\ UNCHANGED <<peers, ready, controller>>
  BY DEF TestClientConnection
<1>2. i \notin ToSet(peers)
  BY <1>1, FreshOne DEF ServerEnd
<1>3. Once'
  BY <1>1, <1>2 DEF Once
<1>4. Control!Forget(i)
  BY <1>1, <1>2 DEF Control!Forget, Control!ToSet, ToSet
<1> QED
  BY <1>3, <1>4 DEF Moves, Control!Next

\* The rest of what the clients do, the server finds out later.
LEMMA ClientMoves ==
  ASSUME IInv, Once, NEW c \in Clients,
         \/ Connect(c) \/ Reconnect(c) \/ Disconnect(c) \/ Connected(c) \/ ServerGone(c)
         \/ HandshakeTimeout(c) \/ ServerSilent(c) \/ ClientReceive(c)
         \/ RequestControl(c) \/ ClientCrash(c)
         \/ \E accepted \in BOOLEAN, block \in BOOLEAN : AnswerRequest(c, accepted, block)
  PROVE  Once' /\ Moves
<1>1. CASE \E i \in Connections : TestClientConnection(c, i)
  BY <1>1, ConnectionMoves
<1>2. CASE UNCHANGED serverVars /\ asked' = asked
  BY <1>2, UnseenMoves DEF serverVars
<1>3. CASE Connect(c)
  BY <1>1, <1>3 DEF Connect
<1>4. CASE Reconnect(c)
  BY <1>1, <1>2, <1>4, Zenon DEF Reconnect
<1>5. CASE Disconnect(c) \/ Connected(c) \/ RequestControl(c) \/ ClientCrash(c)
  BY <1>2, <1>5, Zenon DEF Disconnect, Connected, RequestControl, ClientCrash
<1>6. CASE ServerGone(c) \/ HandshakeTimeout(c) \/ ServerSilent(c)
  BY <1>2, <1>6, Zenon DEF ServerGone, HandshakeTimeout, ServerSilent, LoseChannel
<1>7. CASE ClientReceive(c)
  BY <1>2, <1>7, Zenon DEF ClientReceive
<1>8. CASE \E accepted \in BOOLEAN, block \in BOOLEAN : AnswerRequest(c, accepted, block)
  BY <1>2, <1>8, Zenon DEF AnswerRequest
<1> QED
  BY <1>3, <1>4, <1>5, <1>6, <1>7, <1>8

\* Every step of the channel is one of the abstract control, or unseen.
LEMMA ControlStep ==
  ASSUME IInv, Once, [Next]_vars
  PROVE  Once' /\ Moves
<1>1. CASE UNCHANGED vars
  BY <1>1, UnseenMoves DEF vars, serverVars
<1>2. CASE \E i \in Connections :
             \/ Accept(i) \/ PeerGone(i) \/ HeartbeatTimeout(i) \/ ServerReceive(i)
             \/ LinkDies(i)
  <2>1. PICK i \in Connections :
          \/ Accept(i) \/ PeerGone(i) \/ HeartbeatTimeout(i) \/ ServerReceive(i)
          \/ LinkDies(i)
    BY <1>2
  <2>2. CASE ServerReceive(i)
    <3>1. ReceiveHello(i) \/ ReceiveRequestPriority(i) \/ ReceivePriorityResponse(i)
      BY <2>2 DEF ServerReceive
    <3> QED
      BY <2>2, <3>1, HelloMoves, RequestMoves, ResponseMoves
  <2>3. CASE LinkDies(i)
    BY <2>3, UnseenMoves DEF LinkDies, serverVars
  <2> QED
    BY <2>1, <2>2, <2>3, AcceptMoves, LostMoves
<1>3. CASE StopServer
  BY <1>3, StopServerMoves
<1>4. CASE StartServer
  BY <1>4, UnseenMoves DEF StartServer
<1>5. CASE \E c \in Clients :
             \/ Connect(c) \/ Reconnect(c) \/ Disconnect(c) \/ Connected(c) \/ ServerGone(c)
             \/ HandshakeTimeout(c) \/ ServerSilent(c) \/ ClientReceive(c)
             \/ RequestControl(c) \/ ClientCrash(c)
             \/ AnswerRequest(c, TRUE, FALSE)
             \/ \E block \in BOOLEAN : AnswerRequest(c, FALSE, block)
  BY <1>5, ClientMoves
<1> QED
  BY <1>1, <1>2, <1>3, <1>4, <1>5 DEF Next

\* The handlers of sockets, lines and timers implement the control of
\* AbstractControl: each of them is one of its steps, or none.
THEOREM ControlImplemented == Spec => ImplementsControl
<1>1. Init => Control!Init /\ Once
  BY DEF Init, Control!Init, Once, ToSet
<1>2. IInv /\ Once /\ [Next]_vars => Once' /\ [Control!Next]_(Control!vars)
  BY ControlStep DEF Moves
<1> QED
  BY Invariance, <1>1, <1>2, PTL DEF Spec, ImplementsControl, Control!Spec

-----------------------------------------------------------------------------
(* Two more things the clients rely on *)

\* A client that believes it controls the receiver, and to which no role is on
\* its way.
Commands(i) ==
  /\ i \in ready /\ Live(i)
  /\ mine[owner[i]]
  /\ \A n \in DOMAIN down[i] : down[i][n].t # "role"

\* Of the clients that have read what was sent to them one at most believes it
\* controls the receiver.
OneCommands == \A i, j \in Connections : Commands(i) /\ Commands(j) => i = j

THEOREM OneCommandsCorrect == Spec => []OneCommands
<1>1. ASSUME IInv, NEW i \in Connections, Commands(i)
      PROVE  i = controller
  <2>1. down[i] \in Seq(ToClient)
    BY <1>1 DEF IInv, TypeOK
  <2>2. \A n \in 1 .. Len(down[i]) : down[i][n].t # "role"
    BY <1>1, <2>1 DEF Commands
  <2>3. Says(down[i], mine[owner[i]], i, controller)
    BY <1>1 DEF Commands, IInv, Agreed
  <2>4. owner[i] \in Clients /\ mine[owner[i]] \in BOOLEAN
    BY <1>1 DEF Commands, IInv, TypeOK, Live, ClientEnd
  <2>5. mine[owner[i]] = TRUE
    BY <1>1, <2>4 DEF Commands
  <2> QED
    BY <2>2, <2>3, <2>5 DEF Says
<1>2. IInv => OneCommands
  BY <1>1 DEF OneCommands
<1> QED
  BY Invariance, <1>2, PTL

\* A client without a socket has its reconnect timer running: whatever loses
\* the channel, nothing leaves the client waiting for nobody (handshake and
\* heartbeat timeouts, socket errors, the reconnect timer itself).
NeverStranded == \A c \in Clients : phase[c] = "closed" => retry[c]

LEMMA StrandsNobody ==
  ASSUME IInv, NeverStranded, [Next]_vars
  PROVE  NeverStranded'
<1>1. phase \in [Clients -> {"off", "closed", "connecting", "handshake", "ready"}]
      /\ retry \in [Clients -> BOOLEAN]
  BY DEF IInv, TypeOK
<1>2. CASE phase' = phase /\ retry' = retry
  BY <1>2 DEF NeverStranded
<1>3. CASE \E i \in Connections :
             \/ Accept(i) \/ PeerGone(i) \/ HeartbeatTimeout(i) \/ ServerReceive(i)
             \/ LinkDies(i)
  BY <1>2, <1>3, Zenon DEF Accept, PeerGone, HeartbeatTimeout, ServerReceive, LinkDies,
     clientVars
<1>4. CASE StopServer \/ StartServer \/ UNCHANGED vars
  BY <1>2, <1>4, Zenon DEF StopServer, StartServer, vars, clientVars
<1>5. ASSUME NEW c \in Clients, LoseChannel(c)
      PROVE  NeverStranded'
  BY <1>1, <1>5 DEF LoseChannel, NeverStranded
<1>6. ASSUME NEW c \in Clients, NEW i \in Connections, TestClientConnection(c, i),
             retry' = retry \/ retry' = [retry EXCEPT ![c] = FALSE]
      PROVE  NeverStranded'
  <2>1. phase' = [phase EXCEPT ![c] = "connecting"]
    BY <1>6 DEF TestClientConnection
  <2>2. CASE retry' = retry
    BY <1>1, <2>1, <2>2 DEF NeverStranded
  <2>3. CASE retry' = [retry EXCEPT ![c] = FALSE]
    BY <1>1, <2>1, <2>3 DEF NeverStranded
  <2> QED
    BY <1>6, <2>2, <2>3
<1>7. ASSUME NEW c \in Clients,
             \/ Connect(c) \/ Reconnect(c) \/ Disconnect(c) \/ Connected(c) \/ ServerGone(c)
             \/ HandshakeTimeout(c) \/ ServerSilent(c) \/ ClientReceive(c)
             \/ RequestControl(c) \/ ClientCrash(c)
             \/ \E accepted \in BOOLEAN, block \in BOOLEAN : AnswerRequest(c, accepted, block)
      PROVE  NeverStranded'
  <2>1. CASE Connect(c)
    BY <1>6, <2>1 DEF Connect
  <2>2. CASE Reconnect(c)
    <3>1. CASE phase[c] \in {"off", "ready"}
      <4>1. phase' = phase /\ retry' = [retry EXCEPT ![c] = FALSE]
        BY <2>2, <3>1 DEF Reconnect
      <4> QED
        BY <1>1, <3>1, <4>1 DEF NeverStranded
    <3>2. CASE phase[c] \notin {"off", "ready"}
      BY <1>6, <2>2, <3>2 DEF Reconnect
    <3> QED
      BY <3>1, <3>2
  <2>3. CASE Disconnect(c)
    <3>1. phase' = [phase EXCEPT ![c] = "off"] /\ retry' = retry
      BY <2>3 DEF Disconnect
    <3> QED
      BY <1>1, <3>1 DEF NeverStranded
  <2>4. CASE Connected(c)
    <3>1. phase' = [phase EXCEPT ![c] = "handshake"] /\ retry' = retry
      BY <2>4 DEF Connected
    <3> QED
      BY <1>1, <3>1 DEF NeverStranded
  <2>5. CASE ServerGone(c) \/ HandshakeTimeout(c) \/ ServerSilent(c)
    BY <1>5, <2>5, Zenon DEF ServerGone, HandshakeTimeout, ServerSilent
  <2>6. CASE ClientReceive(c)
    <3> DEFINE m == Head(down[socket[c]])
    <3>1. \/ phase' = [phase EXCEPT ![c] = "ready"]
             /\ retry' = [retry EXCEPT ![c] = FALSE]
          \/ phase' = phase /\ retry' = retry
      <4>1. /\ phase' = IF m = Ok THEN [phase EXCEPT ![c] = "ready"] ELSE phase
            /\ retry' = IF m = Ok THEN [retry EXCEPT ![c] = FALSE] ELSE retry
        BY <2>6, Zenon DEF ClientReceive
      <4> QED
        BY <4>1, Zenon
    <3>2. CASE /\ phase' = [phase EXCEPT ![c] = "ready"]
               /\ retry' = [retry EXCEPT ![c] = FALSE]
      BY <1>1, <3>2 DEF NeverStranded
    <3> QED
      BY <1>2, <3>1, <3>2
  <2>7. CASE ClientCrash(c)
    <3>1. phase' = [phase EXCEPT ![c] = "off"] /\ retry' = [retry EXCEPT ![c] = FALSE]
      BY <2>7 DEF ClientCrash
    <3> QED
      BY <1>1, <3>1 DEF NeverStranded
  <2>8. CASE RequestControl(c)
             \/ \E accepted \in BOOLEAN, block \in BOOLEAN : AnswerRequest(c, accepted, block)
    BY <1>2, <2>8, Zenon DEF RequestControl, AnswerRequest, clientVars
  <2> QED
    BY <1>7, <2>1, <2>2, <2>3, <2>4, <2>5, <2>6, <2>7, <2>8
<1> QED
  BY <1>3, <1>4, <1>7 DEF Next

THEOREM NeverStrandedCorrect == Spec => []NeverStranded
<1>1. Init => NeverStranded
  BY DEF Init, NeverStranded
<1>2. IInv /\ NeverStranded /\ [Next]_vars => NeverStranded'
  BY StrandsNobody
<1> QED
  BY Invariance, <1>1, <1>2, PTL DEF Spec
=============================================================================

---------------------------- MODULE GatewayProofs ----------------------------
(***************************************************************************)
(* Proofs about the gateway, for any connections, gateways, keys, requests *)
(* and faults.                                                             *)
(***************************************************************************)
EXTENDS Gateway, TLAPS

-----------------------------------------------------------------------------
(* Requests and replies. *)

LEMMA ScriptIs ==
    ASSUME ConnInv, NEW c \in Conns
    PROVE  /\ script[c] \in Seq(Requests) /\ Len(script[c]) \in Nat
           /\ DOMAIN script[c] = 1..Len(script[c])
           /\ \A n \in DOMAIN script[c] : script[c][n] \in Requests /\ Arity(script[c][n])
<1>1. script[c] \in Seq(Requests) /\ \A n \in DOMAIN script[c] : Arity(script[c][n])
  BY GatewayAssumption, Zenon DEF ConnInv
<1> QED BY <1>1

LEMMA ConnIs ==
    ASSUME ConnInv, NEW c \in Conns
    PROVE  /\ conn[c] \in ConnType /\ conn[c].next \in Nat
           /\ DOMAIN conn[c] = {"open", "auth", "mode", "next", "running"}
           /\ answers[c] \in Seq(Results) /\ sent[c] \in Seq(Nat)
           /\ conn[c].next = Len(answers[c]) + 1 /\ Len(answers[c]) \in Nat
           /\ DOMAIN answers[c] = 1..(conn[c].next - 1)
           /\ Len(answers[c]) <= Len(script[c])
<1>1. /\ conn[c] \in ConnType /\ answers[c] \in Seq(Results) /\ sent[c] \in Seq(Nat)
      /\ conn[c].next = Len(answers[c]) + 1 /\ Len(answers[c]) <= Len(script[c])
  BY Zenon DEF ConnInv
<1>2. conn[c].next \in Nat /\ DOMAIN conn[c] = {"open", "auth", "mode", "next", "running"}
  BY <1>1 DEF ConnType
<1>3. Len(answers[c]) \in Nat /\ DOMAIN answers[c] = 1..Len(answers[c])
  BY <1>1
<1>4. Len(answers[c]) = conn[c].next - 1
  BY <1>1, <1>2, <1>3
<1> QED BY <1>1, <1>2, <1>3, <1>4

(* What a settled request does to its connection *)
LEMMA SettleIs ==
    ASSUME ConnInv, NEW c \in Conns, NEW cn \in ConnType, cn.next = conn[c].next,
           NEW result \in Results, Settle(c, cn, result), UNCHANGED <<script, now>>,
           conn[c].next <= Len(script[c])
    PROVE  /\ conn'[c].mode = ModeAfter(Request(c), cn.mode, result)
           /\ conn'[c].next = conn[c].next + 1 /\ conn'[c].running = FALSE
           /\ answers'[c] = Append(answers[c], result)
           /\ sent'[c] = IF Visible(Request(c), cn.mode, result)
                         THEN Append(sent[c], conn[c].next) ELSE sent[c]
           /\ \A d \in Conns : d # c =>
                 conn'[d] = conn[d] /\ answers'[d] = answers[d] /\ sent'[d] = sent[d]
           /\ ConnInv'
<1> DEFINE op == Request(c).op
           shown == Visible(Request(c), cn.mode, result)
           mode == ModeAfter(Request(c), cn.mode, result)
           open == op # "quit" /\ cn.open
           next == cn.next + 1
           new == [cn EXCEPT !.mode = mode, !.open = open, !.next = next, !.running = FALSE]
<1>1. /\ conn' = [conn EXCEPT ![c] = new]
      /\ sent' = [sent EXCEPT ![c] = IF shown THEN Append(@, cn.next) ELSE @]
      /\ answers' = [answers EXCEPT ![c] = Append(@, result)]
  <2>1. conn' = [conn EXCEPT ![c] = new]
    BY Zenon DEF Settle
  <2>2. sent' = [sent EXCEPT ![c] = IF shown THEN Append(@, cn.next) ELSE @]
    BY Zenon DEF Settle
  <2>3. answers' = [answers EXCEPT ![c] = Append(@, result)]
    BY Zenon DEF Settle
  <2> QED BY <2>1, <2>2, <2>3, Zenon
<1>2. /\ conn \in [Conns -> ConnType] /\ answers \in [Conns -> Seq(Results)]
      /\ sent \in [Conns -> Seq(Nat)]
  BY Zenon DEF ConnInv
<1>3. mode \in {"on", "off", "skip"} /\ open \in BOOLEAN /\ next \in Nat
  BY DEF ModeAfter, Switches, SwitchTo, ConnType
<1> HIDE DEF mode, open, next, shown
<1>4. /\ new \in ConnType /\ new.mode = mode /\ new.next = next
      /\ new.running = FALSE
  BY <1>3 DEF ConnType
<1> HIDE DEF new
<1>5. conn' \in [Conns -> ConnType] /\ conn'[c] = new /\ \A d \in Conns : d # c => conn'[d] = conn[d]
  BY <1>1, <1>2, <1>4, Zenon
<1>6. Append(answers[c], result) \in Seq(Results)
  BY <1>2
<1>7. /\ answers' \in [Conns -> Seq(Results)] /\ answers'[c] = Append(answers[c], result)
      /\ \A d \in Conns : d # c => answers'[d] = answers[d]
  BY <1>1, <1>2, <1>6, Zenon
<1>8. sent[c] \in Seq(Nat) /\ Append(sent[c], cn.next) \in Seq(Nat)
  BY <1>2 DEF ConnType
<1>9. /\ sent' \in [Conns -> Seq(Nat)]
      /\ sent'[c] = IF shown THEN Append(sent[c], cn.next) ELSE sent[c]
      /\ \A d \in Conns : d # c => sent'[d] = sent[d]
  <2> DEFINE s == IF shown THEN Append(sent[c], cn.next) ELSE sent[c]
  <2>1. s \in Seq(Nat) /\ sent' = [sent EXCEPT ![c] = s]
    BY <1>1, <1>8, Zenon
  <2> HIDE DEF s
  <2>2. sent' \in [Conns -> Seq(Nat)] /\ sent'[c] = s /\ \A d \in Conns : d # c => sent'[d] = sent[d]
    BY <1>2, <2>1, Zenon
  <2> QED BY <2>2, Zenon DEF s
<1>10. ASSUME NEW d \in Conns
       PROVE  /\ conn'[d].next = Len(answers'[d]) + 1 /\ Len(answers'[d]) <= Len(script'[d])
              /\ conn'[d].running => /\ conn'[d].next <= Len(script'[d])
                                     /\ Request(d)'.op \notin Local
  <2>1. CASE d = c
    <3>1. Len(answers'[c]) = Len(answers[c]) + 1
      BY <1>2, <1>7
    <3> QED BY <1>4, <1>5, <2>1, <3>1, ConnIs DEF next
  <2>2. CASE d # c
    BY <1>5, <1>7, <2>2, Zenon DEF ConnInv, Request
  <2> QED BY <2>1, <2>2, Zenon
<1>11. ConnInv'
  BY <1>5, <1>7, <1>9, <1>10, Zenon DEF ConnInv
<1>12. /\ conn'[c].mode = mode /\ conn'[c].next = conn[c].next + 1 /\ conn'[c].running = FALSE
  BY <1>4, <1>5, Zenon DEF next
<1> QED BY <1>5, <1>7, <1>9, <1>11, <1>12, Zenon DEF mode, shown

(* Later answers do not change what was to be silent. *)
LEMMA SilentStays ==
    ASSUME NEW c \in Conns, NEW n \in Nat, script' = script,
           \A m \in 1..n : answers'[c][m] = answers[c][m]
    PROVE  /\ \A m \in 1..n : /\ TookOff(c, m)' <=> TookOff(c, m)
                              /\ TookOn(c, m)' <=> TookOn(c, m)
                              /\ TookSkip(c, m)' <=> TookSkip(c, m)
           /\ \A m \in 1..(n + 1) : /\ TurnedOff(c, m)' <=> TurnedOff(c, m)
                                    /\ Skipped(c, m)' <=> Skipped(c, m)
           /\ \A m \in 1..n : Silent(c, m)' <=> Silent(c, m)
<1>1. ASSUME NEW m \in 1..n
      PROVE  /\ TookOff(c, m)' <=> TookOff(c, m)
             /\ TookOn(c, m)' <=> TookOn(c, m)
             /\ TookSkip(c, m)' <=> TookSkip(c, m)
  BY Zenon DEF TookOff, TookOn, TookSkip
<1>2. ASSUME NEW m \in 1..(n + 1) PROVE TurnedOff(c, m)' <=> TurnedOff(c, m)
  <2>1. \A j \in 1..(m - 1) : j \in 1..n /\ \A l \in (j + 1)..(m - 1) : l \in 1..n
    OBVIOUS
  <2> QED BY <1>1, <2>1, Zenon DEF TurnedOff
<1>3. ASSUME NEW m \in 1..(n + 1) PROVE Skipped(c, m)' <=> Skipped(c, m)
  <2>1. m > 1 => m - 1 \in 1..n
    OBVIOUS
  <2> QED BY <1>1, <2>1, Zenon DEF Skipped
<1>4. ASSUME NEW m \in 1..n PROVE Silent(c, m)' <=> Silent(c, m)
  <2>1. m \in 1..(n + 1)
    OBVIOUS
  <2> QED BY <1>1, <1>2, <1>3, <2>1, Zenon DEF Silent
<1> QED BY <1>1, <1>2, <1>3, <1>4, Zenon

(* What one more answer does to the mode that the requests make *)
LEMMA TurnsOff ==
    ASSUME NEW c \in Conns, NEW n \in Nat \ {0}
    PROVE  /\ TurnedOff(c, n + 1)' <=> \/ TookOff(c, n)'
                                       \/ TurnedOff(c, n)' /\ ~ TookOn(c, n)'
           /\ Skipped(c, n + 1)' <=> TookSkip(c, n)'
<1>1. Skipped(c, n + 1)' <=> TookSkip(c, n)'
  <2>1. n + 1 > 1 /\ (n + 1) - 1 = n
    OBVIOUS
  <2> QED BY <2>1 DEF Skipped
<1> DEFINE Off(m) == TookOff(c, m)'
           On(m) == TookOn(c, m)'
<1>2. Off(n) => ~ On(n)
  BY DEF TookOff, TookOn
<1>3. /\ TurnedOff(c, n)' <=> \E m \in 1..(n - 1) : Off(m) /\ \A j \in (m + 1)..(n - 1) : ~ On(j)
      /\ TurnedOff(c, n + 1)' <=> \E m \in 1..n : Off(m) /\ \A j \in (m + 1)..n : ~ On(j)
  <2>1. (n + 1) - 1 = n
    OBVIOUS
  <2> HIDE DEF Off, On
  <2> QED BY <2>1 DEF TurnedOff, Off, On
<1> HIDE DEF Off, On
<1>4. /\ 1..n = 1..(n - 1) \cup {n} /\ (n + 1)..n = {}
      /\ \A m \in 1..(n - 1) : (m + 1)..n = (m + 1)..(n - 1) \cup {n}
  OBVIOUS
<1>5. ASSUME TurnedOff(c, n + 1)' PROVE Off(n) \/ (TurnedOff(c, n)' /\ ~ On(n))
  BY <1>3, <1>4, <1>5, ZenonT(30)
<1>6. ASSUME Off(n) \/ (TurnedOff(c, n)' /\ ~ On(n)) PROVE TurnedOff(c, n + 1)'
  BY <1>3, <1>4, <1>6, Zenon
<1> QED BY <1>1, <1>5, <1>6 DEF Off, On

(* A reply that is written comes after the ones before it. *)
LEMMA AppendInOrder ==
    ASSUME NEW s \in Seq(Nat), NEW n \in Nat, Increasing(s), \A i \in DOMAIN s : s[i] < n
    PROVE  Increasing(Append(s, n)) /\ Elements(Append(s, n)) = Elements(s) \cup {n}
<1>1. PICK t : t = Append(s, n)
  BY Zenon
<1> DEFINE l == Len(s)
<1>2. /\ l \in Nat /\ DOMAIN s = 1..l /\ DOMAIN t = 1..(l + 1) /\ t[l + 1] = n
      /\ \A i \in 1..l : t[i] = s[i] /\ s[i] \in Nat
  BY <1>1
<1> HIDE DEF l
<1>3. 1..(l + 1) = 1..l \cup {l + 1}
  BY <1>2
<1>4. \A x : x \in Elements(t) <=> x \in Elements(s) \/ x = n
  <2>1. \A x : x \in Elements(t) <=> \E i \in 1..l \cup {l + 1} : x = t[i]
    BY <1>2, <1>3, Zenon DEF Elements
  <2>2. \A x : x \in Elements(s) <=> \E i \in 1..l : x = t[i]
    BY <1>2, Zenon DEF Elements
  <2>3. \A x : (\E i \in 1..l \cup {l + 1} : x = t[i]) <=> (\E i \in 1..l : x = t[i]) \/ x = n
    BY <1>2, Zenon
  <2> QED BY <2>1, <2>2, <2>3
<1>5. ASSUME NEW i \in 1..(l + 1), NEW j \in 1..(l + 1), i < j PROVE t[i] < t[j]
  <2>1. i \in 1..l
    BY <1>2, <1>5
  <2>2. j \in 1..l \/ j = l + 1
    BY <1>2
  <2>3. s[i] < n /\ (j \in 1..l => s[i] < s[j])
    BY <1>2, <1>5, <2>1, Zenon DEF Increasing
  <2> QED BY <1>2, <2>1, <2>2, <2>3, Zenon
<1>6. Increasing(t)
  BY <1>2, <1>5, Zenon DEF Increasing
<1> QED BY <1>1, <1>4, <1>6

LEMMA SettleReplies ==
    ASSUME ConnInv, ReplyInv, NEW c \in Conns, NEW cn \in ConnType, cn.next = conn[c].next,
           NEW result \in Results, Settle(c, cn, result), UNCHANGED <<script, now>>,
           conn[c].next <= Len(script[c]),
           cn.mode = IF Request(c).op = "reset" /\ result = "ok" THEN "on" ELSE conn[c].mode
    PROVE  ConnInv' /\ ReplyInv'
<1>1. PICK n, q : n = conn[c].next /\ q = Request(c)
  BY Zenon
<1>2. /\ conn'[c].mode = ModeAfter(q, cn.mode, result)
      /\ conn'[c].next = n + 1 /\ answers'[c] = Append(answers[c], result)
      /\ sent'[c] = IF Visible(q, cn.mode, result) THEN Append(sent[c], n) ELSE sent[c]
      /\ \A d \in Conns : d # c =>
            conn'[d] = conn[d] /\ answers'[d] = answers[d] /\ sent'[d] = sent[d]
      /\ ConnInv'
  BY <1>1, SettleIs, Zenon
<1>3. /\ n \in Nat \ {0} /\ n - 1 \in Nat /\ (n - 1) + 1 = n /\ Len(answers[c]) = n - 1
      /\ answers[c] \in Seq(Results) /\ DOMAIN answers[c] = 1..(n - 1) /\ sent[c] \in Seq(Nat)
  BY <1>1, ConnIs
<1>4. /\ \A m \in 1..(n - 1) : answers'[c][m] = answers[c][m]
      /\ answers'[c][n] = result /\ DOMAIN answers'[c] = 1..(n - 1) \cup {n}
  BY <1>2, <1>3
<1>5. /\ TookOff(c, n)' <=> q.op = "off" /\ result = "ok"
      /\ TookOn(c, n)' <=> q.op \in {"on", "reset"} /\ result = "ok"
      /\ TookSkip(c, n)' <=> q.op = "skip" /\ result = "ok"
  BY <1>1, <1>4, Zenon DEF TookOff, TookOn, TookSkip, Request
<1>6. /\ TurnedOff(c, n)' <=> TurnedOff(c, n)
      /\ Skipped(c, n)' <=> Skipped(c, n)
      /\ \A m \in 1..(n - 1) : Silent(c, m)' <=> Silent(c, m)
  <2>1. n \in 1..((n - 1) + 1)
    BY <1>3
  <2> QED BY <1>3, <1>4, <2>1, SilentStays, Zenon
<1>7. /\ TurnedOff(c, n + 1)' <=>
            \/ q.op = "off" /\ result = "ok"
            \/ TurnedOff(c, n) /\ ~ (q.op \in {"on", "reset"} /\ result = "ok")
      /\ Skipped(c, n + 1)' <=> q.op = "skip" /\ result = "ok"
  <2>1. /\ TurnedOff(c, n + 1)' <=> \/ TookOff(c, n)'
                                    \/ TurnedOff(c, n)' /\ ~ TookOn(c, n)'
        /\ Skipped(c, n + 1)' <=> TookSkip(c, n)'
    BY <1>3, TurnsOff
  <2> QED BY <1>5, <1>6, <2>1, Zenon
<1>8. conn[c].mode = IF TurnedOff(c, n) THEN "off" ELSE IF Skipped(c, n) THEN "skip" ELSE "on"
  BY <1>1, Zenon DEF ReplyInv
<1>9. conn'[c].mode = IF TurnedOff(c, n + 1)' THEN "off"
                      ELSE IF Skipped(c, n + 1)' THEN "skip" ELSE "on"
  BY <1>1, <1>2, <1>7, <1>8 DEF ModeAfter, Switches, SwitchTo
<1>10. Visible(q, cn.mode, result) <=> ~ Silent(c, n)'
  <2>1. Silent(c, n)' <=>
           \/ q.op \in {"off", "skip"} /\ result = "ok"
           \/ (TurnedOff(c, n) \/ Skipped(c, n)) /\ ~ (q.op \in {"on", "reset"} /\ result = "ok")
    <3>1. Silent(c, n)' <=>
             \/ TookOff(c, n)' \/ TookSkip(c, n)'
             \/ (TurnedOff(c, n)' \/ Skipped(c, n)') /\ ~ TookOn(c, n)'
      BY Zenon DEF Silent
    <3> QED BY <1>5, <1>6, <3>1, Zenon
  <2> QED BY <1>1, <1>8, <2>1 DEF Visible, Switches
<1>11. InOrder(c)'
  <2>1. Increasing(sent[c]) /\ Elements(sent[c]) = {m \in 1..(n - 1) : ~ Silent(c, m)}
    BY <1>3, Zenon DEF ReplyInv, InOrder
  <2>2. {m \in DOMAIN answers'[c] : ~ Silent(c, m)'} =
           {m \in 1..(n - 1) : ~ Silent(c, m)} \cup (IF Silent(c, n)' THEN {} ELSE {n})
    <3> DEFINE old == {m \in 1..(n - 1) : ~ Silent(c, m)}
               new == {m \in DOMAIN answers'[c] : ~ Silent(c, m)'}
    <3>1. \A m : m \in new <=> m \in old \/ (m = n /\ ~ Silent(c, n)')
      BY <1>4, <1>6, Zenon
    <3> HIDE DEF old, new
    <3>2. new = old \cup (IF Silent(c, n)' THEN {} ELSE {n})
      BY <3>1, Zenon
    <3> QED BY <3>2, Zenon DEF old, new
  <2>3. CASE Silent(c, n)'
    <3>1. sent'[c] = sent[c]
      BY <1>2, <1>10, <2>3, Zenon
    <3>2. {m \in DOMAIN answers'[c] : ~ Silent(c, m)'} = {m \in 1..(n - 1) : ~ Silent(c, m)}
      BY <2>2, <2>3
    <3> QED BY <2>1, <3>1, <3>2, Zenon DEF InOrder
  <2>4. CASE ~ Silent(c, n)'
    <3>1. sent'[c] = Append(sent[c], n)
      BY <1>2, <1>10, <2>4, Zenon
    <3>2. \A i \in DOMAIN sent[c] : sent[c][i] < n
      <4>1. \A m \in 1..(n - 1) : m < n
        BY <1>3
      <4>2. \A i \in DOMAIN sent[c] : sent[c][i] \in Elements(sent[c])
        BY Zenon DEF Elements
      <4> QED BY <2>1, <4>1, <4>2, Zenon
    <3>3. Increasing(sent'[c]) /\ Elements(sent'[c]) = Elements(sent[c]) \cup {n}
      BY <1>3, <2>1, <3>1, <3>2, AppendInOrder, Zenon
    <3>4. {m \in DOMAIN answers'[c] : ~ Silent(c, m)'} =
             {m \in 1..(n - 1) : ~ Silent(c, m)} \cup {n}
      BY <2>2, <2>4
    <3> QED BY <2>1, <3>3, <3>4, Zenon DEF InOrder
  <2> QED BY <2>3, <2>4, Zenon
<1>12. ASSUME NEW d \in Conns
       PROVE  /\ InOrder(d)'
              /\ conn'[d].mode = IF TurnedOff(d, conn[d].next)' THEN "off"
                                 ELSE IF Skipped(d, conn[d].next)' THEN "skip" ELSE "on"
  <2>1. CASE d = c
    BY <1>2, <1>9, <1>11, <2>1, Zenon DEF TurnedOff, Skipped
  <2>2. CASE d # c
    <3>1. conn'[d] = conn[d] /\ answers'[d] = answers[d] /\ sent'[d] = sent[d]
      BY <1>2, <2>2, Zenon
    <3>2. PICK l : l = Len(answers[d])
      BY Zenon
    <3>3. /\ l \in Nat /\ conn[d].next = l + 1 /\ l + 1 \in 1..(l + 1)
          /\ DOMAIN answers[d] = 1..l
      BY <3>2, ConnIs
    <3>4. /\ TurnedOff(d, l + 1)' <=> TurnedOff(d, l + 1)
          /\ Skipped(d, l + 1)' <=> Skipped(d, l + 1)
          /\ \A m \in 1..l : Silent(d, m)' <=> Silent(d, m)
      BY <3>1, <3>3, SilentStays, Zenon
    <3>5. {m \in DOMAIN answers'[d] : ~ Silent(d, m)'} = {m \in DOMAIN answers[d] : ~ Silent(d, m)}
      BY <3>1, <3>3, <3>4, Zenon
    <3>6. InOrder(d)'
      BY <3>1, <3>5, Zenon DEF ReplyInv, InOrder
    <3>7. /\ conn[d].mode = IF TurnedOff(d, l + 1) THEN "off"
                            ELSE IF Skipped(d, l + 1) THEN "skip" ELSE "on"
          /\ conn'[d].next = l + 1
      BY <3>1, <3>3, Zenon DEF ReplyInv
    <3> QED BY <3>1, <3>4, <3>6, <3>7, Zenon DEF TurnedOff, Skipped
  <2> QED BY <2>1, <2>2, Zenon
<1> QED BY <1>2, <1>12, Zenon DEF ReplyInv

LEMMA ConnKept ==
    ASSUME ConnInv, ReplyInv, UNCHANGED <<script, answers, sent>>, now' \in 1..MaxNow,
           conn' \in [Conns -> ConnType],
           \A c \in Conns :
              /\ conn'[c].next = conn[c].next /\ conn'[c].mode = conn[c].mode
              /\ conn'[c].running => /\ conn[c].next <= Len(script[c])
                                     /\ Request(c).op \notin Local
    PROVE  ConnInv' /\ ReplyInv'
<1>1. ConnInv'
  <2>1. \A c \in Conns : Request(c)' = Request(c)
    BY Zenon DEF Request
  <2> QED BY <2>1, Zenon DEF ConnInv
<1>2. ASSUME NEW c \in Conns
      PROVE  /\ InOrder(c)'
             /\ conn'[c].mode = IF TurnedOff(c, conn[c].next)' THEN "off"
                                ELSE IF Skipped(c, conn[c].next)' THEN "skip" ELSE "on"
  <2>1. PICK l : l = Len(answers[c])
    BY Zenon
  <2>2. /\ l \in Nat /\ conn[c].next = l + 1 /\ l + 1 \in 1..(l + 1)
        /\ DOMAIN answers[c] = 1..l
    BY <2>1, ConnIs
  <2>3. /\ TurnedOff(c, l + 1)' <=> TurnedOff(c, l + 1)
        /\ Skipped(c, l + 1)' <=> Skipped(c, l + 1)
        /\ \A m \in 1..l : Silent(c, m)' <=> Silent(c, m)
    BY <2>2, SilentStays, Zenon
  <2>4. {m \in DOMAIN answers'[c] : ~ Silent(c, m)'} = {m \in DOMAIN answers[c] : ~ Silent(c, m)}
    BY <2>2, <2>3, Zenon
  <2>5. InOrder(c)'
    BY <2>4, Zenon DEF ReplyInv, InOrder
  <2>6. /\ conn[c].mode = IF TurnedOff(c, l + 1) THEN "off"
                          ELSE IF Skipped(c, l + 1) THEN "skip" ELSE "on"
        /\ conn'[c].next = l + 1 /\ conn'[c].mode = conn[c].mode
    BY <2>2, Zenon DEF ReplyInv
  <2> QED BY <2>3, <2>5, <2>6, Zenon DEF TurnedOff, Skipped
<1> QED BY <1>1, <1>2, Zenon DEF ReplyInv

LEMMA PartIs ==
    ASSUME PartInv, NEW c \in Conns, NEW i \in DOMAIN part[c]
    PROVE  /\ conn[c].running /\ i \in 1..Parts(Request(c))
           /\ PartOK(Request(c), Command(c), i, part[c][i])
BY Zenon DEF PartInv

(* A command of several writes that reports a retryable error has written nothing. *)
LEMMA OutcomeIs ==
    ASSUME ConnInv, PartInv, NEW c \in Conns, conn[c].running, Outcome(c, "tryagain"),
           Request(c).op \notin Reads \cup Renames
    PROVE  \A i \in DOMAIN part[c] : part[c][i].res.code \notin {"ok", "unknown"}
<1>1. PICK i \in DOMAIN part[c] :
         "tryagain" = IF Request(c).op \in {"mset", "del"}
                      THEN PartialWriteOutcome(c, part[c][i].res.code) ELSE part[c][i].res.code
  <2>1. "tryagain" # "ok"
    OBVIOUS
  <2> QED BY <2>1, Zenon DEF Outcome
<1>2. Request(c) \in Requests /\ Arity(Request(c)) /\ Request(c).op \notin Local
  <2>1. conn[c].next \in DOMAIN script[c] /\ Request(c).op \notin Local
    <3>1. conn[c].next <= Len(script[c]) /\ Request(c).op \notin Local
      BY Zenon DEF ConnInv
    <3> QED BY <3>1, ConnIs, ScriptIs
  <2> QED BY <2>1, ScriptIs, Zenon DEF Request
<1>3. CASE Request(c).op \in {"mset", "del"}
  <2>1. {"ok", "unknown"} \cap Codes(c) = {}
    <3>1. "tryagain" # "unknown"
      OBVIOUS
    <3> QED BY <1>1, <1>3, <3>1, Zenon DEF PartialWriteOutcome
  <2>2. \A j \in DOMAIN part[c] : part[c][j].res.code \in Codes(c)
    BY Zenon DEF Codes
  <2> QED BY <2>1, <2>2, Zenon
<1>4. CASE Request(c).op \notin {"mset", "del"}
  <2>1. Parts(Request(c)) = 1
    BY <1>2, <1>4 DEF Parts, Arity, Reads
  <2>2. \A j \in DOMAIN part[c] : j \in 1..1
    BY <2>1, PartIs, Zenon
  <2>3. \A j \in DOMAIN part[c] : j = i
    BY <2>2
  <2>4. part[c][i].res.code = "tryagain"
    BY <1>1, <1>4, Zenon
  <2>5. "tryagain" \notin {"ok", "unknown"}
    OBVIOUS
  <2> QED BY <2>3, <2>4, <2>5, Zenon
<1> QED BY <1>3, <1>4, Zenon

(* The actions that settle a request *)
Settled(c, cn, result) ==
    /\ Settle(c, cn, result) /\ cn \in ConnType /\ result \in Results
    /\ cn.next = conn[c].next /\ conn[c].next <= Len(script[c]) /\ UNCHANGED <<script, now>>
    /\ cn.mode = IF Request(c).op = "reset" /\ result = "ok" THEN "on" ELSE conn[c].mode

LEMMA SettlingActions ==
    ASSUME ConnInv, PartInv, NEW c \in Conns,
           Refused(c) \/ RunLocal(c) \/ Finish(c) \/ Deadline(c)
    PROVE  \E cn, result : Settled(c, cn, result)
<1>1. /\ conn[c] \in ConnType /\ RequiresAuth \in BOOLEAN
      /\ conn[c].running => conn[c].next <= Len(script[c]) /\ Request(c).op \notin Local
  BY ConnIs, GatewayAssumption, Zenon DEF ConnInv
<1>2. CASE Refused(c)
  <2>1. /\ Settle(c, conn[c], "noauth") /\ conn[c].next <= Len(script[c])
        /\ UNCHANGED <<script, now>>
    BY <1>2, Zenon DEF Refused, Ready
  <2>2. "noauth" \in Results /\ "noauth" # "ok"
    BY DEF Results
  <2> QED BY <1>1, <2>1, <2>2, Zenon DEF Settled
<1>3. CASE RunLocal(c)
  <2> DEFINE op == Request(c).op
             cn == CASE op = "auth" -> [conn[c] EXCEPT !.auth = RequiresAuth \/ @]
                     [] op = "reset" -> [conn[c] EXCEPT !.auth = ~ RequiresAuth, !.mode = "on"]
                     [] OTHER -> conn[c]
             result == IF op = "auth" /\ ~ RequiresAuth THEN "err" ELSE "ok"
  <2>1. /\ Settle(c, cn, result) /\ conn[c].next <= Len(script[c]) /\ UNCHANGED <<script, now>>
    BY <1>3, Zenon DEF RunLocal, Ready
  <2>2. result \in Results /\ (op = "reset" => result = "ok")
    BY DEF Results
  <2>3. cn \in ConnType /\ cn.next = conn[c].next /\ cn.mode = IF op = "reset" THEN "on" ELSE conn[c].mode
    <3>1. CASE op = "auth"
      <4>1. (RequiresAuth \/ conn[c].auth) \in BOOLEAN
        BY Zenon
      <4> DEFINE a == RequiresAuth \/ conn[c].auth
      <4>2. cn = [conn[c] EXCEPT !.auth = a]
        BY <3>1, Zenon
      <4> HIDE DEF a, cn
      <4>3. cn \in ConnType /\ cn.next = conn[c].next /\ cn.mode = conn[c].mode
        BY <1>1, <4>1, <4>2 DEF ConnType, a
      <4> QED BY <3>1, <4>3
    <3>2. CASE op = "reset"
      <4>1. cn = [conn[c] EXCEPT !.auth = ~ RequiresAuth, !.mode = "on"]
        <5>1. op # "auth"
          BY <3>2
        <5> QED BY <3>2, <5>1
      <4>2. (~ RequiresAuth) \in BOOLEAN
        BY Zenon
      <4> DEFINE a == ~ RequiresAuth
      <4>3. cn = [conn[c] EXCEPT !.auth = a, !.mode = "on"]
        BY <4>1, Zenon
      <4> HIDE DEF a, cn
      <4>4. cn \in ConnType /\ cn.next = conn[c].next /\ cn.mode = "on"
        BY <1>1, <4>2, <4>3 DEF ConnType, a
      <4> QED BY <3>2, <4>4
    <3>3. CASE op # "auth" /\ op # "reset"
      <4>1. cn = conn[c]
        BY <3>3
      <4> QED BY <1>1, <3>3, <4>1, Zenon
    <3> QED BY <3>1, <3>2, <3>3, Zenon
  <2> HIDE DEF cn, result
  <2>4. cn.mode = IF op = "reset" /\ result = "ok" THEN "on" ELSE conn[c].mode
    BY <2>2, <2>3, Zenon
  <2> QED BY <2>1, <2>2, <2>3, <2>4, Zenon DEF Settled
<1>4. ASSUME conn[c].running PROVE conn[c].next <= Len(script[c]) /\ Request(c).op # "reset"
  BY <1>1, <1>4 DEF Local
<1>5. CASE Finish(c)
  <2>1. PICK result \in Results : Settle(c, conn[c], result)
    BY <1>5, Zenon DEF Finish
  <2>2. conn[c].running /\ UNCHANGED <<script, now>>
    BY <1>5, Zenon DEF Finish
  <2> QED BY <1>1, <1>4, <2>1, <2>2, Zenon DEF Settled
<1>6. CASE Deadline(c)
  <2> DEFINE result == IF Request(c).op \in Reads THEN "tryagain" ELSE "unknown"
  <2>1. Settle(c, conn[c], result) /\ conn[c].running /\ UNCHANGED <<script, now>>
    BY <1>6, Zenon DEF Deadline
  <2>2. result \in Results
    BY DEF Results
  <2> HIDE DEF result
  <2> QED BY <1>1, <1>4, <2>1, <2>2, Zenon DEF Settled
<1> QED BY <1>2, <1>3, <1>5, <1>6, Zenon

LEMMA RunIs ==
    ASSUME ConnInv, NEW c \in Conns, Run(c)
    PROVE  /\ conn' \in [Conns -> ConnType] /\ conn[c].next <= Len(script[c])
           /\ Request(c).op \notin Local /\ conn'[c].running
           /\ conn'[c].next = conn[c].next /\ conn'[c].mode = conn[c].mode
           /\ \A d \in Conns : d # c => conn'[d] = conn[d]
<1>1. conn[c] \in ConnType /\ conn \in [Conns -> ConnType]
  BY Zenon DEF ConnInv
<1> DEFINE new == [conn[c] EXCEPT !.running = TRUE]
<1>2. /\ conn[c].next <= Len(script[c]) /\ Request(c).op \notin Local
      /\ conn' = [conn EXCEPT ![c] = new]
  BY Zenon DEF Run, Ready
<1>3. new \in ConnType /\ new.running /\ new.next = conn[c].next /\ new.mode = conn[c].mode
  BY <1>1 DEF ConnType
<1> HIDE DEF new
<1> QED BY <1>1, <1>2, <1>3, Zenon

(* Every action either settles a request, or starts one, or leaves the connections. *)
LEMMA ConnStep ==
    ASSUME ConnInv, ReplyInv, PartInv, [Next]_vars
    PROVE  ConnInv' /\ ReplyInv'
<1>1. ASSUME NEW c \in Conns, Refused(c) \/ RunLocal(c) \/ Finish(c) \/ Deadline(c)
      PROVE  ConnInv' /\ ReplyInv'
  <2>1. PICK cn, result : Settled(c, cn, result)
    BY <1>1, SettlingActions, Zenon
  <2> QED BY <2>1, SettleReplies, Zenon DEF Settled
<1>2. ASSUME NEW c \in Conns, Run(c) PROVE ConnInv' /\ ReplyInv'
  <2>1. UNCHANGED <<script, answers, sent>> /\ now' \in 1..MaxNow
    BY <1>2, Zenon DEF Run, history, ConnInv
  <2>2. ASSUME NEW d \in Conns
        PROVE  /\ conn'[d].next = conn[d].next /\ conn'[d].mode = conn[d].mode
               /\ conn'[d].running => /\ conn[d].next <= Len(script[d])
                                      /\ Request(d).op \notin Local
    BY <1>2, RunIs, Zenon DEF ConnInv
  <2> QED BY <1>2, <2>1, <2>2, RunIs, ConnKept, Zenon
<1>3. ASSUME UNCHANGED <<script, conn, answers, sent>>, now' \in 1..MaxNow
      PROVE  ConnInv' /\ ReplyInv'
  BY <1>3, ConnKept, Zenon DEF ConnInv
<1>4. ASSUME UNCHANGED <<script, conn, answers, sent, now>> PROVE ConnInv' /\ ReplyInv'
  BY <1>3, <1>4, Zenon DEF ConnInv
<1>5. CASE \E c \in Conns : PartStep(c)
  <2>1. UNCHANGED <<script, conn, answers, sent, now>>
    <3>0. PICK c \in Conns : PartStep(c)
      BY <1>5, Zenon
    <3>1. PICK i \in DOMAIN part[c] :
             Lock(c, i) \/ Read(c, i) \/ WriteApplies(c, i) \/ WriteRejected(c, i)
      BY <3>0, Zenon DEF PartStep
    <3>2. CASE Lock(c, i)
      BY <3>2, Zenon DEF Lock, history
    <3>3. CASE Read(c, i)
      BY <3>3, Zenon DEF Read, history
    <3>4. CASE WriteApplies(c, i)
      BY <3>4, Zenon DEF WriteApplies
    <3>5. CASE WriteRejected(c, i)
      BY <3>5, Zenon DEF WriteRejected, history
    <3> QED BY <3>1, <3>2, <3>3, <3>4, <3>5, Zenon
  <2> QED BY <1>4, <2>1, Zenon
<1>6. CASE (\E g \in Gateways : Connect(g)) \/ (\E w \in late : LateWrite(w)) \/ UNCHANGED vars
  <2>1. UNCHANGED <<script, conn, answers, sent, now>>
    BY <1>6, Zenon DEF Connect, LateWrite, vars, history
  <2> QED BY <1>4, <2>1, Zenon
<1>7. CASE \E c \in Conns : \E i \in DOMAIN part[c] : CallFails(c, i)
  <2>1. UNCHANGED <<script, conn, answers, sent, now>>
    BY <1>7, Zenon DEF CallFails, history
  <2> QED BY <1>4, <2>1, Zenon
<1>8. CASE Tick
  <2>1. UNCHANGED <<script, conn, answers, sent>> /\ now < MaxNow /\ now' = now + 1
    BY <1>8, Zenon DEF Tick, history
  <2>2. now' \in 1..MaxNow
    BY <2>1, GatewayAssumption DEF ConnInv
  <2> QED BY <1>3, <2>1, <2>2, Zenon
<1>9. CASE \E c \in Conns : Refused(c) \/ RunLocal(c) \/ Run(c) \/ Finish(c) \/ Deadline(c)
  BY <1>1, <1>2, <1>9, Zenon
<1> QED BY <1>5, <1>6, <1>7, <1>8, <1>9, Zenon DEF Next, Work, Progress
-----------------------------------------------------------------------------
(* What commands decide. *)

LEMMA NoValueIs == IsValue(NoValue) /\ IsRecord(Missing) /\ Missing.live = FALSE
<1>1. /\ NoValue.int = FALSE /\ NoValue.by = <<>> /\ DOMAIN NoValue = {"int", "by"}
      /\ NoValue \in [int : BOOLEAN, by : Seq(Conns \X Nat)]
  BY DEF NoValue
<1>2. Len(NoValue.by) <= MaxValue
  BY <1>1, GatewayAssumption
<1>3. IsValue(NoValue)
  BY <1>1, <1>2, Zenon DEF IsValue
<1>4. /\ DOMAIN Missing = {"live", "val", "ttl", "ver"} /\ Missing.live = FALSE
      /\ Missing.val = NoValue /\ Missing.ttl \in Int /\ Missing.ver \in Nat \ {0}
  BY DEF Missing
<1> QED BY <1>3, <1>4, Zenon DEF IsRecord

(* A record that is not live reads as none, but for its version. *)
IsAbsent(r) == r.live = FALSE /\ r.val = NoValue /\ r.ttl = Never

LEMMA SeenIs ==
    ASSUME NEW r, IsRecord(r)
    PROVE  /\ IsRecord(Seen(r)) /\ Seen(r).ver = r.ver
           /\ Seen(r).live => Seen(r) = r
           /\ ~ Seen(r).live => IsAbsent(Seen(r)) /\ Seen(r) = [Missing EXCEPT !.ver = r.ver]
<1>1. CASE r.live /\ (r.ttl = Never \/ r.ttl > now)
  <2>1. Seen(r) = r
    BY <1>1, Zenon DEF Seen
  <2> QED BY <1>1, <2>1, Zenon
<1>2. CASE ~ (r.live /\ (r.ttl = Never \/ r.ttl > now))
  <2> DEFINE a == [Missing EXCEPT !.ver = r.ver]
  <2>1. Seen(r) = a
    BY <1>2, Zenon DEF Seen
  <2>2. r.ver \in Nat \ {0}
    BY Zenon DEF IsRecord
  <2>3. /\ DOMAIN a = {"live", "val", "ttl", "ver"} /\ a.live = FALSE /\ a.val = NoValue
        /\ a.ttl = Never /\ a.ttl \in Int /\ a.ver = r.ver
    BY DEF Missing, Never
  <2> HIDE DEF a
  <2>4. IsRecord(a) /\ IsAbsent(a)
    BY <2>2, <2>3, NoValueIs, Zenon DEF IsRecord, IsAbsent
  <2> QED BY <2>1, <2>3, <2>4, Zenon DEF a
<1> QED BY <1>1, <1>2, Zenon

LEMMA Decisions ==
    ASSUME NEW q, NEW by, NEW cur, q.op \in Updates
    PROVE  /\ q.op = "getdel" => Decide(q, by, cur) = GetDel(q, by, cur)
           /\ q.op = "getex" => Decide(q, by, cur) = GetEx(q, by, cur)
           /\ q.op = "set" => Decide(q, by, cur) = Set(q, by, cur)
           /\ q.op = "setnx" => Decide(q, by, cur) = SetNx(q, by, cur)
           /\ q.op = "getset" => Decide(q, by, cur) = GetSet(q, by, cur)
           /\ q.op = "append" => Decide(q, by, cur) = AppendTo(q, by, cur)
           /\ q.op = "incr" => Decide(q, by, cur) = IncrBy(q, by, cur)
           /\ q.op = "expire" => Decide(q, by, cur) = ExpireKey(q, by, cur)
           /\ q.op = "persist" => Decide(q, by, cur) = Persist(q, by, cur)
           /\ q.op = "del" => Decide(q, by, cur) = Del(q, by, cur)
BY DEF Decide

(* Commands see no difference between two keys that are not there. *)
LEMMA DecideAbsent ==
    ASSUME NEW q, NEW by, NEW cur, q.op \in Updates, IsAbsent(cur)
    PROVE  Decide(q, by, cur) = Decide(q, by, Missing)
<1>1. /\ cur.live = FALSE /\ cur.val = Missing.val /\ cur.ttl = Missing.ttl
      /\ Missing.live = FALSE
  BY DEF IsAbsent, Missing, Never
<1>2. Bulk(cur) = Bulk(Missing) /\ Kept(cur) = Kept(Missing)
  BY <1>1, Zenon DEF Bulk, Kept
<1>3. /\ GetDel(q, by, cur) = GetDel(q, by, Missing) /\ GetEx(q, by, cur) = GetEx(q, by, Missing)
      /\ SetNx(q, by, cur) = SetNx(q, by, Missing) /\ GetSet(q, by, cur) = GetSet(q, by, Missing)
      /\ ExpireKey(q, by, cur) = ExpireKey(q, by, Missing)
      /\ Persist(q, by, cur) = Persist(q, by, Missing) /\ Del(q, by, cur) = Del(q, by, Missing)
  BY <1>1, <1>2, Zenon DEF GetDel, GetEx, SetNx, GetSet, ExpireKey, Persist, Del
<1>4. AppendTo(q, by, cur) = AppendTo(q, by, Missing) /\ IncrBy(q, by, cur) = IncrBy(q, by, Missing)
  BY <1>1, <1>2, Zenon DEF AppendTo, IncrBy
<1>5. Set(q, by, cur) = Set(q, by, Missing)
  <2>1. SetAllows(q, cur) <=> SetAllows(q, Missing)
    BY <1>1 DEF SetAllows
  <2>2. SetDeadline(q, cur) = SetDeadline(q, Missing)
    BY <1>2, Zenon DEF SetDeadline
  <2> QED BY <1>2, <2>1, <2>2, Zenon DEF Set
<1>6. q.op \in {"getdel", "getex", "set", "setnx", "getset", "append", "incr", "expire", "persist", "del"}
  BY Zenon DEF Updates
<1> QED BY <1>3, <1>4, <1>5, <1>6, Decisions

(* A command changes, or removes, or refuses, and only lets expire what is there. *)
IsDecision(d, cur) ==
    /\ d.do \in {"put", "expire", "delete", "nothing", "fail"}
    /\ IsValue(d.val) /\ d.ttl \in Int /\ (d.do = "expire" => cur.live)

LEMMA DecisionForms ==
    ASSUME NEW cur, NEW val, NEW ttl, NEW reply
    PROVE  /\ IsDecision(Nothing(reply), cur) /\ IsDecision(Refuse, cur)
           /\ IsDecision(Delete(reply), cur)
           /\ IsValue(val) /\ ttl \in Int => IsDecision(Put(val, ttl, reply), cur)
           /\ cur.live /\ ttl \in Int => IsDecision(Expire(ttl, reply), cur)
<1>1. /\ Nothing(reply).do = "nothing" /\ Nothing(reply).val = NoValue /\ Nothing(reply).ttl \in Int
      /\ Refuse.do = "fail" /\ Refuse.val = NoValue /\ Refuse.ttl \in Int
      /\ Delete(reply).do = "delete" /\ Delete(reply).val = NoValue /\ Delete(reply).ttl \in Int
      /\ Put(val, ttl, reply).do = "put" /\ Put(val, ttl, reply).val = val
      /\ Put(val, ttl, reply).ttl = ttl
      /\ Expire(ttl, reply).do = "expire" /\ Expire(ttl, reply).val = NoValue
      /\ Expire(ttl, reply).ttl = ttl
  BY DEF Nothing, Refuse, Delete, Put, Expire, Never
<1> HIDE DEF Nothing, Refuse, Delete, Put, Expire
<1>2. "nothing" # "expire" /\ "fail" # "expire" /\ "delete" # "expire" /\ "put" # "expire"
  OBVIOUS
<1> QED BY <1>1, <1>2, NoValueIs, Zenon DEF IsDecision

LEMMA FreshIs ==
    ASSUME NEW q \in Requests, NEW by \in Conns \X Nat
    PROVE  IsValue(Fresh(q, by)) /\ q.ttl \in Int
<1>0. q.int \in BOOLEAN /\ q.ttl \in Int
  BY DEF Requests, Keep
<1>1. <<by>> \in Seq(Conns \X Nat) /\ Len(<<by>>) = 1
  OBVIOUS
<1>2. 1 <= MaxValue
  BY GatewayAssumption
<1>3. \A b : [int |-> q.int, by |-> b].by = b
  BY Zenon
<1>4. Fresh(q, by) \in [int : BOOLEAN, by : Seq(Conns \X Nat)]
  BY <1>0, <1>1, Zenon DEF Fresh
<1>5. Len(Fresh(q, by).by) = 1
  BY <1>1, <1>3, Zenon DEF Fresh
<1> QED BY <1>0, <1>2, <1>4, <1>5, Zenon DEF IsValue

LEMMA DecideType ==
    ASSUME NEW q \in Requests, q.op \in Updates, NEW by \in Conns \X Nat,
           NEW cur, IsRecord(cur)
    PROVE  IsDecision(Decide(q, by, cur), cur)
<1> DEFINE Good(d) == IsDecision(d, cur)
<1>1. /\ \A reply : Good(Nothing(reply)) /\ Good(Delete(reply)) /\ Good(Refuse)
      /\ \A val, ttl, reply : IsValue(val) /\ ttl \in Int => Good(Put(val, ttl, reply))
      /\ \A ttl, reply : cur.live /\ ttl \in Int => Good(Expire(ttl, reply))
  BY DecisionForms, Zenon
<1> HIDE DEF Good
<1>2. q.int \in BOOLEAN /\ q.ttl \in Int /\ cur.ttl \in Int /\ Never \in Int
  BY DEF Requests, Keep, IsRecord, Never
<1>3. Kept(cur) \in Int /\ SetDeadline(q, cur) \in Int
  BY <1>2, Zenon DEF Kept, SetDeadline
<1>4. IsValue(Fresh(q, by))
  BY FreshIs, Zenon
<1>5. ASSUME NEW int \in BOOLEAN, ~ (Len(Append(cur.val.by, by)) > MaxValue)
      PROVE  IsValue([int |-> int, by |-> Append(cur.val.by, by)])
  <2> DEFINE b == Append(cur.val.by, by)
  <2>1. cur.val.by \in Seq(Conns \X Nat)
    <3>1. cur.val \in [int : BOOLEAN, by : Seq(Conns \X Nat)]
      BY Zenon DEF IsRecord, IsValue
    <3> QED BY <3>1
  <2>2. b \in Seq(Conns \X Nat) /\ Len(b) \in Nat
    BY <2>1
  <2>3. Len(b) <= MaxValue
    <3>1. ~ (Len(b) > MaxValue)
      BY <1>5, Zenon
    <3> HIDE DEF b
    <3> QED BY <2>2, <3>1, GatewayAssumption
  <2> HIDE DEF b
  <2>4. [int |-> int, by |-> b].by = b
    BY Zenon
  <2>5. IsValue([int |-> int, by |-> b])
    BY <2>2, <2>3, <2>4, Zenon DEF IsValue
  <2> QED BY <2>5, Zenon DEF b
<1>6. Good(GetDel(q, by, cur)) /\ Good(GetEx(q, by, cur)) /\ Good(Del(q, by, cur))
  BY <1>1, <1>2, Zenon DEF GetDel, GetEx, Del
<1>7. Good(Set(q, by, cur)) /\ Good(SetNx(q, by, cur)) /\ Good(GetSet(q, by, cur))
  BY <1>1, <1>2, <1>3, <1>4, Zenon DEF Set, SetNx, GetSet
<1>8. Good(AppendTo(q, by, cur)) /\ Good(IncrBy(q, by, cur))
  BY <1>1, <1>3, <1>5, Zenon DEF AppendTo, IncrBy
<1>9. Good(ExpireKey(q, by, cur)) /\ Good(Persist(q, by, cur))
  BY <1>1, <1>2, Zenon DEF ExpireKey, Persist
<1>10. q.op \in {"getdel", "getex", "set", "setnx", "getset", "append", "incr", "expire", "persist", "del"}
  BY Zenon DEF Updates
<1>11. Good(Decide(q, by, cur))
  BY <1>6, <1>7, <1>8, <1>9, <1>10, Decisions
<1> QED BY <1>11, Zenon DEF Good

(* As time passes, a decision changes only from setting a deadline to deleting what is
   past it. *)
LEMMA DecideLater ==
    ASSUME NEW q, q.op \in Updates, NEW by, NEW cur, NEW change,
           now \in Nat \ {0}, now' \in {now, now + 1}, q.ttl \in Int, change.ttl \in Int,
           Agrees(change, Decide(q, by, cur))
    PROVE  Agrees(change, Decide(q, by, cur))'
<1>1. PICK d : d = Decide(q, by, cur)
  BY Zenon
<1>2. change = d \/ (change.do = "expire" /\ change.ttl # Never /\ change.ttl <= now /\ d = Delete(change.reply))
  BY <1>1, Zenon DEF Agrees
<1>3. Agrees(change, d)'
  <2>1. change = d \/ (change.do = "expire" /\ change.ttl # Never /\ change.ttl <= now' /\ d = Delete(change.reply))
    <3>1. ASSUME change # d PROVE change.ttl <= now'
      <4>1. change.ttl <= now
        BY <1>2, <3>1, Zenon
      <4> QED BY <4>1
    <3> QED BY <1>2, <3>1, Zenon
  <2> QED BY <2>1, Zenon DEF Agrees, Delete, Never
<1>4. CASE q.op # "expire"
  <2>1. Decide(q, by, cur)' = Decide(q, by, cur)
    BY <1>4 DEF Decide, Updates
  <2> QED BY <1>1, <1>3, <2>1, Zenon DEF Agrees
<1>5. CASE q.op = "expire"
  <2>1. /\ d = ExpireKey(q, by, cur) /\ Decide(q, by, cur)' = ExpireKey(q, by, cur)'
    BY <1>1, <1>5 DEF Decide
  <2>2. CASE ExpireKey(q, by, cur)' = d
    BY <1>3, <2>1, <2>2, Zenon DEF Agrees
  <2>3. CASE ExpireKey(q, by, cur)' # d
    <3>1. /\ d = Expire(q.ttl, Number(1)) /\ q.ttl > now
          /\ ExpireKey(q, by, cur)' = Delete(Number(1)) /\ ~ (q.ttl > now')
      <4>1. CASE ~ cur.live \/ ~ GuardAllows(q, cur)
        BY <2>1, <2>3, <4>1 DEF ExpireKey
      <4>2. CASE ~ (~ cur.live \/ ~ GuardAllows(q, cur))
        <5>1. /\ d = IF q.ttl > now THEN Expire(q.ttl, Number(1)) ELSE Delete(Number(1))
              /\ ExpireKey(q, by, cur)' =
                    IF q.ttl > now' THEN Expire(q.ttl, Number(1)) ELSE Delete(Number(1))
          BY <2>1, <4>2 DEF ExpireKey
        <5>2. q.ttl > now' => q.ttl > now
          OBVIOUS
        <5> QED BY <2>3, <5>1, <5>2
      <4> QED BY <4>1, <4>2, Zenon
    <3>2. d.do = "expire" /\ d.ttl = q.ttl /\ d.reply = Number(1)
      BY <3>1 DEF Expire
    <3>3. change = d
      <4>1. Delete(change.reply).do = "delete"
        BY DEF Delete
      <4> QED BY <1>2, <3>2, <4>1
    <3>4. change.ttl # Never /\ change.ttl <= now'
      BY <3>1, <3>2, <3>3 DEF Never
    <3> QED BY <2>1, <3>1, <3>2, <3>3, <3>4 DEF Agrees
  <2> QED BY <2>2, <2>3, Zenon
<1> QED BY <1>4, <1>5, Zenon
-----------------------------------------------------------------------------
(* Writes that are pending, or that nobody waits for. *)

LEMMA WayIs ==
    ASSUME NEW q \in Requests, q.op \notin Local
    PROVE  /\ Way(q) \in {"read", "put", "absent", "rename", "update"}
           /\ Way(q) = "read" <=> q.op \in Reads
           /\ Way(q) = "rename" <=> q.op \in Renames
           /\ Way(q) = "absent" <=> q.op = "msetnx"
           /\ Way(q) = "update" => q.op \in Updates
<1>1. q.op \in Reads \cup Renames \cup Updates \cup {"mset", "msetnx"}
  BY DEF Requests, Ops
<1>2. CASE q.op \in Reads
  <2>1. Way(q) = "read" /\ q.op \notin Renames /\ q.op # "msetnx"
    BY <1>2 DEF Way, Reads, Renames
  <2> QED BY <1>2, <2>1
<1>3. CASE q.op \in Renames
  <2>1. Way(q) = "rename" /\ q.op \notin Reads /\ q.op # "msetnx"
    BY <1>3 DEF Way, Reads, Renames
  <2> QED BY <1>3, <2>1
<1>4. CASE q.op = "msetnx"
  <2>1. Way(q) = "absent" /\ q.op \notin Reads /\ q.op \notin Renames
    BY <1>4 DEF Way, Reads, Renames
  <2> QED BY <1>4, <2>1
<1>5. CASE q.op = "mset"
  <2>1. Way(q) = "put" /\ q.op \notin Reads /\ q.op \notin Renames
    BY <1>5 DEF Way, Reads, Renames
  <2> QED BY <1>5, <2>1
<1>6. CASE q.op \in Updates
  <2>1. Way(q) \in {"put", "update"} /\ q.op \notin Reads /\ q.op \notin Renames /\ q.op # "msetnx"
    BY <1>6 DEF Way, Reads, Renames, Updates
  <2> QED BY <1>6, <2>1
<1> QED BY <1>1, <1>2, <1>3, <1>4, <1>5, <1>6, Zenon

LEMMA WriteRequest ==
    ASSUME ConnInv, NEW w, IsCommand(w.cmd)
    PROVE  /\ w.cmd \in Conns \X Nat /\ RequestOf(w) \in Requests /\ Arity(RequestOf(w))
           /\ RequestOf(w).ttl \in Int
<1>1. PICK c \in Conns : \E n \in DOMAIN script[c] : w.cmd = <<c, n>>
  BY Zenon DEF IsCommand
<1>2. PICK n \in DOMAIN script[c] : w.cmd = <<c, n>>
  BY <1>1, Zenon
<1>3. n \in Nat /\ script[c][n] \in Requests /\ Arity(script[c][n])
  BY ScriptIs
<1>4. RequestOf(w) = script[c][n] /\ w.cmd \in Conns \X Nat
  BY <1>2, <1>3 DEF RequestOf
<1>5. script[c][n].ttl \in Int
  BY <1>3 DEF Requests, Keep
<1> QED BY <1>3, <1>4, <1>5, Zenon

(* Time goes on, or a record gets a new version. *)
Passes ==
    /\ script' = script /\ now' \in {now, now + 1}
    /\ \A k \in Keys : IsRecord(rec[k]) /\ (rec'[k] = rec[k] \/ rec'[k].ver = rec[k].ver + 1)

LEMMA HeldStays ==
    ASSUME Passes, NEW k \in Keys, NEW ver, NEW val, Held(k, ver, val)
    PROVE  Held(k, ver, val)'
<1>1. PICK r, s : r = rec[k] /\ s = rec'[k]
  BY Zenon
<1>2. r.ver \in Nat \ {0} /\ ver \in 1..r.ver /\ (r.ver = ver => r.val = val)
  BY <1>1, Zenon DEF Passes, IsRecord, Held
<1>3. CASE s = r
  BY <1>1, <1>2, <1>3, Zenon DEF Held
<1>4. CASE s.ver = r.ver + 1
  <2>1. ver \in 1..s.ver /\ s.ver # ver
    BY <1>2, <1>4
  <2> QED BY <1>1, <2>1, Zenon DEF Held
<1> QED BY <1>1, <1>3, <1>4, Zenon DEF Passes

LEMMA DecidedStays ==
    ASSUME ConnInv, Passes, NEW w, w.key \in Keys, IsCommand(w.cmd), w.change.ttl \in Int,
           RequestOf(w).op \in Updates, Decided(w)
    PROVE  Decided(w)'
<1>1. PICK q, k, r, s : q = RequestOf(w) /\ k = w.key /\ r = rec[k] /\ s = rec'[k]
  BY Zenon
<1>2. /\ q.op \in Updates /\ q.ttl \in Int /\ RequestOf(w)' = q /\ k \in Keys
      /\ now \in Nat \ {0} /\ now' \in {now, now + 1} /\ IsRecord(r)
      /\ s = r \/ s.ver = r.ver + 1
  <2>1. now \in Nat \ {0}
    BY GatewayAssumption DEF ConnInv
  <2>2. RequestOf(w)' = RequestOf(w)
    BY Zenon DEF Passes, RequestOf
  <2> QED BY <1>1, <2>1, <2>2, WriteRequest, Zenon DEF Passes
<1>3. CASE w.expect = IfAbsent /\ Agrees(w.change, Decide(q, w.cmd, Missing))
  <2>1. PICK m : m = Missing
    BY Zenon
  <2>2. Agrees(w.change, Decide(q, w.cmd, m))'
    BY <1>2, <1>3, <2>1, DecideLater, Zenon
  <2> QED BY <1>2, <1>3, <2>1, <2>2 DEF Decided, IfAbsent, Missing
<1>4. CASE /\ w.expect \in 1..r.ver
           /\ w.expect = r.ver /\ Seen(r).live => Agrees(w.change, Decide(q, w.cmd, Seen(r)))
  <2>1. r.ver \in Nat \ {0} /\ r.ttl \in Int
    BY <1>2, ZenonT(30) DEF IsRecord
  <2>2. CASE s = r
    <3>1. ASSUME w.expect = s.ver, Seen(s)'.live PROVE Agrees(w.change, Decide(q, w.cmd, Seen(s)))'
      <4>1. r.live /\ (r.ttl = Never \/ r.ttl > now')
        BY <2>2, <3>1 DEF Seen, Missing
      <4>2. r.ttl = Never \/ r.ttl > now
        BY <1>2, <2>1, <4>1
      <4>3. Seen(r) = r /\ Seen(s)' = r
        BY <2>2, <4>1, <4>2, Zenon DEF Seen
      <4>4. Agrees(w.change, Decide(q, w.cmd, r))
        BY <1>4, <2>2, <3>1, <4>1, <4>3, Zenon
      <4>5. Agrees(w.change, Decide(q, w.cmd, r))'
        BY <1>2, <4>4, DecideLater, Zenon
      <4> QED BY <4>3, <4>5
    <3>2. View(w.key)' = Seen(s)'
      BY <1>1, Zenon DEF View, Seen
    <3> QED BY <1>1, <1>2, <1>4, <2>2, <3>1, <3>2 DEF Decided
  <2>3. CASE s.ver = r.ver + 1
    <3>1. w.expect \in 1..s.ver /\ w.expect # s.ver
      BY <1>4, <2>1, <2>3
    <3> QED BY <1>1, <3>1, Zenon DEF Decided
  <2> QED BY <1>2, <2>2, <2>3, Zenon
<1>5. View(w.key) = Seen(r)
  BY <1>1, Zenon DEF View
<1> QED BY <1>1, <1>3, <1>4, <1>5, Zenon DEF Decided

(* What is pending stays right while others write and time passes. *)
LEMMA WriteStays ==
    ASSUME ConnInv, Passes, NEW w, WriteOK(w)
    PROVE  WriteOK(w)'
<1>1. /\ w.key \in Keys /\ IsCommand(w.cmd) /\ RequestOf(w).op \notin Local \cup Reads
      /\ w.change.do \in {"put", "expire", "delete"}
      /\ IsValue(w.change.val) /\ w.change.ttl \in Int
      /\ IF Way(RequestOf(w)) = "update" THEN Decided(w) ELSE w.change.do # "expire"
      /\ w.copied # NoValue => Held(w.key, w.expect, w.copied)
  BY Zenon DEF WriteOK
<1>2. RequestOf(w)' = RequestOf(w) /\ IsCommand(w.cmd)'
  BY <1>1, Zenon DEF Passes, RequestOf, IsCommand
<1>3. Way(RequestOf(w)) = "update" => Decided(w)'
  <2>1. Way(RequestOf(w)) = "update" => RequestOf(w).op \in Updates
    BY <1>1, WriteRequest, WayIs, Zenon
  <2> QED BY <1>1, <2>1, DecidedStays, Zenon
<1>4. w.copied # NoValue => Held(w.key, w.expect, w.copied)'
  BY <1>1, HeldStays, Zenon
<1>5. PICK q : q = RequestOf(w) /\ q = RequestOf(w)'
  BY <1>2, Zenon
<1> QED BY <1>1, <1>2, <1>3, <1>4, <1>5 DEF WriteOK, IsValue, NoValue, Local, Reads
-----------------------------------------------------------------------------
(* A write that takes effect. *)

LEMMA ChangedIs ==
    ASSUME NEW r, IsRecord(r), NEW change, change.do \in {"put", "expire", "delete"},
           IsValue(change.val), change.ttl \in Int
    PROVE  IsRecord(Changed(r, change)) /\ Changed(r, change).ver = r.ver + 1
<1>1. /\ DOMAIN r = {"live", "val", "ttl", "ver"} /\ r.live \in BOOLEAN /\ IsValue(r.val)
      /\ r.ttl \in Int /\ r.ver \in Nat \ {0} /\ r.ver + 1 \in Nat \ {0}
  <2>1. r.ver \in Nat \ {0}
    BY Zenon DEF IsRecord
  <2>2. r.ver + 1 \in Nat \ {0}
    BY <2>1
  <2> QED BY <2>1, <2>2, Zenon DEF IsRecord
<1>2. CASE change.do = "put"
  <2> DEFINE t == IF change.ttl = Keep THEN Seen(r).ttl ELSE change.ttl
             s == [live |-> TRUE, val |-> change.val, ver |-> r.ver + 1, ttl |-> t]
  <2>1. Changed(r, change) = s
    BY <1>2 DEF Changed
  <2>2. t \in Int
    BY SeenIs, Zenon DEF IsRecord
  <2> HIDE DEF t
  <2>3. /\ DOMAIN s = {"live", "val", "ttl", "ver"} /\ s.live = TRUE /\ s.val = change.val
        /\ s.ttl = t /\ s.ver = r.ver + 1
    OBVIOUS
  <2> HIDE DEF s
  <2> QED BY <1>1, <2>1, <2>2, <2>3, Zenon DEF IsRecord
<1>3. CASE change.do = "expire"
  <2> DEFINE s == [r EXCEPT !.ttl = change.ttl, !.ver = @ + 1]
  <2>1. Changed(r, change) = s
    BY <1>3 DEF Changed
  <2>2. /\ DOMAIN s = {"live", "val", "ttl", "ver"} /\ s.live = r.live /\ s.val = r.val
        /\ s.ttl = change.ttl /\ s.ver = r.ver + 1
    BY <1>1
  <2> HIDE DEF s
  <2> QED BY <1>1, <2>1, <2>2, Zenon DEF IsRecord
<1>4. CASE change.do = "delete"
  <2> DEFINE s == [Missing EXCEPT !.ver = r.ver + 1]
  <2>1. Changed(r, change) = s
    BY <1>4 DEF Changed
  <2>2. /\ DOMAIN s = {"live", "val", "ttl", "ver"} /\ s.live = Missing.live
        /\ s.val = Missing.val /\ s.ttl = Missing.ttl /\ s.ver = r.ver + 1
    BY DEF Missing
  <2> HIDE DEF s
  <2> QED BY <1>1, <2>1, <2>2, NoValueIs, Zenon DEF IsRecord
<1> QED BY <1>2, <1>3, <1>4, Zenon

(* Records that look the same look the same after the same change. *)
LEMMA SameChange ==
    ASSUME NEW r, IsRecord(r), NEW s, IsRecord(s), Seen(r) = Seen(s),
           NEW change, change.do \in {"put", "expire", "delete"},
           change.do = "expire" => Seen(r).live
    PROVE  Changed(r, change) = Changed(s, change)
<1>1. r.ver = s.ver
  BY SeenIs, Zenon
<1>2. CASE change.do = "put"
  BY <1>1, <1>2 DEF Changed
<1>3. CASE change.do = "expire"
  BY <1>3, SeenIs, Zenon
<1>4. CASE change.do = "delete"
  BY <1>1, <1>4 DEF Changed
<1> QED BY <1>2, <1>3, <1>4, Zenon

(* A deadline that has passed is a delete. *)
LEMMA ExpiryDeletes ==
    ASSUME NEW r, IsRecord(r), NEW change, change.do = "expire", IsValue(change.val),
           change.ttl \in Int, change.ttl # Never, change.ttl <= now, now \in Int, NEW d, d.do = "delete",
           IsValue(d.val), d.ttl \in Int
    PROVE  Seen(Changed(r, change)) = Seen(Changed(r, d))
<1>1. PICK x, y : x = Changed(r, change) /\ y = Changed(r, d)
  BY Zenon
<1>2. IsRecord(x) /\ IsRecord(y) /\ x.ver = y.ver
  <2>1. IsRecord(x) /\ x.ver = r.ver + 1
    BY <1>1, ChangedIs
  <2>2. IsRecord(y) /\ y.ver = r.ver + 1
    BY <1>1, ChangedIs
  <2> QED BY <2>1, <2>2, Zenon
<1>3. x.ttl = change.ttl
  <2>1. x = [r EXCEPT !.ttl = change.ttl, !.ver = @ + 1]
    BY <1>1 DEF Changed
  <2> QED BY <2>1 DEF IsRecord
<1>4. y.live = FALSE
  <2>1. y = [Missing EXCEPT !.ver = r.ver + 1]
    BY <1>1 DEF Changed
  <2> QED BY <2>1 DEF Missing
<1>5. ~ (x.ttl > now)
  BY <1>3
<1>6. Seen(x) = [Missing EXCEPT !.ver = x.ver]
  BY <1>3, <1>5, Zenon DEF Seen
<1>7. Seen(y) = [Missing EXCEPT !.ver = y.ver]
  BY <1>4, Zenon DEF Seen
<1> QED BY <1>1, <1>2, <1>6, <1>7, Zenon

(* A write whose precondition holds is what its command decides now. *)
LEMMA HoldsDecided ==
    ASSUME ConnInv, RecordInv, NEW w, WriteOK(w), Holds(w), Way(RequestOf(w)) = "update"
    PROVE  Agrees(w.change, Decide(RequestOf(w), w.cmd, View(w.key)))
<1>1. PICK q, k, r : q = RequestOf(w) /\ k = w.key /\ r = rec[k]
  BY Zenon
<1>2. k \in Keys /\ IsRecord(r) /\ View(k) = Seen(r) /\ q.op \in Updates /\ Decided(w)
  BY <1>1, WriteRequest, WayIs, Zenon DEF WriteOK, RecordInv, View
<1>3. r.ver \in Nat \ {0} /\ Seen(r).ver = r.ver
  BY <1>2, SeenIs, Zenon DEF IsRecord
<1>4. CASE w.expect = IfAbsent /\ Agrees(w.change, Decide(q, w.cmd, Missing))
  <2>1. ~ Seen(r).live
    BY <1>1, <1>2, <1>3, <1>4 DEF Holds, AnyVersion, IfAbsent
  <2>2. Decide(q, w.cmd, Seen(r)) = Decide(q, w.cmd, Missing)
    BY <1>2, <2>1, SeenIs, DecideAbsent, Zenon
  <2> QED BY <1>1, <1>2, <1>4, <2>2, Zenon
<1>5. CASE /\ w.expect \in 1..r.ver
           /\ w.expect = r.ver /\ View(k).live => Agrees(w.change, Decide(q, w.cmd, View(k)))
  <2>1. View(k).live /\ w.expect = r.ver
    BY <1>1, <1>2, <1>3, <1>5 DEF Holds, AnyVersion, IfAbsent
  <2> QED BY <1>1, <1>5, <2>1, Zenon
<1> QED BY <1>1, <1>2, <1>4, <1>5, Zenon DEF Decided
IdealAfter(w) ==
    IF Ideal(w).do \in {"nothing", "fail"} THEN ideal[w.key] ELSE Changed(ideal[w.key], Ideal(w))

(* It leaves the key as the command would have left it had it run now, and answers so. *)
LEMMA EffectIsIdeal ==
    ASSUME ConnInv, RecordInv, NEW w, WriteOK(w), Holds(w)
    PROVE  /\ IsRecord(IdealAfter(w)) /\ Ideal(w).reply = w.change.reply
           /\ Seen(Changed(rec[w.key], w.change)) = Seen(IdealAfter(w))
<1>1. PICK q, k, r, s : q = RequestOf(w) /\ k = w.key /\ r = rec[k] /\ s = ideal[k]
  BY Zenon
<1>2. PICK d : d = Ideal(w)
  BY Zenon
<1>3. /\ k \in Keys /\ IsRecord(r) /\ IsRecord(s) /\ Seen(r) = Seen(s) /\ View(k) = Seen(r)
      /\ q \in Requests /\ q.op \notin Local /\ w.cmd \in Conns \X Nat
      /\ w.change.do \in {"put", "expire", "delete"}
      /\ IsValue(w.change.val) /\ w.change.ttl \in Int
      /\ Way(q) # "update" => w.change.do # "expire"
  BY <1>1, WriteRequest, Zenon DEF WriteOK, RecordInv, View
<1>4. "delete" \in {"put", "expire", "delete"} /\ "delete" \notin {"nothing", "fail"}
      /\ "delete" # "expire" /\ \A x \in {"put", "expire", "delete"} : x \notin {"nothing", "fail"}
  OBVIOUS
<1>5. ASSUME d = w.change, d.do = "expire" => Seen(r).live
      PROVE  /\ IsRecord(IdealAfter(w)) /\ Ideal(w).reply = w.change.reply
             /\ Seen(Changed(r, w.change)) = Seen(IdealAfter(w))
  <2>1. IdealAfter(w) = Changed(s, d)
    BY <1>1, <1>2, <1>3, <1>4, <1>5, Zenon DEF IdealAfter
  <2>2. IsRecord(Changed(s, d))
    BY <1>3, <1>5, ChangedIs
  <2>3. Changed(r, d) = Changed(s, d)
    BY <1>3, <1>5, SameChange
  <2> QED BY <1>2, <1>5, <2>1, <2>2, <2>3, Zenon
<1>6. CASE Way(q) # "update"
  <2>1. d = w.change
    BY <1>1, <1>2, <1>6, Zenon DEF Ideal
  <2> QED BY <1>1, <1>3, <1>5, <1>6, <2>1, Zenon
<1>7. CASE Way(q) = "update"
  <2>1. d = Decide(q, w.cmd, Seen(r)) /\ q.op \in Updates
    BY <1>1, <1>2, <1>3, <1>7, WayIs, Zenon DEF Ideal
  <2>2. Agrees(w.change, d)
    BY <1>1, <1>3, <1>7, <2>1, HoldsDecided, Zenon
  <2>3. IsDecision(d, Seen(r))
    BY <1>3, <2>1, DecideType, SeenIs, Zenon
  <2>4. CASE w.change = d
    BY <1>1, <1>5, <2>3, <2>4, Zenon DEF IsDecision
  <2>5. CASE /\ w.change.do = "expire" /\ w.change.ttl # Never /\ w.change.ttl <= now
             /\ d = Delete(w.change.reply)
    <3>1. d.do = "delete" /\ d.reply = w.change.reply
      BY <2>5 DEF Delete
    <3>2. IsValue(d.val) /\ d.ttl \in Int /\ now \in Int
      <4>1. now \in Int
        BY GatewayAssumption DEF ConnInv
      <4> QED BY <2>3, <4>1, Zenon DEF IsDecision
    <3>3. IdealAfter(w) = Changed(s, d)
      BY <1>1, <1>2, <1>4, <3>1, Zenon DEF IdealAfter
    <3>4. IsRecord(Changed(s, d))
      BY <1>3, <3>1, <3>2, ChangedIs
    <3>5. Changed(r, d) = Changed(s, d)
      BY <1>3, <3>1, SameChange
    <3>6. Seen(Changed(r, w.change)) = Seen(Changed(r, d))
      BY <1>3, <2>5, <3>1, <3>2, ExpiryDeletes
    <3> QED BY <1>1, <1>2, <3>1, <3>3, <3>4, <3>5, <3>6, Zenon
  <2> QED BY <2>2, <2>4, <2>5, Zenon DEF Agrees
<1> QED BY <1>6, <1>7, Zenon

(* The delete of a RENAME finds what was copied, or nothing. *)
LEMMA LosesNothing ==
    ASSUME RecordInv, NEW w, WriteOK(w), Holds(w), w.copied # NoValue, View(w.key).live
    PROVE  View(w.key).val = w.copied
<1>1. PICK r : r = rec[w.key]
  BY Zenon
<1>2. IsRecord(r) /\ View(w.key) = Seen(r) /\ Held(w.key, w.expect, w.copied)
  BY <1>1, Zenon DEF WriteOK, RecordInv, View
<1>3. Seen(r) = r /\ r.ver \in Nat \ {0}
  BY <1>2, SeenIs, Zenon DEF IsRecord
<1>4. w.expect \in 1..r.ver /\ (r.ver = w.expect => r.val = w.copied)
  BY <1>1, <1>2, Zenon DEF Held
<1>5. r.ver = w.expect
  BY <1>2, <1>3, <1>4 DEF Holds, AnyVersion, IfAbsent
<1> QED BY <1>2, <1>3, <1>4, <1>5, Zenon

(* What is in the records, without the writes that are late *)
RecordsOK ==
    /\ DOMAIN rec = Keys /\ DOMAIN ideal = Keys /\ lost = {}
    /\ \A k \in Keys : IsRecord(rec[k]) /\ IsRecord(ideal[k]) /\ Seen(rec[k]) = Seen(ideal[k])

LEMMA EffectIs ==
    ASSUME ConnInv, RecordInv, NEW w, WriteOK(w), Holds(w), TakeEffect(w),
           UNCHANGED <<script, now>>
    PROVE  RecordsOK' /\ Passes /\ wrote' = wrote \cup {w.cmd}
<1>1. PICK k, r, s : /\ k = w.key /\ r = Changed(rec[w.key], w.change)
                     /\ s = IdealAfter(w)
  BY Zenon
<1>2. k \in Keys /\ IsRecord(r) /\ r.ver = rec[k].ver + 1
  <2>1. /\ k \in Keys /\ IsRecord(rec[k]) /\ w.change.do \in {"put", "expire", "delete"}
        /\ IsValue(w.change.val) /\ w.change.ttl \in Int
    BY <1>1, Zenon DEF WriteOK, RecordInv
  <2> QED BY <1>1, <2>1, ChangedIs
<1>3. IsRecord(s) /\ Seen(r) = Seen(s)
  BY <1>1, EffectIsIdeal, Zenon
<1>4. /\ rec' = [rec EXCEPT ![k] = r] /\ ideal' = [ideal EXCEPT ![k] = s]
      /\ wrote' = wrote \cup {w.cmd}
  BY <1>1 DEF TakeEffect, IdealAfter
<1>5. lost' = {}
  BY LosesNothing, Zenon DEF TakeEffect, RecordInv
<1>6. DOMAIN rec' = Keys /\ DOMAIN ideal' = Keys
  BY <1>4, Zenon DEF RecordInv
<1>7. ASSUME NEW j \in Keys
      PROVE  /\ IsRecord(rec'[j]) /\ IsRecord(ideal'[j]) /\ Seen(rec'[j]) = Seen(ideal'[j])
             /\ rec'[j] = rec[j] \/ rec'[j].ver = rec[j].ver + 1
  <2>1. CASE j = k
    <3>1. rec'[j] = r /\ ideal'[j] = s
      BY <1>4, <2>1, Zenon DEF RecordInv
    <3> QED BY <1>2, <1>3, <2>1, <3>1, Zenon
  <2>2. CASE j # k
    <3>1. rec'[j] = rec[j] /\ ideal'[j] = ideal[j]
      BY <1>4, <2>2, Zenon DEF RecordInv
    <3> QED BY <3>1, Zenon DEF RecordInv
  <2> QED BY <2>1, <2>2, Zenon
<1>8. ASSUME NEW j \in Keys
      PROVE  IsRecord(rec[j])' /\ IsRecord(ideal[j])' /\ Seen(rec[j])' = Seen(ideal[j])'
  BY <1>7, Zenon DEF IsRecord, IsValue, Seen, Missing, NoValue, Never
<1>9. RecordsOK'
  BY <1>5, <1>6, <1>8, Zenon DEF RecordsOK
<1> QED BY <1>4, <1>7, <1>9, Zenon DEF Passes, RecordInv
-----------------------------------------------------------------------------
(* The parts of a command. *)

LEMMA SeenLater ==
    ASSUME NEW r, IsRecord(r), NEW s, IsRecord(s), Seen(r) = Seen(s),
           now \in Nat, now' \in {now, now + 1}
    PROVE  Seen(r)' = Seen(s)'
<1>1. ASSUME NEW x, IsRecord(x), ~ (x.live /\ (x.ttl = Never \/ x.ttl > now))
      PROVE  Seen(x)' = [Missing EXCEPT !.ver = x.ver]
  <2>1. ~ (x.live /\ (x.ttl = Never \/ x.ttl > now'))
    BY <1>1 DEF IsRecord
  <2> QED BY <2>1, Zenon DEF Seen, Missing, NoValue, Never
<1>2. r.ver = s.ver
  BY SeenIs, Zenon
<1>3. CASE Seen(r).live
  <2>1. r = s
    BY <1>3, SeenIs, Zenon
  <2> QED BY <2>1
<1>4. CASE ~ Seen(r).live
  <2>1. /\ ~ (r.live /\ (r.ttl = Never \/ r.ttl > now))
        /\ ~ (s.live /\ (s.ttl = Never \/ s.ttl > now))
    BY <1>4, Zenon DEF Seen
  <2> QED BY <1>1, <1>2, <2>1, Zenon
<1> QED BY <1>3, <1>4, Zenon

LEMMA RecordsStay ==
    ASSUME ConnInv, RecordInv, UNCHANGED <<script, rec, ideal, lost>>, now' \in {now, now + 1}
    PROVE  RecordsOK' /\ Passes
<1>1. ASSUME NEW k \in Keys
      PROVE  IsRecord(rec[k])' /\ IsRecord(ideal[k])' /\ Seen(rec[k])' = Seen(ideal[k])'
  <2>1. PICK r, s : r = rec[k] /\ s = ideal[k]
    BY Zenon
  <2>2. IsRecord(r) /\ IsRecord(s) /\ Seen(r) = Seen(s)
    BY <2>1, Zenon DEF RecordInv
  <2>3. now \in Nat
    BY GatewayAssumption DEF ConnInv
  <2>4. Seen(r)' = Seen(s)'
    BY <2>2, <2>3, SeenLater, Zenon
  <2>5. rec'[k] = r /\ ideal'[k] = s
    BY <2>1, Zenon
  <2>6. IsRecord(rec[k])' /\ IsRecord(ideal[k])'
    BY <2>2, <2>5, Zenon DEF IsRecord, IsValue
  <2> QED BY <2>4, <2>5, <2>6
<1>2. DOMAIN rec' = Keys /\ DOMAIN ideal' = Keys /\ lost' = {}
  BY Zenon DEF RecordInv
<1> QED BY <1>1, <1>2, Zenon DEF RecordsOK, Passes, RecordInv

LEMMA RunningIs ==
    ASSUME ConnInv, NEW c \in Conns, conn[c].next \in DOMAIN script[c]
    PROVE  /\ Request(c) \in Requests /\ Arity(Request(c)) /\ IsCommand(Command(c))
           /\ Command(c) \in Conns \X Nat /\ Command(c)[1] = c /\ Command(c)[2] = conn[c].next
           /\ \A w : w.cmd = Command(c) => RequestOf(w) = Request(c)
<1>1. PICK n : n = conn[c].next
  BY Zenon
<1>2. Request(c) = script[c][n] /\ Command(c) = <<c, n>> /\ n \in DOMAIN script[c] /\ n \in Nat
  BY <1>1, ConnIs, Zenon DEF Request, Command
<1>3. Request(c) \in Requests /\ Arity(Request(c))
  BY <1>2, ScriptIs, Zenon
<1>4. IsCommand(<<c, n>>)
  BY <1>2, Zenon DEF IsCommand
<1>5. <<c, n>>[1] = c /\ <<c, n>>[2] = n /\ <<c, n>> \in Conns \X Nat
  BY <1>2
<1> QED BY <1>1, <1>2, <1>3, <1>4, <1>5, Zenon DEF RequestOf

LEMMA KeysAre ==
    ASSUME NEW q \in Requests, Arity(q), q.op \notin Local
    PROVE  /\ \A i \in 1..Parts(q) : q.keys[i] \in Keys
           /\ q.op \in Renames => q.keys[1] \in Keys /\ q.keys[2] \in Keys /\ Parts(q) = 1
           /\ Parts(q) \in Nat
<1>1. q.keys \in Seq(Keys)
  BY DEF Requests
<1>2. CASE q.op \in Renames
  <2>1. Len(q.keys) = 2 /\ Parts(q) = 1
    BY <1>2, Zenon DEF Arity, Parts
  <2>2. q.keys[1] \in Keys /\ q.keys[2] \in Keys
    BY <1>1, <2>1
  <2> QED BY <2>1, <2>2
<1>3. CASE q.op \notin Renames
  <2>1. Parts(q) = Len(q.keys)
    BY <1>3, Zenon DEF Parts
  <2> QED BY <1>1, <1>3, <2>1
<1> QED BY <1>2, <1>3, Zenon

LEMMA PartStays ==
    ASSUME ConnInv, Passes, NEW q \in Requests, Arity(q), q.op \notin Local,
           NEW by, NEW i, NEW p, PartOK(q, by, i, p)
    PROVE  PartOK(q, by, i, p)'
<1>1. ASSUME p.pc \in {"write", "delete"}
      PROVE  /\ WriteOK(WriteFor(q, by, i, p))'
             /\ q.op \in Renames => Held(q.keys[1], p.cur.ver, p.cur.val)'
  <2>1. /\ WriteOK(WriteFor(q, by, i, p))
        /\ q.op \in Renames => Held(q.keys[1], p.cur.ver, p.cur.val)
    BY <1>1, Zenon DEF PartOK
  <2>2. PICK w : w = WriteFor(q, by, i, p)
    BY Zenon
  <2>3. WriteOK(w)'
    BY <2>1, <2>2, WriteStays, Zenon
  <2>4. q.op \in Renames => Held(q.keys[1], p.cur.ver, p.cur.val)'
    BY <2>1, KeysAre, HeldStays, Zenon
  <2> QED BY <2>2, <2>3, <2>4
<1>2. /\ DOMAIN p = {"pc", "cur", "change", "res"}
      /\ p.pc \in {"lock", "read", "write", "delete", "done"}
      /\ p.res.reply = p.res.should
      /\ p.res.code \in IF p.pc = "done" THEN Results ELSE {"none"}
      /\ p.pc = "lock" => Way(q) = "update"
      /\ p.pc = "read" => Way(q) \in {"read", "rename", "update"}
      /\ p.pc = "delete" => q.op \in Renames
  BY Zenon DEF PartOK
<1> QED BY <1>1, <1>2, Zenon DEF PartOK, Results, Way, Renames, Reads, WriteFor

(* The parts after a step are in order if they were in order before it, or would have been. *)
LEMMA PartsStay ==
    ASSUME ConnInv, Passes, DOMAIN part' = Conns,
           \A d \in Conns : \A j \in DOMAIN part'[d] :
              /\ conn'[d].running /\ conn'[d].next = conn[d].next
              /\ conn[d].next \in DOMAIN script[d] /\ Request(d).op \notin Local
              /\ j \in 1..Parts(Request(d))
              /\ PartOK(Request(d), Command(d), j, part'[d][j])
    PROVE  PartInv'
<1>1. ASSUME NEW d \in Conns, NEW j \in DOMAIN part'[d]
      PROVE  /\ conn'[d].running /\ j \in 1..Parts(Request(d))'
             /\ PartOK(Request(d), Command(d), j, part[d][j])'
  <2>1. PICK q, by, p : q = Request(d) /\ by = Command(d) /\ p = part'[d][j]
    BY Zenon
  <2>2. /\ conn'[d].running /\ conn[d].next \in DOMAIN script[d] /\ q.op \notin Local
        /\ j \in 1..Parts(q) /\ PartOK(q, by, j, p)
    BY <1>1, <2>1, Zenon
  <2>3. q \in Requests /\ Arity(q)
    BY <2>1, <2>2, RunningIs, Zenon
  <2>4. Request(d)' = q /\ Command(d)' = by
    BY <1>1, <2>1, Zenon DEF Request, Command, Passes
  <2>5. PartOK(q, by, j, p)'
    BY <2>2, <2>3, PartStays, Zenon
  <2>6. j \in 1..Parts(Request(d))'
    BY <2>2, <2>4 DEF Parts, Renames
  <2> QED BY <2>1, <2>2, <2>4, <2>5, <2>6
<1> QED BY <1>1, Zenon DEF PartInv

(* A part in flight belongs to a request that is not local. *)
LEMMA PartOf ==
    ASSUME ConnInv, PartInv, NEW c \in Conns, NEW i \in DOMAIN part[c]
    PROVE  /\ conn[c].running /\ conn[c].next \in DOMAIN script[c]
           /\ Request(c) \in Requests /\ Arity(Request(c)) /\ Request(c).op \notin Local
           /\ IsCommand(Command(c)) /\ Command(c) \in Conns \X Nat
           /\ \A w : w.cmd = Command(c) => RequestOf(w) = Request(c)
           /\ i \in 1..Parts(Request(c)) /\ Request(c).keys[i] \in Keys
           /\ PartOK(Request(c), Command(c), i, part[c][i])
<1>1. /\ conn[c].running /\ i \in 1..Parts(Request(c)) /\ conn[c].next <= Len(script[c])
      /\ Request(c).op \notin Local /\ PartOK(Request(c), Command(c), i, part[c][i])
  BY PartIs, Zenon DEF ConnInv
<1>2. conn[c].next \in DOMAIN script[c]
  <2>1. /\ conn[c].next = Len(answers[c]) + 1 /\ Len(answers[c]) \in Nat
        /\ DOMAIN script[c] = 1..Len(script[c]) /\ Len(script[c]) \in Nat
    BY ConnIs, ScriptIs, Zenon
  <2> QED BY <1>1, <2>1
<1>3. Request(c) \in Requests /\ Arity(Request(c)) /\ IsCommand(Command(c))
      /\ Command(c) \in Conns \X Nat /\ \A w : w.cmd = Command(c) => RequestOf(w) = Request(c)
  BY <1>2, RunningIs, Zenon
<1> QED BY <1>1, <1>2, <1>3, KeysAre, Zenon

(* One part goes on, and the others stay where they are. *)
LEMMA PartReplaced ==
    ASSUME ConnInv, PartInv, Passes, conn' = conn, NEW c \in Conns, NEW i \in DOMAIN part[c],
           NEW p, PartOK(Request(c), Command(c), i, p), part' = [part EXCEPT ![c][i] = p]
    PROVE  PartInv'
<1>1. /\ DOMAIN part' = Conns /\ DOMAIN part'[c] = DOMAIN part[c] /\ part'[c][i] = p
      /\ \A j \in DOMAIN part[c] : j # i => part'[c][j] = part[c][j]
      /\ \A d \in Conns : d # c => part'[d] = part[d]
  BY Zenon DEF PartInv
<1>2. ASSUME NEW d \in Conns, NEW j \in DOMAIN part'[d]
      PROVE  /\ conn'[d].running /\ conn'[d].next = conn[d].next
             /\ conn[d].next \in DOMAIN script[d] /\ Request(d).op \notin Local
             /\ j \in 1..Parts(Request(d))
             /\ PartOK(Request(d), Command(d), j, part'[d][j])
  <2>1. j \in DOMAIN part[d]
    BY <1>1, Zenon
  <2>2. /\ conn[d].running /\ conn[d].next \in DOMAIN script[d] /\ Request(d).op \notin Local
        /\ j \in 1..Parts(Request(d)) /\ PartOK(Request(d), Command(d), j, part[d][j])
    BY <2>1, PartOf, Zenon
  <2>3. PartOK(Request(d), Command(d), j, part'[d][j])
    BY <1>1, <2>1, <2>2, Zenon
  <2> QED BY <2>2, <2>3, Zenon
<1> QED BY <1>1, <1>2, PartsStay, Zenon

LEMMA NewParts ==
    ASSUME NEW pc
    PROVE  /\ NewPart(pc).pc = pc /\ NewPart(pc).res.reply = NewPart(pc).res.should
           /\ NewPart(pc).res.code = "none"
           /\ DOMAIN NewPart(pc) = {"pc", "cur", "change", "res"}
BY DEF NewPart, NoResult

LEMMA PartDone ==
    ASSUME ConnInv, PartInv, Passes, conn' = conn, NEW c \in Conns, NEW i \in DOMAIN part[c],
           NEW code \in Results, NEW reply, NEW should, reply = should,
           Done(c, i, Result(code, reply, should))
    PROVE  PartInv'
<1>1. PICK res : res = Result(code, reply, should)
  BY Zenon
<1>2. res.code = code /\ res.reply = res.should
  BY <1>1 DEF Result
<1> DEFINE p == [NewPart("done") EXCEPT !.res = res]
<1>3. /\ DOMAIN p = {"pc", "cur", "change", "res"} /\ p.pc = "done" /\ p.res = res
  BY DEF NewPart
<1>4. part' = [part EXCEPT ![c][i] = p]
  BY <1>1, ZenonT(30) DEF Done
<1> HIDE DEF p
<1>5. PartOK(Request(c), Command(c), i, p)
  BY <1>2, <1>3 DEF PartOK
<1> QED BY <1>4, <1>5, PartReplaced, Zenon

(* The result of a failed call *)
LEMMA SomeResults ==
    /\ "ok" \in Results /\ "err" \in Results /\ "tryagain" \in Results /\ "unknown" \in Results
BY DEF Results

LEMMA ReadCases ==
    ASSUME ConnInv, PartInv, NEW c \in Conns, NEW i \in DOMAIN part[c], Read(c, i),
           NEW q, q = Request(c), NEW cur, cur = View(KeyOf(c, i)),
           NEW d, d = Decide(q, Command(c), cur)
    PROVE  \/ \E code \in Results : \E reply : Done(c, i, Result(code, reply, reply))
           \/ /\ Way(q) = "rename" /\ cur.live
              /\ Goto(c, i, [NewPart("write") EXCEPT
                                !.cur = cur, !.change = Put(cur.val, cur.ttl, Ok)])
           \/ /\ Way(q) = "update" /\ d.do # "fail" /\ d.do # "nothing"
              /\ Goto(c, i, [NewPart("write") EXCEPT !.cur = cur, !.change = d])
<1>0. /\ CASE Way(q) = "read" -> Done(c, i, Result("ok", ReadReply(q, cur), ReadReply(q, cur)))
           [] Way(q) = "rename" /\ ~ cur.live -> Done(c, i, Result("err", Nil, Nil))
           [] Way(q) = "rename" /\ cur.live /\ q.keys[1] = q.keys[2] ->
                Done(c, i, Result("ok", Nil, Nil))
           [] Way(q) = "rename" /\ cur.live /\ q.keys[1] # q.keys[2] ->
                Goto(c, i, [NewPart("write") EXCEPT
                    !.cur = cur, !.change = Put(cur.val, cur.ttl, Ok)])
           [] Way(q) = "update" /\ d.do = "fail" -> Done(c, i, Result("err", Nil, Nil))
           [] Way(q) = "update" /\ d.do = "nothing" -> Done(c, i, Result("ok", d.reply, d.reply))
           [] OTHER -> Goto(c, i, [NewPart("write") EXCEPT !.cur = cur, !.change = d])
  BY Zenon DEF Read
<1>1. Way(q) \in {"read", "rename", "update"}
  <2>1. part[c][i].pc = "read"
    BY Zenon DEF Read, At
  <2> QED BY <2>1, PartIs, Zenon DEF PartOK
<1>2. CASE Way(q) = "read"
  <2>1. Done(c, i, Result("ok", ReadReply(q, cur), ReadReply(q, cur)))
    BY <1>0, <1>2
  <2> QED BY <2>1, SomeResults, Zenon
<1>3. CASE Way(q) = "rename"
  <2>1. CASE ~ cur.live
    <3>1. Done(c, i, Result("err", Nil, Nil))
      BY <1>0, <1>3, <2>1
    <3> QED BY <3>1, SomeResults, Zenon
  <2>2. CASE cur.live /\ q.keys[1] = q.keys[2]
    <3>1. Done(c, i, Result("ok", Nil, Nil))
      BY <1>0, <1>3, <2>2
    <3> QED BY <3>1, SomeResults, Zenon
  <2>3. CASE cur.live /\ q.keys[1] # q.keys[2]
    <3>1. Goto(c, i, [NewPart("write") EXCEPT
                         !.cur = cur, !.change = Put(cur.val, cur.ttl, Ok)])
      BY <1>0, <1>3, <2>3
    <3> QED BY <1>3, <2>3, <3>1, Zenon
  <2> QED BY <2>1, <2>2, <2>3, Zenon
<1>4. CASE Way(q) = "update"
  <2>1. CASE d.do = "fail"
    <3>1. Done(c, i, Result("err", Nil, Nil))
      BY <1>0, <1>4, <2>1
    <3> QED BY <3>1, SomeResults, Zenon
  <2>2. CASE d.do = "nothing"
    <3>1. Done(c, i, Result("ok", d.reply, d.reply))
      BY <1>0, <1>4, <2>2
    <3> QED BY <3>1, SomeResults, Zenon
  <2>3. CASE d.do # "fail" /\ d.do # "nothing"
    <3>1. Goto(c, i, [NewPart("write") EXCEPT !.cur = cur, !.change = d])
      BY <1>0, <1>4, <2>3
    <3> QED BY <1>4, <2>3, <3>1, Zenon
  <2> QED BY <2>1, <2>2, <2>3, Zenon
<1> QED BY <1>1, <1>2, <1>3, <1>4, Zenon

(* A write by a part that is not a RENAME's delete *)
LEMMA WriteIs ==
    ASSUME NEW q, NEW by, NEW i, NEW p, p.pc = "write"
    PROVE  /\ WriteFor(q, by, i, p).key = IF q.op \in Renames THEN q.keys[2] ELSE q.keys[i]
           /\ WriteFor(q, by, i, p).change = p.change
           /\ WriteFor(q, by, i, p).expect = Expected(q, p)
           /\ WriteFor(q, by, i, p).cmd = by /\ WriteFor(q, by, i, p).copied = NoValue
BY DEF WriteFor

(* RENAME has copied what it read. *)
LEMMA RenamePart ==
    ASSUME ConnInv, PartInv, RecordInv, NEW c \in Conns, NEW i \in DOMAIN part[c],
           Way(Request(c)) = "rename", NEW cur, cur = View(KeyOf(c, i)), cur.live
    PROVE  PartOK(Request(c), Command(c), i,
                  [NewPart("write") EXCEPT !.cur = cur, !.change = Put(cur.val, cur.ttl, Ok)])
<1>1. PICK q, by, k, r : q = Request(c) /\ by = Command(c) /\ k = q.keys[i] /\ r = rec[k]
  BY Zenon
<1>2. /\ q \in Requests /\ Arity(q) /\ q.op \notin Local /\ i \in 1..Parts(q) /\ k \in Keys
      /\ IsCommand(by) /\ \A w : w.cmd = by => RequestOf(w) = q
  BY <1>1, PartOf, Zenon
<1>3. q.op \in Renames /\ q.op \notin Reads /\ Way(q) = "rename" /\ "rename" # "update"
  <2>1. "rename" # "read" /\ "rename" # "update"
    OBVIOUS
  <2> QED BY <1>1, <1>2, <2>1, WayIs, Zenon
<1>4. q.keys[1] \in Keys /\ q.keys[2] \in Keys /\ i = 1
  <2>1. q.keys[1] \in Keys /\ q.keys[2] \in Keys /\ Parts(q) = 1
    BY <1>2, <1>3, KeysAre, Zenon
  <2> QED BY <1>2, <2>1
<1>5. cur = r /\ IsRecord(r)
  <2>1. cur = Seen(r) /\ IsRecord(r)
    BY <1>1, <1>2, Zenon DEF KeyOf, View, RecordInv
  <2> QED BY <2>1, SeenIs, Zenon
<1>6. IsValue(cur.val) /\ cur.ttl \in Int /\ cur.ver \in Nat \ {0}
  BY <1>5, Zenon DEF IsRecord
<1> DEFINE change == Put(cur.val, cur.ttl, Ok)
           p == [NewPart("write") EXCEPT !.cur = cur, !.change = change]
           w == WriteFor(q, by, i, p)
<1>7. change.do = "put" /\ change.val = cur.val /\ change.ttl = cur.ttl
  BY DEF Put
<1> HIDE DEF change
<1>8. /\ DOMAIN p = {"pc", "cur", "change", "res"} /\ p.pc = "write" /\ p.cur = cur
      /\ p.change = change /\ p.res.code = "none" /\ p.res.reply = p.res.should
  BY DEF NewPart, NoResult
<1> HIDE DEF p
<1>9. w.key = q.keys[2] /\ w.change = change /\ w.cmd = by /\ w.copied = NoValue
  <2>1. /\ w.key = IF q.op \in Renames THEN q.keys[2] ELSE q.keys[i]
        /\ w.change = p.change /\ w.cmd = by /\ w.copied = NoValue
    BY <1>8, WriteIs
  <2> QED BY <1>3, <1>8, <2>1, ZenonT(30)
<1> HIDE DEF w
<1>10. RequestOf(w) = q
  BY <1>2, <1>9, Zenon
<1>11. "put" \in {"put", "expire", "delete"} /\ "put" # "expire"
  OBVIOUS
<1>12. WriteOK(w)
  BY <1>2, <1>3, <1>4, <1>6, <1>7, <1>9, <1>10, <1>11, Zenon DEF WriteOK
<1>13. Held(q.keys[1], p.cur.ver, p.cur.val)
  <2>1. cur.ver \in 1..cur.ver
    BY <1>6
  <2> QED BY <1>1, <1>4, <1>5, <1>8, <2>1, Zenon DEF Held
<1>14. PartOK(q, by, i, p)
  <2>1. WriteOK(WriteFor(q, by, i, p))
    BY <1>12, Zenon DEF w
  <2> QED BY <1>3, <1>8, <1>13, <2>1 DEF PartOK
<1> QED BY <1>1, <1>14, Zenon DEF p, change

(* update has decided from the version it writes over. *)
LEMMA UpdatePart ==
    ASSUME ConnInv, PartInv, RecordInv, NEW c \in Conns, NEW i \in DOMAIN part[c],
           Way(Request(c)) = "update", NEW cur, cur = View(KeyOf(c, i)),
           NEW d, d = Decide(Request(c), Command(c), cur), d.do # "fail", d.do # "nothing"
    PROVE  PartOK(Request(c), Command(c), i, [NewPart("write") EXCEPT !.cur = cur, !.change = d])
<1>1. PICK q, by, k, r : q = Request(c) /\ by = Command(c) /\ k = q.keys[i] /\ r = rec[k]
  BY Zenon
<1>2. /\ q \in Requests /\ Arity(q) /\ q.op \notin Local /\ i \in 1..Parts(q) /\ k \in Keys
      /\ IsCommand(by) /\ by \in Conns \X Nat /\ \A w : w.cmd = by => RequestOf(w) = q
  BY <1>1, PartOf, Zenon
<1>3. q.op \in Updates /\ q.op \notin Reads /\ q.op \notin Renames /\ Way(q) = "update"
      /\ q.op \notin {"msetnx", "renamenx"}
  <2>1. q.op \in Updates
    BY <1>1, <1>2, WayIs, Zenon
  <2> QED BY <1>1, <2>1 DEF Updates, Reads, Renames
<1>4. cur = Seen(r) /\ cur = View(k) /\ IsRecord(r)
  BY <1>1, <1>2, Zenon DEF KeyOf, View, RecordInv
<1>5. IsRecord(cur) /\ cur.ver = r.ver /\ r.ver \in Nat \ {0} /\ (~ cur.live => IsAbsent(cur))
  BY <1>4, SeenIs, Zenon DEF IsRecord
<1>6. d = Decide(q, by, cur) /\ IsDecision(d, cur)
  BY <1>1, <1>2, <1>3, <1>5, DecideType, Zenon
<1>7. d.do \in {"put", "expire", "delete"} /\ IsValue(d.val) /\ d.ttl \in Int
  BY <1>6, Zenon DEF IsDecision
<1> DEFINE p == [NewPart("write") EXCEPT !.cur = cur, !.change = d]
           w == WriteFor(q, by, i, p)
<1>8. /\ DOMAIN p = {"pc", "cur", "change", "res"} /\ p.pc = "write" /\ p.cur = cur
      /\ p.change = d /\ p.res.code = "none" /\ p.res.reply = p.res.should
  BY DEF NewPart, NoResult
<1> HIDE DEF p
<1>9. w.key = k /\ w.change = d /\ w.cmd = by /\ w.copied = NoValue /\ w.expect = Expected(q, p)
  <2>1. /\ w.key = IF q.op \in Renames THEN q.keys[2] ELSE q.keys[i]
        /\ w.change = p.change /\ w.cmd = by /\ w.copied = NoValue /\ w.expect = Expected(q, p)
    BY <1>8, WriteIs
  <2> QED BY <1>1, <1>3, <1>8, <2>1, ZenonT(30)
<1> HIDE DEF w
<1>10. RequestOf(w) = q
  BY <1>2, <1>9, Zenon
<1>11. w.expect = IF cur.live THEN cur.ver ELSE IfAbsent
  BY <1>3, <1>8, <1>9 DEF Expected
<1>12. Decided(w)
  <2>1. CASE cur.live
    <3>1. w.expect \in 1..r.ver
      BY <1>5, <1>11, <2>1
    <3>2. Agrees(d, Decide(q, by, cur))
      BY <1>6, Zenon DEF Agrees
    <3> QED BY <1>1, <1>4, <1>9, <1>10, <3>1, <3>2, Zenon DEF Decided
  <2>2. CASE ~ cur.live
    <3>1. d = Decide(q, by, Missing)
      BY <1>3, <1>5, <1>6, <2>2, DecideAbsent, Zenon
    <3> QED BY <1>9, <1>10, <1>11, <2>2, <3>1, Zenon DEF Decided, Agrees
  <2> QED BY <2>1, <2>2, Zenon
<1>13. WriteOK(w)
  BY <1>2, <1>3, <1>7, <1>9, <1>10, <1>12, ZenonT(30) DEF WriteOK
<1>14. PartOK(q, by, i, p)
  <2>1. WriteOK(WriteFor(q, by, i, p))
    BY <1>13, Zenon DEF w
  <2> QED BY <1>3, <1>8, <2>1 DEF PartOK
<1> QED BY <1>1, <1>14, Zenon DEF p

LEMMA ReadStep ==
    ASSUME ConnInv, PartInv, RecordInv, Passes, conn' = conn,
           NEW c \in Conns, NEW i \in DOMAIN part[c], Read(c, i)
    PROVE  PartInv'
<1>1. PICK q, by : q = Request(c) /\ by = Command(c)
  BY Zenon
<1>2. PICK cur : cur = View(KeyOf(c, i))
  BY Zenon
<1>3. PICK d : d = Decide(q, by, cur)
  BY Zenon
<1>4. CASE \E code \in Results : \E reply : Done(c, i, Result(code, reply, reply))
  BY <1>4, PartDone, Zenon
<1>5. CASE /\ Way(q) = "rename" /\ cur.live
           /\ Goto(c, i, [NewPart("write") EXCEPT
                             !.cur = cur, !.change = Put(cur.val, cur.ttl, Ok)])
  <2> DEFINE p == [NewPart("write") EXCEPT !.cur = cur, !.change = Put(cur.val, cur.ttl, Ok)]
  <2>1. PartOK(Request(c), Command(c), i, p)
    BY <1>1, <1>2, <1>5, RenamePart, Zenon
  <2>2. part' = [part EXCEPT ![c][i] = p]
    BY <1>5, Zenon DEF Goto
  <2> HIDE DEF p
  <2> QED BY <2>1, <2>2, PartReplaced, Zenon
<1>6. CASE /\ Way(q) = "update" /\ d.do # "fail" /\ d.do # "nothing"
           /\ Goto(c, i, [NewPart("write") EXCEPT !.cur = cur, !.change = d])
  <2> DEFINE p == [NewPart("write") EXCEPT !.cur = cur, !.change = d]
  <2>1. PartOK(Request(c), Command(c), i, p)
    BY <1>1, <1>2, <1>3, <1>6, UpdatePart, Zenon
  <2>2. part' = [part EXCEPT ![c][i] = p]
    BY <1>6, Zenon DEF Goto
  <2> HIDE DEF p
  <2> QED BY <2>1, <2>2, PartReplaced, Zenon
<1> QED BY <1>1, <1>2, <1>3, <1>4, <1>5, <1>6, ReadCases, Zenon

LEMMA LockStep ==
    ASSUME ConnInv, PartInv, Passes, conn' = conn, NEW c \in Conns, NEW i \in DOMAIN part[c],
           Lock(c, i)
    PROVE  PartInv'
<1>1. PICK q, by, o : q = Request(c) /\ by = Command(c) /\ o = part[c][i]
  BY Zenon
<1>2. PartOK(q, by, i, o) /\ o.pc = "lock"
  BY <1>1, PartOf, Zenon DEF Lock, At
<1> DEFINE p == [o EXCEPT !.pc = "read"]
<1>3. part' = [part EXCEPT ![c][i] = p]
  BY <1>1, Zenon DEF Lock
<1>4. DOMAIN p = {"pc", "cur", "change", "res"} /\ p.pc = "read" /\ p.res = o.res
  <2>1. DOMAIN o = {"pc", "cur", "change", "res"}
    BY <1>2, ZenonT(30) DEF PartOK
  <2> QED BY <2>1
<1> HIDE DEF p
<1>5. PartOK(q, by, i, p)
  BY <1>2, <1>4 DEF PartOK
<1> QED BY <1>1, <1>3, <1>5, PartReplaced, Zenon
-----------------------------------------------------------------------------
(* What each action does to the records and to the parts. *)

LEMMA LateStay ==
    ASSUME ConnInv, Passes, RecordsOK', \A w \in late' : WriteOK(w)
    PROVE  RecordInv'
<1>1. ASSUME NEW w \in late' PROVE WriteOK(w)'
  BY WriteStays, Zenon
<1> QED BY <1>1, Zenon DEF RecordInv, RecordsOK

LEMMA PartsKept ==
    ASSUME ConnInv, PartInv, Passes, conn' = conn, part' = part
    PROVE  PartInv'
<1>1. ASSUME NEW d \in Conns, NEW j \in DOMAIN part'[d]
      PROVE  /\ conn'[d].running /\ conn'[d].next = conn[d].next
             /\ conn[d].next \in DOMAIN script[d] /\ Request(d).op \notin Local
             /\ j \in 1..Parts(Request(d))
             /\ PartOK(Request(d), Command(d), j, part'[d][j])
  BY PartOf, Zenon
<1> QED BY <1>1, PartsStay, Zenon DEF PartInv

LEMMA WritingIs ==
    ASSUME ConnInv, PartInv, NEW c \in Conns, NEW i \in DOMAIN part[c], Writing(c, i)
    PROVE  /\ WriteOK(WriteOf(c, i)) /\ WriteOf(c, i).cmd = Command(c)
           /\ part[c][i].pc \in {"write", "delete"}
<1>1. part[c][i].pc \in {"write", "delete"}
  BY Zenon DEF Writing, At
<1>2. WriteOK(WriteOf(c, i))
  BY <1>1, PartOf, ZenonT(30) DEF PartOK, WriteOf
<1>3. \A q, by, p : WriteFor(q, by, i, p).cmd = by
  BY ZenonT(30) DEF WriteFor
<1> QED BY <1>1, <1>2, <1>3, Zenon DEF WriteOf

LEMMA DeleteIs ==
    ASSUME NEW q, NEW by, NEW i, NEW p, p.pc = "delete"
    PROVE  /\ WriteFor(q, by, i, p).key = q.keys[1]
           /\ WriteFor(q, by, i, p).change = Delete(Ok)
           /\ WriteFor(q, by, i, p).expect = p.cur.ver
           /\ WriteFor(q, by, i, p).cmd = by /\ WriteFor(q, by, i, p).copied = p.cur.val
BY DEF WriteFor, ExpectedOfDelete

(* RENAME goes on to delete what it copied. *)
LEMMA DeletePart ==
    ASSUME ConnInv, PartInv, NEW c \in Conns, NEW i \in DOMAIN part[c],
           part[c][i].pc = "write", Request(c).op \in Renames
    PROVE  PartOK(Request(c), Command(c), i, [part[c][i] EXCEPT !.pc = "delete"])
<1>1. PICK q, by, o : q = Request(c) /\ by = Command(c) /\ o = part[c][i]
  BY Zenon
<1>2. /\ PartOK(q, by, i, o) /\ o.pc = "write" /\ q.op \in Renames
      /\ q \in Requests /\ Arity(q) /\ q.op \notin Local /\ IsCommand(by)
      /\ \A w : w.cmd = by => RequestOf(w) = q
  BY <1>1, PartOf, Zenon
<1>3. q.keys[1] \in Keys /\ q.op \notin Reads /\ Way(q) # "update"
  <2>1. Way(q) = "rename" /\ "rename" # "update" /\ "rename" # "read"
    BY <1>2, WayIs
  <2> QED BY <1>2, <2>1, KeysAre, WayIs, ZenonT(30)
<1>4. Held(q.keys[1], o.cur.ver, o.cur.val)
  BY <1>2, Zenon DEF PartOK
<1> DEFINE p == [o EXCEPT !.pc = "delete"]
           w == WriteFor(q, by, i, p)
<1>5. /\ DOMAIN p = {"pc", "cur", "change", "res"} /\ p.pc = "delete" /\ p.cur = o.cur
      /\ p.res = o.res
  <2>1. DOMAIN o = {"pc", "cur", "change", "res"}
    BY <1>2, ZenonT(30) DEF PartOK
  <2> QED BY <2>1
<1> HIDE DEF p
<1>6. /\ w.key = q.keys[1] /\ w.change = Delete(Ok) /\ w.expect = p.cur.ver /\ w.cmd = by
      /\ w.copied = p.cur.val
  BY <1>5, DeleteIs
<1> HIDE DEF w
<1>7. /\ w.change.do = "delete" /\ w.change.val = NoValue /\ w.change.ttl \in Int
      /\ "delete" # "expire" /\ "delete" \in {"put", "expire", "delete"}
  BY <1>6 DEF Delete, Never
<1>8. WriteOK(w)
  BY <1>2, <1>3, <1>4, <1>5, <1>6, <1>7, NoValueIs, ZenonT(30) DEF WriteOK
<1>9. PartOK(q, by, i, p)
  <2>1. WriteOK(WriteFor(q, by, i, p))
    BY <1>8, Zenon DEF w
  <2> QED BY <1>2, <1>4, <1>5, <2>1 DEF PartOK
<1> QED BY <1>1, <1>9, Zenon DEF p

LEMMA WriteStep ==
    ASSUME ConnInv, PartInv, RecordInv, NEW c \in Conns, NEW i \in DOMAIN part[c],
           WriteApplies(c, i)
    PROVE  PartInv' /\ RecordInv' /\ Passes
<1>1. PICK w : w = WriteOf(c, i)
  BY Zenon
<1>2. /\ Writing(c, i) /\ Holds(w) /\ TakeEffect(w) /\ UNCHANGED <<script, now, late, conn>>
      /\ IF Request(c).op \in Renames /\ part[c][i].pc = "write"
         THEN Goto(c, i, [part[c][i] EXCEPT !.pc = "delete"])
         ELSE Done(c, i, Result("ok", w.change.reply, Ideal(w).reply))
  BY <1>1, Zenon DEF WriteApplies
<1>3. WriteOK(w)
  BY <1>1, <1>2, WritingIs, Zenon
<1>4. RecordsOK' /\ Passes
  BY <1>2, <1>3, EffectIs, Zenon
<1>5. RecordInv'
  BY <1>2, <1>4, LateStay, Zenon DEF RecordInv
<1>6. CASE Request(c).op \in Renames /\ part[c][i].pc = "write"
  <2>1. PICK p : p = [part[c][i] EXCEPT !.pc = "delete"]
    BY Zenon
  <2>2. PartOK(Request(c), Command(c), i, p)
    BY <1>6, <2>1, DeletePart, Zenon
  <2>3. part' = [part EXCEPT ![c][i] = p]
    BY <1>2, <1>6, <2>1, Zenon DEF Goto
  <2> QED BY <1>2, <1>4, <1>5, <2>2, <2>3, PartReplaced, Zenon
<1>7. CASE ~ (Request(c).op \in Renames /\ part[c][i].pc = "write")
  <2>1. PICK reply, should : reply = w.change.reply /\ should = Ideal(w).reply
    BY Zenon
  <2>2. Done(c, i, Result("ok", reply, should))
    BY <1>2, <1>7, <2>1, Zenon
  <2>3. reply = should
    BY <1>2, <1>3, <2>1, EffectIsIdeal, Zenon
  <2> QED BY <1>2, <1>4, <1>5, <2>2, <2>3, PartDone, SomeResults, Zenon
<1> QED BY <1>6, <1>7, Zenon

(* An action that leaves the records and the late writes alone *)
LEMMA RecordsKept ==
    ASSUME ConnInv, RecordInv, UNCHANGED <<script, rec, ideal, lost>>, now' \in {now, now + 1},
           \A w \in late' : w \in late \/ WriteOK(w)
    PROVE  RecordInv' /\ Passes
<1>1. RecordsOK' /\ Passes
  BY RecordsStay, Zenon
<1>2. \A w \in late' : WriteOK(w)
  BY Zenon DEF RecordInv
<1> QED BY <1>1, <1>2, LateStay, Zenon

LEMMA RejectedStep ==
    ASSUME ConnInv, PartInv, Passes, conn' = conn, NEW c \in Conns, NEW i \in DOMAIN part[c],
           WriteRejected(c, i)
    PROVE  PartInv'
<1>1. PICK q, o : q = Request(c) /\ o = part[c][i]
  BY Zenon
<1>2. /\ o.pc = "delete" => q.op \in Renames
      /\ q \in Requests /\ q.op \notin Local
  BY <1>1, PartOf, Zenon DEF PartOK
<1>3. o.pc = "delete" => Way(q) # "update"
  BY <1>2, WayIs
<1>4. CASE Way(q) = "update"
  <2> DEFINE p == NewPart("read")
  <2>1. Goto(c, i, p)
    <3>1. Way(Request(c)) = "update" /\ part[c][i].pc # "delete"
      BY <1>1, <1>3, <1>4, ZenonT(30)
    <3> QED BY <3>1 DEF WriteRejected
  <2>2. PartOK(q, Command(c), i, p)
    BY <1>4, NewParts DEF PartOK
  <2> HIDE DEF p
  <2>3. part' = [part EXCEPT ![c][i] = p]
    BY <2>1, Zenon DEF Goto
  <2> QED BY <1>1, <2>2, <2>3, PartReplaced, Zenon
<1>5. CASE Way(q) # "update"
  <2>1. Done(c, i, Result("err", Nil, Nil)) \/ Done(c, i, Result("ok", Number(0), Number(0)))
    BY <1>1, <1>5 DEF WriteRejected
  <2> QED BY <2>1, PartDone, SomeResults, Zenon
<1> QED BY <1>4, <1>5, Zenon

LEMMA FailsStep ==
    ASSUME ConnInv, PartInv, RecordInv, NEW c \in Conns, NEW i \in DOMAIN part[c],
           CallFails(c, i)
    PROVE  PartInv' /\ RecordInv' /\ Passes
<1>1. UNCHANGED <<script, now, rec, conn, ideal, lost>>
  BY Zenon DEF CallFails, history
<1>2. \A w \in late' : w \in late \/ WriteOK(w)
  <2>1. late' = late \/ (Writing(c, i) /\ late' = late \cup {WriteOf(c, i)})
    BY Zenon DEF CallFails
  <2>2. Writing(c, i) => WriteOK(WriteOf(c, i))
    BY WritingIs, Zenon
  <2> QED BY <2>1, <2>2, Zenon
<1>3. RecordInv' /\ Passes
  BY <1>1, <1>2, RecordsKept, Zenon
<1>4. Done(c, i, Result("unknown", Nil, Nil)) \/ Done(c, i, Result("tryagain", Nil, Nil))
  BY Zenon DEF CallFails
<1> QED BY <1>1, <1>3, <1>4, PartDone, SomeResults, Zenon

LEMMA FirstPart ==
    ASSUME ConnInv, NEW c \in Conns, conn[c].next \in DOMAIN script[c], NEW q, q = Request(c),
           q.op \notin Local, NEW i \in 1..Parts(q), NEW first,
           first = [NewPart(FirstStep(q)) EXCEPT
                      !.change = IF FirstStep(q) = "write"
                                 THEN Put(Fresh(q, Command(c)), q.ttl,
                                          IF q.op = "msetnx" THEN Number(1) ELSE Ok)
                                 ELSE @]
    PROVE  PartOK(q, Command(c), i, first)
<1>1. PICK by, reply : by = Command(c) /\ reply = IF q.op = "msetnx" THEN Number(1) ELSE Ok
  BY Zenon
<1>2. /\ q \in Requests /\ Arity(q) /\ IsCommand(by) /\ by \in Conns \X Nat
      /\ \A w : w.cmd = by => RequestOf(w) = q
  BY <1>1, RunningIs, Zenon
<1>3. /\ DOMAIN first = {"pc", "cur", "change", "res"} /\ first.pc = FirstStep(q)
      /\ first.res.code = "none" /\ first.res.reply = first.res.should
      /\ FirstStep(q) = "write" => first.change = Put(Fresh(q, by), q.ttl, reply)
  BY <1>1 DEF NewPart, NoResult
<1>4. CASE Way(q) \in {"read", "rename"}
  <2>1. FirstStep(q) = "read"
    BY <1>4 DEF FirstStep
  <2> QED BY <1>1, <1>3, <1>4, <2>1 DEF PartOK
<1>5. CASE Way(q) = "update"
  <2>1. FirstStep(q) = "lock"
    BY <1>5 DEF FirstStep
  <2> QED BY <1>1, <1>3, <1>5, <2>1 DEF PartOK
<1>6. CASE Way(q) \in {"put", "absent"}
  <2>1. FirstStep(q) = "write"
    BY <1>6 DEF FirstStep
  <2>2. q.op \notin Renames /\ q.op \notin Reads /\ Way(q) # "update"
    BY <1>2, <1>6, WayIs
  <2>3. IsValue(Fresh(q, by)) /\ q.ttl \in Int /\ q.keys[i] \in Keys
    BY <1>2, FreshIs, KeysAre, Zenon
  <2>4. PICK w : w = WriteFor(q, by, i, first)
    BY Zenon
  <2>5. w.key = q.keys[i] /\ w.change = Put(Fresh(q, by), q.ttl, reply) /\ w.cmd = by /\ w.copied = NoValue
    BY <1>3, <2>1, <2>2, <2>4, WriteIs
  <2>6. w.change.do = "put" /\ w.change.val = Fresh(q, by) /\ w.change.ttl = q.ttl
    BY <2>5 DEF Put
  <2>7. "put" \in {"put", "expire", "delete"} /\ "put" # "expire"
    OBVIOUS
  <2>8. RequestOf(w) = q
    BY <1>2, <2>5, Zenon
  <2>9. WriteOK(w)
    BY <1>2, <2>2, <2>3, <2>5, <2>6, <2>7, <2>8, ZenonT(30) DEF WriteOK
  <2>10. WriteOK(WriteFor(q, by, i, first))
    BY <2>4, <2>9, Zenon
  <2> QED BY <1>1, <1>3, <2>1, <2>2, <2>10 DEF PartOK
<1>7. Way(q) \in {"read", "put", "absent", "rename", "update"}
  BY <1>2, WayIs, Zenon
<1> QED BY <1>4, <1>5, <1>6, <1>7, ZenonT(30)

LEMMA RunStep ==
    ASSUME ConnInv, PartInv, RecordInv, NEW c \in Conns, Run(c)
    PROVE  PartInv' /\ RecordInv' /\ Passes
<1>1. PICK q : q = Request(c)
  BY Zenon
<1>2. PICK first :
         first = [NewPart(FirstStep(q)) EXCEPT
                    !.change = IF FirstStep(q) = "write"
                               THEN Put(Fresh(q, Command(c)), q.ttl,
                                        IF q.op = "msetnx" THEN Number(1) ELSE Ok)
                               ELSE @]
  BY Zenon
<1>3. part' = [part EXCEPT ![c] = [i \in 1..Parts(q) |-> first]]
  BY <1>1, <1>2 DEF Run
<1>4. UNCHANGED <<script, now, rec, late, ideal, lost>>
  BY Zenon DEF Run, history
<1>5. RecordInv' /\ Passes
  BY <1>4, RecordsKept, Zenon
<1>6. /\ conn[c].next <= Len(script[c]) /\ q.op \notin Local /\ conn'[c].running
      /\ conn'[c].next = conn[c].next /\ \A d \in Conns : d # c => conn'[d] = conn[d]
  BY <1>1, RunIs, Zenon
<1>7. conn[c].next \in DOMAIN script[c]
  <2>1. /\ conn[c].next = Len(answers[c]) + 1 /\ Len(answers[c]) \in Nat
        /\ DOMAIN script[c] = 1..Len(script[c]) /\ Len(script[c]) \in Nat
    BY ConnIs, ScriptIs, Zenon
  <2> QED BY <1>6, <2>1
<1>8. /\ DOMAIN part' = Conns /\ part'[c] = [i \in 1..Parts(q) |-> first]
      /\ \A d \in Conns : d # c => part'[d] = part[d]
  BY <1>3, Zenon DEF PartInv
<1>9. ASSUME NEW d \in Conns, NEW j \in DOMAIN part'[d]
      PROVE  /\ conn'[d].running /\ conn'[d].next = conn[d].next
             /\ conn[d].next \in DOMAIN script[d] /\ Request(d).op \notin Local
             /\ j \in 1..Parts(Request(d))
             /\ PartOK(Request(d), Command(d), j, part'[d][j])
  <2>1. CASE d = c
    <3>1. j \in 1..Parts(q) /\ part'[c][j] = first
      BY <1>8, <2>1, Zenon
    <3>2. PartOK(q, Command(c), j, first)
      BY <1>1, <1>2, <1>6, <1>7, <3>1, FirstPart, Zenon
    <3> QED BY <1>1, <1>6, <1>7, <2>1, <3>1, <3>2, Zenon
  <2>2. CASE d # c
    <3>1. j \in DOMAIN part[d] /\ part'[d][j] = part[d][j] /\ conn'[d] = conn[d]
      BY <1>6, <1>8, <2>2, Zenon
    <3> QED BY <3>1, PartOf, Zenon
  <2> QED BY <2>1, <2>2, Zenon
<1> QED BY <1>5, <1>8, <1>9, PartsStay, Zenon

LEMMA SettledStep ==
    ASSUME ConnInv, PartInv, RecordInv, NEW c \in Conns,
           Refused(c) \/ RunLocal(c) \/ Finish(c) \/ Deadline(c)
    PROVE  PartInv' /\ RecordInv' /\ Passes
<1>1. PICK cn, result : Settled(c, cn, result)
  BY SettlingActions, Zenon
<1>2. /\ UNCHANGED <<script, now>> /\ part' = [part EXCEPT ![c] = <<>>]
      /\ \A d \in Conns : d # c => conn'[d] = conn[d]
  BY <1>1, SettleIs, Zenon DEF Settled, Settle
<1>3. UNCHANGED <<rec, ideal, lost>>
  BY Zenon DEF Refused, RunLocal, Finish, Deadline
<1>4. \A w \in late' : w \in late \/ WriteOK(w)
  <2>1. CASE Refused(c) \/ RunLocal(c) \/ Finish(c)
    BY <2>1, Zenon DEF Refused, RunLocal, Finish
  <2>2. CASE Deadline(c)
    <3>1. late' = late \cup {WriteOf(c, i) : i \in {i \in DOMAIN part[c] : Writing(c, i)}}
      BY <2>2, Zenon DEF Deadline
    <3>2. \A i \in DOMAIN part[c] : Writing(c, i) => WriteOK(WriteOf(c, i))
      BY WritingIs, Zenon
    <3> QED BY <3>1, <3>2, Zenon
  <2> QED BY <2>1, <2>2, Zenon
<1>5. RecordInv' /\ Passes
  BY <1>2, <1>3, <1>4, RecordsKept, ZenonT(30)
<1>6. /\ DOMAIN part' = Conns /\ DOMAIN part'[c] = {}
      /\ \A d \in Conns : d # c => part'[d] = part[d]
  BY <1>2 DEF PartInv
<1>7. ASSUME NEW d \in Conns, NEW j \in DOMAIN part'[d]
      PROVE  /\ conn'[d].running /\ conn'[d].next = conn[d].next
             /\ conn[d].next \in DOMAIN script[d] /\ Request(d).op \notin Local
             /\ j \in 1..Parts(Request(d))
             /\ PartOK(Request(d), Command(d), j, part'[d][j])
  <2>1. d # c /\ part'[d] = part[d] /\ conn'[d] = conn[d]
    BY <1>2, <1>6, Zenon
  <2> QED BY <2>1, PartOf, Zenon
<1> QED BY <1>5, <1>6, <1>7, PartsStay, Zenon

LEMMA LateStep ==
    ASSUME ConnInv, PartInv, RecordInv, NEW w \in late, LateWrite(w)
    PROVE  PartInv' /\ RecordInv' /\ Passes /\ wrote' = wrote \cup {w.cmd}
<1>1. /\ Holds(w) /\ TakeEffect(w) /\ WriteOK(w) /\ UNCHANGED <<script, now, conn, part>>
      /\ late' \subseteq late
  BY Zenon DEF LateWrite, RecordInv
<1>2. RecordsOK' /\ Passes /\ wrote' = wrote \cup {w.cmd}
  BY <1>1, EffectIs, Zenon
<1>3. \A x \in late' : WriteOK(x)
  BY <1>1, Zenon DEF RecordInv
<1> QED BY <1>1, <1>2, <1>3, LateStay, PartsKept, ZenonT(30)

(* Every action keeps the parts and the records in order. *)
LEMMA DataStep ==
    ASSUME ConnInv, PartInv, RecordInv, [Next]_vars
    PROVE  PartInv' /\ RecordInv' /\ Passes
<1>1. ASSUME NEW c \in Conns, PartStep(c) PROVE PartInv' /\ RecordInv' /\ Passes
  <2>1. PICK i \in DOMAIN part[c] :
           Lock(c, i) \/ Read(c, i) \/ WriteApplies(c, i) \/ WriteRejected(c, i)
    BY <1>1, Zenon DEF PartStep
  <2>2. CASE Lock(c, i) \/ Read(c, i) \/ WriteRejected(c, i)
    <3>1. UNCHANGED <<script, now, rec, late, conn, ideal, lost>>
      BY <2>2, Zenon DEF Lock, Read, WriteRejected, history
    <3>2. RecordInv' /\ Passes
      BY <3>1, RecordsKept, Zenon
    <3> QED BY <2>2, <3>1, <3>2, LockStep, ReadStep, RejectedStep, Zenon
  <2> QED BY <2>1, <2>2, WriteStep, Zenon
<1>2. ASSUME UNCHANGED <<script, rec, late, conn, part, ideal, lost>>, now' \in {now, now + 1}
      PROVE  PartInv' /\ RecordInv' /\ Passes
  BY <1>2, RecordsKept, PartsKept, Zenon
<1>3. CASE (\E g \in Gateways : Connect(g)) \/ Tick \/ UNCHANGED vars
  <2>1. UNCHANGED <<script, rec, late, conn, part, ideal, lost>> /\ now' \in {now, now + 1}
    BY <1>3, Zenon DEF Connect, Tick, vars, history
  <2> QED BY <1>2, <2>1, Zenon
<1>4. CASE \E c \in Conns : \E i \in DOMAIN part[c] : CallFails(c, i)
  BY <1>4, FailsStep, Zenon
<1>5. CASE \E w \in late : LateWrite(w)
  BY <1>5, LateStep, Zenon
<1>6. CASE \E c \in Conns : Refused(c) \/ RunLocal(c) \/ Run(c) \/ Finish(c) \/ Deadline(c)
  BY <1>6, RunStep, SettledStep, Zenon
<1> QED BY <1>1, <1>3, <1>4, <1>5, <1>6, ZenonT(30) DEF Next, Work, Progress

-----------------------------------------------------------------------------
(* What a command knows of its writes. *)

(* A command that is not answered keeps the results of its parts. *)
CarriesOn(c) ==
    /\ conn'[c].next = conn[c].next /\ answers'[c] = answers[c]
    /\ \A i \in DOMAIN part[c] :
          part[c][i].res.code \in {"ok", "unknown"} =>
              i \in DOMAIN part'[c] /\ part'[c][i] = part[c][i]

(* A write is answered with TRYAGAIN only if no part of it may have taken effect. *)
Answered(c, result) ==
    /\ conn'[c].next = conn[c].next + 1 /\ answers'[c] = Append(answers[c], result)
    /\ result = "tryagain" /\ Request(c).op \notin Local \cup Reads \cup Renames =>
          \A i \in DOMAIN part[c] : part[c][i].res.code \notin {"ok", "unknown"}

LEMMA KnownStays ==
    ASSUME ConnInv, script' = script, NEW c \in Conns, NEW n \in DOMAIN script[c], Known(c, n),
           CarriesOn(c) \/ \E result : Answered(c, result)
    PROVE  Known(c, n)'
<1>1. PICK q, m, l : q = script[c][n] /\ m = conn[c].next /\ l = answers[c]
  BY Zenon
<1>2. /\ q.op \notin Local \cup Reads /\ script'[c][n] = q
      /\ \/ q.op \in Renames
         \/ n < m /\ l[n] # "tryagain"
         \/ n = m /\ \E i \in DOMAIN part[c] : part[c][i].res.code \in {"ok", "unknown"}
  BY <1>1, Zenon DEF Known
<1>3. n \in Nat \ {0} /\ m \in Nat /\ m = Len(l) + 1 /\ l \in Seq(Results) /\ Len(l) \in Nat
  <2>1. DOMAIN script[c] = 1..Len(script[c]) /\ Len(script[c]) \in Nat
    BY ScriptIs, Zenon
  <2>2. m \in Nat /\ m = Len(l) + 1 /\ l \in Seq(Results) /\ Len(l) \in Nat
    BY <1>1, ConnIs, ZenonT(30)
  <2> QED BY <2>1, <2>2
<1>4. SUFFICES ASSUME q.op \notin Renames
               PROVE  \/ n < conn'[c].next /\ answers'[c][n] # "tryagain"
                      \/ /\ n = conn'[c].next
                         /\ \E i \in DOMAIN part'[c] : part'[c][i].res.code \in {"ok", "unknown"}
  BY <1>2 DEF Known, Local, Reads, Renames
<1>5. CASE CarriesOn(c)
  BY <1>1, <1>2, <1>4, <1>5, Zenon DEF CarriesOn
<1>6. ASSUME NEW result, Answered(c, result)
      PROVE  n < conn'[c].next /\ answers'[c][n] # "tryagain"
  <2>1. conn'[c].next = m + 1 /\ answers'[c] = Append(l, result)
    BY <1>1, <1>6, Zenon DEF Answered
  <2>2. CASE n < m
    <3>1. l[n] # "tryagain"
      <4>1. n # m
        BY <1>3, <2>2
      <4> QED BY <1>2, <1>4, <4>1, ZenonT(30)
    <3>2. n < m + 1 /\ Append(l, result)[n] = l[n]
      BY <1>3, <2>2
    <3> QED BY <2>1, <3>1, <3>2, ZenonT(30)
  <2>3. CASE ~ (n < m)
    <3>1. n = m /\ \E i \in DOMAIN part[c] : part[c][i].res.code \in {"ok", "unknown"}
      BY <1>2, <1>4, <2>3, Zenon
    <3>2. Request(c) = q
      BY <1>1, <3>1, Zenon DEF Request
    <3>3. result # "tryagain"
      BY <1>2, <1>4, <1>6, <3>1, <3>2, ZenonT(30) DEF Answered
    <3>4. n < m + 1 /\ Append(l, result)[n] = result
      BY <1>3, <3>1
    <3> QED BY <2>1, <3>3, <3>4, Zenon
  <2> QED BY <2>2, <2>3, Zenon
<1> QED BY <1>5, <1>6, Zenon

LEMMA RetryStays ==
    ASSUME ConnInv, RetryInv, script' = script,
           \A d \in Conns : CarriesOn(d) \/ \E result : Answered(d, result),
           \A cmd \in wrote' : cmd \in wrote \/ IsCommand(cmd),
           \A d \in Conns : \A n \in DOMAIN script[d] :
              Reached(<<d, n>>)' => Reached(<<d, n>>) \/ Known(d, n)'
    PROVE  RetryInv'
<1>1. ASSUME NEW cmd \in wrote' PROVE IsCommand(cmd)'
  BY Zenon DEF RetryInv, IsCommand
<1>2. ASSUME NEW d \in Conns, NEW n \in DOMAIN script'[d], Reached(<<d, n>>)'
      PROVE  Known(d, n)'
  <2>1. n \in DOMAIN script[d]
    BY Zenon
  <2>2. Reached(<<d, n>>) => Known(d, n)
    BY <2>1, Zenon DEF RetryInv
  <2> QED BY <1>2, <2>1, <2>2, KnownStays, Zenon
<1> QED BY <1>1, <1>2, Zenon DEF RetryInv

(* Only a part that is not done goes on. *)
LEMMA Touches ==
    ASSUME PartInv, conn' = conn, answers' = answers, NEW c \in Conns, NEW i \in DOMAIN part[c],
           part[c][i].pc # "done", NEW p, part' = [part EXCEPT ![c][i] = p]
    PROVE  (\A d \in Conns : CarriesOn(d)) /\ i \in DOMAIN part'[c] /\ part'[c][i] = p
<1>1. part[c][i].res.code \notin {"ok", "unknown"}
  <2>1. part[c][i].res.code = "none"
    BY PartIs, Zenon DEF PartOK
  <2> QED BY <2>1
<1>2. /\ DOMAIN part'[c] = DOMAIN part[c] /\ part'[c][i] = p
      /\ \A j \in DOMAIN part[c] : j # i => part'[c][j] = part[c][j]
      /\ \A d \in Conns : d # c => part'[d] = part[d]
  BY Zenon DEF PartInv
<1> QED BY <1>1, <1>2, Zenon DEF CarriesOn

LEMMA DoneTouches ==
    ASSUME PartInv, conn' = conn, answers' = answers, NEW c \in Conns, NEW i \in DOMAIN part[c],
           part[c][i].pc # "done", NEW code, NEW reply, NEW should,
           Done(c, i, Result(code, reply, should))
    PROVE  /\ \A d \in Conns : CarriesOn(d)
           /\ i \in DOMAIN part'[c] /\ part'[c][i].res.code = code
<1> DEFINE p == [NewPart("done") EXCEPT !.res = Result(code, reply, should)]
<1>1. part' = [part EXCEPT ![c][i] = p]
  BY Zenon DEF Done
<1>2. p.res.code = code
  BY DEF NewPart, Result
<1> HIDE DEF p
<1> QED BY <1>1, <1>2, Touches, Zenon

(* A write by the command of a connection reaches only that command. *)
LEMMA NowKnown ==
    ASSUME ConnInv, PartInv, NEW c \in Conns, NEW i \in DOMAIN part[c], Writing(c, i),
           script' = script, conn' = conn,
           \/ Request(c).op \in Renames
           \/ i \in DOMAIN part'[c] /\ part'[c][i].res.code \in {"ok", "unknown"}
    PROVE  Known(c, conn[c].next)'
<1>1. PICK q, n : q = Request(c) /\ n = conn[c].next
  BY Zenon
<1>2. q.op \notin Local \cup Reads
  BY <1>1, WritingIs, PartOf, Zenon DEF WriteOK
<1>3. script'[c][n] = q /\ conn'[c].next = n
  BY <1>1, Zenon DEF Request
<1> QED BY <1>1, <1>2, <1>3 DEF Known, Local, Reads, Renames

LEMMA CommandIs ==
    ASSUME NEW c, NEW d, NEW n, <<d, n>> = Command(c)
    PROVE  d = c /\ n = conn[c].next
BY DEF Command

LEMMA RetryPartStep ==
    ASSUME ConnInv, PartInv, RetryInv, NEW c \in Conns, NEW i \in DOMAIN part[c],
           Lock(c, i) \/ Read(c, i) \/ WriteApplies(c, i) \/ WriteRejected(c, i)
    PROVE  RetryInv'
<1>1. UNCHANGED <<script, conn, answers, late>>
  BY ZenonT(30) DEF Lock, Read, WriteApplies, WriteRejected, history
<1>2. part[c][i].pc # "done"
  <2>1. part[c][i].pc \in {"lock", "read", "write", "delete"}
    BY Zenon DEF Lock, Read, WriteApplies, WriteRejected, Writing, At
  <2> QED BY <2>1
<1>3. ASSUME NEW p, part' = [part EXCEPT ![c][i] = p] PROVE \A d \in Conns : CarriesOn(d)
  BY <1>1, <1>2, <1>3, Touches, Zenon
<1>4. ASSUME NEW res, Done(c, i, res) PROVE \A d \in Conns : CarriesOn(d)
  BY <1>3, <1>4, Zenon DEF Done
<1>5. ASSUME NEW p, Goto(c, i, p) PROVE \A d \in Conns : CarriesOn(d)
  BY <1>3, <1>5, Zenon DEF Goto
<1>6. \A d \in Conns : CarriesOn(d)
  <2>1. CASE Lock(c, i)
    <3>1. PICK p : p = [part[c][i] EXCEPT !.pc = "read"]
      BY Zenon
    <3>2. part' = [part EXCEPT ![c][i] = p]
      BY <2>1, <3>1, Zenon DEF Lock
    <3> QED BY <1>3, <3>2, Zenon
  <2>2. CASE Read(c, i)
    <3>1. PICK q, by : q = Request(c) /\ by = Command(c)
      BY Zenon
    <3>2. PICK cur : cur = View(KeyOf(c, i))
      BY Zenon
    <3>3. PICK d : d = Decide(q, by, cur)
      BY Zenon
    <3>4. (\E res : Done(c, i, res)) \/ (\E p : Goto(c, i, p))
      BY <2>2, <3>1, <3>2, <3>3, ReadCases, ZenonT(30)
    <3> QED BY <1>4, <1>5, <3>4, Zenon
  <2>3. CASE WriteApplies(c, i)
    <3>1. (\E res : Done(c, i, res)) \/ (\E p : Goto(c, i, p))
      BY <2>3, Zenon DEF WriteApplies
    <3> QED BY <1>4, <1>5, <3>1, Zenon
  <2>4. CASE WriteRejected(c, i)
    <3>1. (\E res : Done(c, i, res)) \/ (\E p : Goto(c, i, p))
      BY <2>4 DEF WriteRejected
    <3> QED BY <1>4, <1>5, <3>1, Zenon
  <2> QED BY <2>1, <2>2, <2>3, <2>4, Zenon
<1>7. CASE Lock(c, i) \/ Read(c, i) \/ WriteRejected(c, i)
  <2>1. wrote' = wrote
    BY <1>7, Zenon DEF Lock, Read, WriteRejected, history
  <2>2. \A cmd : Reached(cmd)' => Reached(cmd)
    BY <1>1, <2>1, Zenon DEF Reached
  <2> QED BY <1>1, <1>6, <2>1, <2>2, RetryStays, Zenon
<1>8. CASE WriteApplies(c, i)
  <2>1. PICK w : w = WriteOf(c, i)
    BY Zenon
  <2>2. /\ Writing(c, i) /\ TakeEffect(w)
        /\ Request(c).op \in Renames \/ Done(c, i, Result("ok", w.change.reply, Ideal(w).reply))
    BY <1>8, <2>1, Zenon DEF WriteApplies
  <2>3. wrote' = wrote \cup {Command(c)}
    BY <2>1, <2>2, WritingIs, Zenon DEF TakeEffect
  <2>4. ASSUME Request(c).op \notin Renames
        PROVE  i \in DOMAIN part'[c] /\ part'[c][i].res.code \in {"ok", "unknown"}
    <3>1. PICK reply, should : reply = w.change.reply /\ should = Ideal(w).reply
      BY Zenon
    <3>2. Done(c, i, Result("ok", reply, should))
      BY <2>2, <2>4, <3>1, Zenon
    <3> QED BY <1>1, <1>2, <3>2, DoneTouches, Zenon
  <2>5. Known(c, conn[c].next)'
    BY <1>1, <2>2, <2>4, NowKnown, Zenon
  <2>6. ASSUME NEW d \in Conns, NEW n \in DOMAIN script[d], Reached(<<d, n>>)'
        PROVE  Reached(<<d, n>>) \/ Known(d, n)'
    <3>1. Reached(<<d, n>>) \/ <<d, n>> = Command(c)
      BY <1>1, <2>3, <2>6, Zenon DEF Reached
    <3>2. ASSUME <<d, n>> = Command(c) PROVE Known(d, n)'
      <4>1. d = c /\ n = conn[c].next /\ n = conn'[c].next
        BY <1>1, <3>2, CommandIs, Zenon
      <4> QED BY <1>1, <2>5, <4>1, Zenon DEF Known
    <3> QED BY <3>1, <3>2, Zenon
  <2>7. \A cmd \in wrote' : cmd \in wrote \/ IsCommand(cmd)
    BY <2>3, PartOf, Zenon
  <2> QED BY <1>1, <1>6, <2>6, <2>7, RetryStays, Zenon
<1> QED BY <1>7, <1>8, Zenon

LEMMA RetryFailsStep ==
    ASSUME ConnInv, PartInv, RetryInv, NEW c \in Conns, NEW i \in DOMAIN part[c], CallFails(c, i)
    PROVE  RetryInv'
<1>1. UNCHANGED <<script, conn, answers, wrote>>
  BY Zenon DEF CallFails, history
<1>2. part[c][i].pc # "done"
  <2>1. part[c][i].pc \in {"read", "write", "delete"}
    BY Zenon DEF CallFails, Writing, At
  <2> QED BY <2>1
<1>3. CASE /\ Writing(c, i) /\ late' = late \cup {WriteOf(c, i)}
           /\ Done(c, i, Result("unknown", Nil, Nil))
  <2>1. /\ \A d \in Conns : CarriesOn(d)
        /\ i \in DOMAIN part'[c] /\ part'[c][i].res.code = "unknown"
    BY <1>1, <1>2, <1>3, DoneTouches, Zenon
  <2>2. Known(c, conn[c].next)'
    BY <1>1, <1>3, <2>1, NowKnown, Zenon
  <2>3. ASSUME NEW d \in Conns, NEW n \in DOMAIN script[d], Reached(<<d, n>>)'
        PROVE  Reached(<<d, n>>) \/ Known(d, n)'
    <3>1. Reached(<<d, n>>) \/ <<d, n>> = WriteOf(c, i).cmd
      BY <1>1, <1>3, <2>3, Zenon DEF Reached
    <3>2. ASSUME <<d, n>> = WriteOf(c, i).cmd PROVE Known(d, n)'
      <4>1. d = c /\ n = conn[c].next /\ n = conn'[c].next
        <5>1. <<d, n>> = Command(c)
          BY <1>3, <3>2, WritingIs, ZenonT(30)
        <5> QED BY <1>1, <5>1, CommandIs, Zenon
      <4> QED BY <1>1, <2>2, <4>1, Zenon DEF Known
    <3> QED BY <3>1, <3>2, Zenon
  <2> QED BY <1>1, <2>1, <2>3, RetryStays, Zenon
<1>4. CASE late' = late /\ Done(c, i, Result("tryagain", Nil, Nil))
  <2>1. \A d \in Conns : CarriesOn(d)
    BY <1>1, <1>2, <1>4, DoneTouches, Zenon
  <2>2. \A cmd : Reached(cmd)' => Reached(cmd)
    BY <1>1, <1>4, Zenon DEF Reached
  <2> QED BY <1>1, <2>1, <2>2, RetryStays, Zenon
<1> QED BY <1>3, <1>4, Zenon DEF CallFails

LEMMA RetryKept ==
    ASSUME ConnInv, RetryInv, UNCHANGED <<script, conn, answers, part, wrote, late>>
    PROVE  RetryInv'
<1>1. \A d \in Conns : CarriesOn(d)
  BY Zenon DEF CarriesOn
<1>2. \A cmd : Reached(cmd)' => Reached(cmd)
  BY Zenon DEF Reached
<1> QED BY <1>1, <1>2, RetryStays, Zenon

LEMMA RetryLateStep ==
    ASSUME ConnInv, RecordInv, RetryInv, NEW w \in late, LateWrite(w)
    PROVE  RetryInv'
<1>1. /\ UNCHANGED <<script, conn, answers, part>> /\ late' \subseteq late
      /\ wrote' = wrote \cup {w.cmd} /\ IsCommand(w.cmd)
  BY Zenon DEF LateWrite, TakeEffect, RecordInv, WriteOK
<1>2. \A d \in Conns : CarriesOn(d)
  BY <1>1, Zenon DEF CarriesOn
<1>3. \A cmd : Reached(cmd)' => Reached(cmd)
  BY <1>1, Zenon DEF Reached
<1> QED BY <1>1, <1>2, <1>3, RetryStays, Zenon

LEMMA RetryRunStep ==
    ASSUME ConnInv, PartInv, RetryInv, NEW c \in Conns, Run(c)
    PROVE  RetryInv'
<1>1. UNCHANGED <<script, answers, late, wrote>> /\ ~ conn[c].running
  BY Zenon DEF Run, Ready, history
<1>2. DOMAIN part[c] = {}
  BY <1>1, Zenon DEF PartInv
<1>3. /\ conn'[c].next = conn[c].next
      /\ \A d \in Conns : d # c => conn'[d] = conn[d] /\ part'[d] = part[d]
  <2>1. \A d \in Conns : d # c => part'[d] = part[d]
    BY Zenon DEF Run, PartInv
  <2> QED BY <2>1, RunIs, Zenon
<1>4. \A d \in Conns : CarriesOn(d)
  BY <1>1, <1>2, <1>3, Zenon DEF CarriesOn
<1>5. \A cmd : Reached(cmd)' => Reached(cmd)
  BY <1>1, Zenon DEF Reached
<1> QED BY <1>1, <1>4, <1>5, RetryStays, Zenon

(* A request that is settled: the others carry on. *)
LEMMA SettledAnswers ==
    ASSUME ConnInv, PartInv, NEW c \in Conns, NEW cn, NEW r, Settle(c, cn, r),
           Refused(c) \/ RunLocal(c) \/ Finish(c) \/ Deadline(c)
    PROVE  /\ conn'[c].next = conn[c].next + 1 /\ answers'[c] = Append(answers[c], r)
           /\ script' = script /\ \A d \in Conns : d # c => CarriesOn(d)
<1>1. PICK x, y : Settled(c, x, y)
  BY SettlingActions, Zenon
<1>2. /\ conn'[c].next = conn[c].next + 1 /\ script' = script
      /\ \A d \in Conns : d # c => conn'[d] = conn[d] /\ answers'[d] = answers[d]
  BY <1>1, SettleIs, Zenon DEF Settled
<1>3. answers' = [answers EXCEPT ![c] = Append(@, r)] /\ part' = [part EXCEPT ![c] = <<>>]
  BY Zenon DEF Settle
<1>4. answers'[c] = Append(answers[c], r) /\ \A d \in Conns : d # c => part'[d] = part[d]
  BY <1>3, Zenon DEF ConnInv, PartInv
<1> QED BY <1>2, <1>4, Zenon DEF CarriesOn

LEMMA RetrySettledStep ==
    ASSUME ConnInv, PartInv, RetryInv, NEW c \in Conns,
           Refused(c) \/ RunLocal(c) \/ Finish(c)
    PROVE  RetryInv'
<1>1. PICK cn, r : /\ Settle(c, cn, r)
                   /\ \/ ~ conn[c].running
                      \/ conn[c].running /\ Outcome(c, r)
  BY Zenon DEF Refused, RunLocal, Finish, Ready
<1>2. /\ conn'[c].next = conn[c].next + 1 /\ answers'[c] = Append(answers[c], r)
      /\ script' = script /\ \A d \in Conns : d # c => CarriesOn(d)
  BY <1>1, SettledAnswers, Zenon
<1>3. ASSUME r = "tryagain", Request(c).op \notin Local \cup Reads \cup Renames
      PROVE  \A i \in DOMAIN part[c] : part[c][i].res.code \notin {"ok", "unknown"}
  <2>1. CASE ~ conn[c].running
    BY <2>1, Zenon DEF PartInv
  <2>2. CASE conn[c].running /\ Outcome(c, r)
    BY <1>3, <2>2, OutcomeIs, Zenon
  <2> QED BY <1>1, <2>1, <2>2, Zenon
<1>4. Answered(c, r)
  BY <1>2, <1>3, Zenon DEF Answered
<1>5. UNCHANGED <<late, wrote>>
  BY Zenon DEF Refused, RunLocal, Finish
<1>6. \A cmd : Reached(cmd)' => Reached(cmd)
  BY <1>5, Zenon DEF Reached
<1> QED BY <1>2, <1>4, <1>5, <1>6, RetryStays, ZenonT(30)

(* A command that is cut off while it writes is told that it may have written. *)
LEMMA RetryDeadlineStep ==
    ASSUME ConnInv, PartInv, RetryInv, NEW c \in Conns, Deadline(c)
    PROVE  RetryInv'
<1>1. PICK q, m, r : /\ q = Request(c) /\ m = conn[c].next
                     /\ r = IF Request(c).op \in Reads THEN "tryagain" ELSE "unknown"
  BY Zenon
<1>2. Settle(c, conn[c], r) /\ wrote' = wrote
      /\ late' = late \cup {WriteOf(c, i) : i \in {i \in DOMAIN part[c] : Writing(c, i)}}
  BY <1>1, Zenon DEF Deadline
<1>3. /\ conn'[c].next = m + 1 /\ answers'[c] = Append(answers[c], r)
      /\ script' = script /\ \A d \in Conns : d # c => CarriesOn(d)
  BY <1>1, <1>2, SettledAnswers, Zenon
<1>4. Answered(c, r)
  <2>1. q.op \notin Reads => r # "tryagain"
    BY <1>1
  <2> QED BY <1>1, <1>3, <2>1, Zenon DEF Answered
<1>5. ASSUME NEW i \in DOMAIN part[c], Writing(c, i) PROVE Known(c, m)'
  <2>1. q.op \notin Local \cup Reads /\ script'[c][m] = q
    BY <1>1, <1>3, <1>5, WritingIs, PartOf, ZenonT(30) DEF WriteOK, Request
  <2>2. r = "unknown"
    BY <1>1, <2>1, Zenon
  <2>3. m \in Nat /\ m = Len(answers[c]) + 1 /\ answers[c] \in Seq(Results)
    BY <1>1, ConnIs, Zenon
  <2>4. m < conn'[c].next /\ answers'[c][m] = r
    BY <1>3, <2>3
  <2> QED BY <2>1, <2>2, <2>4 DEF Known, Local, Reads, Renames
<1>6. ASSUME NEW d \in Conns, NEW n \in DOMAIN script[d], Reached(<<d, n>>)'
      PROVE  Reached(<<d, n>>) \/ Known(d, n)'
  <2>1. CASE ~ Reached(<<d, n>>)
    <3>1. PICK i \in DOMAIN part[c] : Writing(c, i) /\ WriteOf(c, i).cmd = <<d, n>>
      BY <1>2, <1>6, <2>1, Zenon DEF Reached
    <3>2. <<d, n>> = Command(c)
      BY <3>1, WritingIs, Zenon
    <3>3. d = c /\ n = m
      BY <1>1, <3>2, CommandIs, Zenon
    <3> QED BY <1>5, <3>1, <3>3
  <2> QED BY <2>1, ZenonT(30)
<1> QED BY <1>2, <1>3, <1>4, <1>6, RetryStays, Zenon

LEMMA RetryStep ==
    ASSUME ConnInv, PartInv, RecordInv, RetryInv, [Next]_vars
    PROVE  RetryInv'
<1>1. CASE \E c \in Conns : PartStep(c)
  BY <1>1, RetryPartStep, Zenon DEF PartStep
<1>2. CASE (\E g \in Gateways : Connect(g)) \/ Tick \/ UNCHANGED vars
  <2>1. UNCHANGED <<script, conn, answers, part, wrote, late>>
    BY <1>2, Zenon DEF Connect, Tick, vars, history
  <2> QED BY <2>1, RetryKept, Zenon
<1>3. CASE \E c \in Conns : \E i \in DOMAIN part[c] : CallFails(c, i)
  BY <1>3, RetryFailsStep, Zenon
<1>4. CASE \E w \in late : LateWrite(w)
  BY <1>4, RetryLateStep, Zenon
<1>5. CASE \E c \in Conns : Refused(c) \/ RunLocal(c) \/ Run(c) \/ Finish(c) \/ Deadline(c)
  BY <1>5, RetryRunStep, RetrySettledStep, RetryDeadlineStep, Zenon
<1> QED BY <1>1, <1>2, <1>3, <1>4, <1>5, Zenon DEF Next, Work, Progress

-----------------------------------------------------------------------------

LEMMA GatewayInit == Init => GatewayInv
<1> SUFFICES ASSUME Init PROVE GatewayInv
  BY Zenon
<1>1. ConnInv
  <2>1. /\ script \in Scenarios /\ now \in 1..MaxNow
        /\ answers \in [Conns -> Seq(Results)] /\ sent \in [Conns -> Seq(Nat)]
    BY GatewayAssumption DEF Init
  <2>2. conn \in [Conns -> ConnType]
    BY GatewayAssumption DEF Init, ConnType
  <2>3. ASSUME NEW c \in Conns
        PROVE  /\ conn[c].next = Len(answers[c]) + 1 /\ Len(answers[c]) <= Len(script[c])
               /\ conn[c].running = FALSE
    <3>1. conn[c].next = 1 /\ conn[c].running = FALSE /\ answers[c] = <<>>
      BY DEF Init
    <3>2. script[c] \in Seq(Requests)
      BY <2>1, GatewayAssumption, Zenon
    <3> QED BY <3>1, <3>2
  <2> QED BY <2>1, <2>2, <2>3, ZenonT(30) DEF ConnInv
<1>2. ReplyInv
  <2> SUFFICES ASSUME NEW c \in Conns
               PROVE  /\ InOrder(c)
                      /\ conn[c].mode = IF TurnedOff(c, conn[c].next) THEN "off"
                                        ELSE IF Skipped(c, conn[c].next) THEN "skip" ELSE "on"
    BY Zenon DEF ReplyInv
  <2>1. /\ conn[c].next = 1 /\ conn[c].mode = "on" /\ DOMAIN answers[c] = {}
        /\ DOMAIN sent[c] = {}
    BY DEF Init
  <2>2. InOrder(c)
    BY <2>1, Zenon DEF InOrder, Increasing, Elements
  <2>3. ~ TurnedOff(c, 1) /\ ~ Skipped(c, 1)
    BY DEF TurnedOff, Skipped
  <2> QED BY <2>1, <2>2, <2>3, Zenon
<1>3. RecordInv
  BY NoValueIs, ZenonT(30) DEF Init, RecordInv
<1>4. PartInv
  BY DEF Init, PartInv
<1>5. RetryInv
  BY Zenon DEF Init, RetryInv, Reached
<1> QED BY <1>1, <1>2, <1>3, <1>4, <1>5, Zenon DEF GatewayInv

LEMMA GatewayStep == GatewayInv /\ [Next]_vars => GatewayInv'
BY ConnStep, DataStep, RetryStep, Zenon DEF GatewayInv

LEMMA GatewayInductive == Spec => []GatewayInv
BY GatewayInit, GatewayStep, PTL DEF Spec
-----------------------------------------------------------------------------

(* Every command that computes from what it read (update in strings.rs and keys.rs) is
   atomic against every other writer, with any number of connections, gateways and keys,
   and however late a write that was given up arrives. *)
THEOREM AtomicCommands == Spec => []CommandsAreAtomic
<1>1. GatewayInv => CommandsAreAtomic
  <2> SUFFICES ASSUME GatewayInv PROVE CommandsAreAtomic
    BY Zenon
  <2>1. \A k \in Keys : Seen(rec[k]) = Seen(ideal[k])
    BY Zenon DEF GatewayInv, RecordInv
  <2>2. \A c \in Conns : \A i \in DOMAIN part[c] :
           part[c][i].res.reply = part[c][i].res.should
    BY PartIs, Zenon DEF GatewayInv, PartOK
  <2> QED BY <2>1, <2>2, Zenon DEF CommandsAreAtomic
<1> QED BY <1>1, GatewayInductive, PTL

(* A command on several keys that partial_write_outcome lets be answered with TRYAGAIN
   has written nothing and never will. *)
THEOREM SafeRetries == Spec => []MultiKeyRetryIsSafe
<1>1. GatewayInv => MultiKeyRetryIsSafe
  <2> SUFFICES ASSUME GatewayInv, NEW c \in Conns, NEW n \in DOMAIN answers[c],
                      answers[c][n] = "tryagain", script[c][n].op \notin Renames,
                      <<c, n>> \in wrote
               PROVE  FALSE
    BY Zenon DEF MultiKeyRetryIsSafe
  <2>1. ConnInv /\ RetryInv
    BY Zenon DEF GatewayInv
  <2>2. n \in DOMAIN script[c] /\ n < conn[c].next
    <3>1. /\ DOMAIN answers[c] = 1..(conn[c].next - 1) /\ conn[c].next = Len(answers[c]) + 1
          /\ Len(answers[c]) <= Len(script[c]) /\ Len(answers[c]) \in Nat
          /\ conn[c].next \in Nat
      BY <2>1, ConnIs, Zenon
    <3>2. DOMAIN script[c] = 1..Len(script[c]) /\ Len(script[c]) \in Nat
      BY <2>1, ScriptIs, Zenon
    <3> QED BY <3>1, <3>2
  <2>3. Known(c, n)
    BY <2>1, <2>2, ZenonT(30) DEF RetryInv, Reached
  <2>4. n # conn[c].next
    <3>1. conn[c].next \in Nat
      BY <2>1, ConnIs, Zenon
    <3> QED BY <2>2, <3>1
  <2> QED BY <2>3, <2>4, Zenon DEF Known
<1> QED BY <1>1, GatewayInductive, PTL

(* The delete that ends a RENAME (delete_versioned in rename) removes no value but the
   one that was copied. *)
THEOREM RenameKeeps == Spec => []RenameLosesNothing
<1>1. GatewayInv => RenameLosesNothing
  BY Zenon DEF GatewayInv, RecordInv, RenameLosesNothing
<1> QED BY <1>1, GatewayInductive, PTL

(* Every request of a pipeline is answered once and in order, but for those that
   CLIENT REPLY silences (settle in connection.rs); values stay within their limit. *)
THEOREM RepliesInOrder == Spec => []RepliesFollowRequests
<1>1. GatewayInv => RepliesFollowRequests
  <2> SUFFICES ASSUME GatewayInv PROVE RepliesFollowRequests
    BY Zenon
  <2>1. ConnInv /\ ReplyInv /\ RecordInv /\ RetryInv
    BY Zenon DEF GatewayInv
  <2>2. ASSUME NEW cmd \in wrote PROVE cmd[2] \in DOMAIN script[cmd[1]]
    <3>1. PICK c \in Conns : \E n \in DOMAIN script[c] : cmd = <<c, n>>
      BY <2>1, Zenon DEF RetryInv, IsCommand
    <3>2. PICK n \in DOMAIN script[c] : cmd = <<c, n>>
      BY <3>1, Zenon
    <3> QED BY <3>2
  <2>3. ASSUME NEW c \in Conns
        PROVE  /\ conn[c].mode \in {"on", "off", "skip"}
               /\ \A n \in DOMAIN answers[c] : answers[c][n] \in Results
    <3>1. conn[c] \in ConnType /\ answers[c] \in Seq(Results)
      BY <2>1, ConnIs, Zenon
    <3> QED BY <3>1 DEF ConnType
  <2>4. \A k \in Keys : Len(rec[k].val.by) <= MaxValue
    BY <2>1, Zenon DEF RecordInv, IsRecord, IsValue
  <2>5. now \in 1..MaxNow /\ \A c \in Conns : InOrder(c)
    BY <2>1, Zenon DEF ConnInv, ReplyInv
  <2> QED BY <2>2, <2>3, <2>4, <2>5, Zenon DEF RepliesFollowRequests, TypeOK
<1> QED BY <1>1, GatewayInductive, PTL
=============================================================================

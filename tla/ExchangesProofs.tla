--------------------------- MODULE ExchangesProofs ----------------------------
(***************************************************************************)
(* Proofs about the exchanges of module Exchanges: for each component an   *)
(* inductive invariant (DnsInv, ClientInv, ..., and MediaInv of module     *)
(* MediaProofs), that it holds at first and that every step keeps it; and  *)
(* the properties of the composition.                                      *)
(***************************************************************************)
EXTENDS MediaProofs

-------------------------------------------------------------------------------
(* DnsClient: the DNS client. *)

DnsFields == {"st", "proto", "ntx", "tc", "tmr", "err", "calls"}

(* the handler of a query was called when it is done *)
DnsSound(r) ==
    /\ DOMAIN r = DnsFields /\ r.ntx \in Nat
    /\ r.calls = IF r.st = "done" THEN 1 ELSE 0

(* A query is to be moved, or under way with its timer and, over TCP, on an
   open connection, or over. *)
DnsPlace(i) ==
    /\ i \in dns_todo => dns_q[i].st \in {"starting", "active"} /\ dns_q[i].proto = "tcp" /\ dns_q[i].tc = 0
    /\ dns_q[i].st = "active" => dns_q[i].tmr
    /\ dns_q[i].st = "active" /\ dns_q[i].proto = "tcp" /\ i \notin dns_todo =>
          dns_q[i].tc \in Dns!Servers /\ dns_conn[dns_q[i].tc] # "none"
    /\ dns_q[i].st # "active" => dns_q[i].tc = 0
    /\ dns_q[i].proto # "tcp" => dns_q[i].tc = 0

DnsConns ==
    /\ DOMAIN dns_conn = Dns!Servers /\ dns_ctmr \subseteq Dns!Servers
    /\ \A s \in Dns!Servers : dns_conn[s] # "none" <=> s \in dns_ctmr

DnsInv ==
    /\ DOMAIN dns_q = Query /\ dns_todo \subseteq Query /\ DnsConns
    /\ \A i \in Query : DnsSound(dns_q[i]) /\ DnsPlace(i)

(* A query nobody has started. *)
LEMMA DnsUnused == DnsSound(Dns!Unused) /\ Dns!Unused.st = "none" /\ Dns!Unused.tc = 0 /\ Dns!Unused.ntx = 0 /\ Dns!Unused.proto = "udp"
                   /\ DOMAIN Dns!Unused = DnsFields /\ Dns!Unused.calls = 0
BY DEF Dns!Unused, DnsSound, DnsFields

(* The resolver begins in the invariant. *)
LEMMA DnsInit == Dns!Init => DnsInv
<1> SUFFICES ASSUME Dns!Init PROVE DnsInv
  OBVIOUS
<1>1. DnsConns /\ DOMAIN dns_q = Query /\ dns_todo \subseteq Query
  BY DEF Dns!Init, DnsConns
<1>2. \A i \in Query : dns_q[i] = Dns!Unused /\ i \notin dns_todo
  BY DEF Dns!Init
<1>3. \A i \in Query : DnsSound(dns_q[i]) /\ DnsPlace(i)
  BY <1>2, DnsUnused DEF DnsPlace
<1> QED BY <1>1, <1>3 DEF DnsInv

(* One query changes, and no connection that was open is closed. *)
LEMMA DnsOne ==
  ASSUME DnsInv, NEW i \in Query, NEW x, dns_q' = [dns_q EXCEPT ![i] = x], DnsConns',
         dns_todo' \subseteq Query, \A j \in Query : j # i => (j \in dns_todo' <=> j \in dns_todo),
         \A s \in Dns!Servers : dns_conn[s] # "none" => dns_conn'[s] # "none",
         DnsSound(x),
         i \in dns_todo' => x.st \in {"starting", "active"} /\ x.proto = "tcp" /\ x.tc = 0,
         x.st = "active" => x.tmr,
         x.st = "active" /\ x.proto = "tcp" /\ i \notin dns_todo' =>
            x.tc \in Dns!Servers /\ dns_conn'[x.tc] # "none",
         x.st # "active" => x.tc = 0, x.proto # "tcp" => x.tc = 0
  PROVE  DnsInv'
<1>1. DOMAIN dns_q' = Query /\ dns_q'[i] = x /\ \A j \in Query : j # i => dns_q'[j] = dns_q[j]
  BY DEF DnsInv
<1>2. DnsSound(dns_q[i])' /\ DnsPlace(i)'
  BY <1>1 DEF DnsSound, DnsPlace, DnsFields, Dns!Servers
<1>3. \A j \in Query : j # i => (DnsSound(dns_q[j]) /\ DnsPlace(j))'
  <2> SUFFICES ASSUME NEW j \in Query, j # i PROVE (DnsSound(dns_q[j]) /\ DnsPlace(j))'
    OBVIOUS
  <2>1. DnsSound(dns_q[j]) /\ DnsPlace(j) /\ dns_q'[j] = dns_q[j] /\ (j \in dns_todo' <=> j \in dns_todo)
    BY <1>1 DEF DnsInv
  <2>2. DnsSound(dns_q[j])'
    BY <2>1 DEF DnsSound
  <2>3. DnsPlace(j)'
    BY <2>1 DEF DnsPlace
  <2> QED BY <2>2, <2>3
<1> QED BY <1>1, <1>2, <1>3 DEF DnsInv

(* A query that is over. *)
LEMMA DnsDone ==
  ASSUME NEW r, DnsSound(r), r.st # "done"
  PROVE  DnsSound(Dns!Done(r)) /\ Dns!Done(r).st = "done" /\ Dns!Done(r).tc = 0
<1> DEFINE x == Dns!Done(r)
<1>1. DOMAIN x = DnsFields /\ x.st = "done" /\ x.tc = 0 /\ x.calls = r.calls + 1 /\ x.ntx = r.ntx
  BY DEF Dns!Done, DnsSound, DnsFields
<1>2. r.calls = 0 /\ r.ntx \in Nat
  BY DEF DnsSound
<1> HIDE DEF x
<1>3. DnsSound(x)
  BY <1>1, <1>2 DEF DnsSound
<1> QED BY <1>1, <1>3 DEF x

(* A query that fails is over, and its handler is called unless query()
   refuses. *)
LEMMA DnsFails ==
  ASSUME NEW r, DnsSound(r), r.st # "done"
  PROVE  DnsSound(Dns!Fails(r)) /\ Dns!Fails(r).st \in {"done", "refused"} /\ Dns!Fails(r).tc = 0
<1>1. CASE r.st = "starting"
  <2> DEFINE x == [r EXCEPT !.st = "refused", !.tc = 0, !.tmr = FALSE]
  <2>1. DOMAIN x = DnsFields /\ x.st = "refused" /\ x.tc = 0 /\ x.calls = r.calls /\ x.ntx = r.ntx
    BY DEF DnsSound, DnsFields
  <2>2. Dns!Fails(r) = x
    BY <1>1 DEF Dns!Fails
  <2> HIDE DEF x
  <2>3. r.calls = 0 /\ r.ntx \in Nat
    BY DEF DnsSound
  <2>4. DnsSound(x)
    BY <2>1, <2>3 DEF DnsSound
  <2> QED BY <2>1, <2>2, <2>4
<1>2. CASE r.st # "starting"
  BY <1>2, DnsDone DEF Dns!Fails
<1> QED BY <1>1, <1>2

(* one that is sent over UDP *)
LEMMA DnsSendUdp ==
  ASSUME NEW r, DnsSound(r), r.st # "done", r.tc = 0, NEW x \in Dns!SendUdp(r)
  PROVE  DnsSound(x) /\ x.st = "active" /\ x.tc = 0 /\ x.tmr /\ x.proto = r.proto
<1>1. PICK k \in Dns!Servers : x = [r EXCEPT !.ntx = @ + k, !.st = "active", !.tmr = TRUE]
  BY DEF Dns!SendUdp
<1>2. /\ DOMAIN x = DnsFields /\ x.st = "active" /\ x.tc = 0 /\ x.calls = r.calls
      /\ x.ntx = r.ntx + k /\ x.tmr /\ x.proto = r.proto
  BY <1>1 DEF DnsSound, DnsFields
<1>3. r.calls = 0 /\ r.ntx \in Nat /\ k \in Nat
  BY DnsAssumption DEF DnsSound, Dns!Servers
<1>4. DnsSound(x)
  BY <1>2, <1>3 DEF DnsSound
<1> QED BY <1>2, <1>4

(* one that gets on a connection *)
LEMMA DnsAttach ==
  ASSUME NEW r, DnsSound(r), r.st # "done", NEW s \in Dns!Servers
  PROVE  LET x == Dns!Attach(r, s)
         IN  DnsSound(x) /\ x.st = "active" /\ x.tc = s /\ x.tmr /\ x.proto = r.proto
<1> DEFINE x == Dns!Attach(r, s)
<1>1. /\ DOMAIN x = DnsFields /\ x.st = "active" /\ x.tc = s /\ x.calls = r.calls
      /\ x.ntx = s /\ x.tmr /\ x.proto = r.proto
  BY DEF DnsSound, DnsFields, Dns!Attach
<1>2. r.calls = 0 /\ s \in Nat
  BY DnsAssumption DEF DnsSound, Dns!Servers
<1> HIDE DEF x
<1>3. DnsSound(x)
  BY <1>1, <1>2 DEF DnsSound
<1> QED BY <1>1, <1>3 DEF x

(* one that goes on to the next server *)
LEMMA DnsNextServer ==
  ASSUME NEW r, DnsSound(r)
  PROVE  LET x == [r EXCEPT !.ntx = r.ntx + 1, !.err = TRUE]
         IN  /\ DnsSound(x) /\ x.st = r.st /\ x.tc = r.tc /\ x.proto = r.proto
             /\ (x.tmr <=> r.tmr)
<1> DEFINE x == [r EXCEPT !.ntx = r.ntx + 1, !.err = TRUE]
<1>1. /\ DOMAIN x = DnsFields /\ x.st = r.st /\ x.tc = r.tc /\ x.calls = r.calls
      /\ x.ntx = r.ntx + 1 /\ x.proto = r.proto /\ (x.tmr <=> r.tmr)
  BY DEF DnsSound, DnsFields
<1> HIDE DEF x
<1>2. DnsSound(x)
  BY <1>1 DEF DnsSound
<1> QED BY <1>1, <1>2 DEF x

(* A connection closes: its queries are to be moved. *)
LEMMA DnsClose ==
  ASSUME DnsInv, NEW s \in Dns!Servers, NEW r, Dns!Close(s, r), DOMAIN r = Query,
         \A j \in Query :
            \/ r[j] = dns_q[j]
            \/ /\ j \in dns_todo /\ r[j].st = dns_q[j].st /\ r[j].proto = "tcp" /\ r[j].tc = 0
               /\ (r[j].tmr <=> dns_q[j].tmr) /\ DnsSound(r[j])
            \/ j \notin dns_todo /\ r[j].st = "done" /\ r[j].tc = 0 /\ DnsSound(r[j])
  PROVE  DnsInv'
<1>0. s # 0 /\ DnsConns /\ dns_todo \subseteq Query /\ \A i \in Query : DnsSound(dns_q[i]) /\ DnsPlace(i)
  BY DnsAssumption DEF Dns!Servers, DnsInv
<1>1. /\ dns_conn' = [dns_conn EXCEPT ![s] = "none"] /\ dns_ctmr' = dns_ctmr \ {s}
      /\ dns_q' = [i \in Query |-> IF r[i].tc = s THEN [r[i] EXCEPT !.tc = 0] ELSE r[i]]
      /\ dns_todo' = dns_todo \cup {i \in Dns!On(s) : r[i].st = "active"}
  BY DEF Dns!Close
<1>2. DnsConns'
  BY <1>0, <1>1 DEF DnsConns
<1>3. DOMAIN dns_q' = Query /\ dns_todo' \subseteq Query
  BY <1>0, <1>1 DEF Dns!On
<1>4. \A i \in Query : (DnsSound(dns_q[i]) /\ DnsPlace(i))'
  <2> SUFFICES ASSUME NEW i \in Query PROVE (DnsSound(dns_q[i]) /\ DnsPlace(i))'
    OBVIOUS
  <2>1. DnsSound(dns_q[i]) /\ DnsPlace(i)
    BY <1>0
  <2>2. CASE r[i] = dns_q[i] /\ dns_q[i].tc = s
    <3>1. dns_q'[i] = [dns_q[i] EXCEPT !.tc = 0]
      BY <1>1, <2>2
    <3>2. /\ DOMAIN dns_q'[i] = DnsFields /\ dns_q'[i].st = dns_q[i].st /\ dns_q'[i].tc = 0 /\ (dns_q'[i].tmr <=> dns_q[i].tmr)
          /\ dns_q'[i].calls = dns_q[i].calls /\ dns_q'[i].ntx = dns_q[i].ntx /\ dns_q'[i].proto = dns_q[i].proto
      BY <2>1, <3>1 DEF DnsSound, DnsFields
    <3>3. dns_q[i].st = "active" /\ dns_q[i].proto = "tcp" /\ dns_q[i].tmr
      BY <1>0, <2>1, <2>2 DEF DnsPlace
    <3>4. i \in dns_todo'
      BY <1>1, <2>2, <3>3 DEF Dns!On, Dns!Active
    <3>5. DnsSound(dns_q[i])'
      BY <2>1, <3>2 DEF DnsSound
    <3>6. DnsPlace(i)'
      BY <3>2, <3>3, <3>4 DEF DnsPlace
    <3> QED BY <3>5, <3>6
  <2>3. CASE r[i] = dns_q[i] /\ dns_q[i].tc # s
    <3>1. dns_q'[i] = dns_q[i] /\ (i \in dns_todo' <=> i \in dns_todo)
      BY <1>1, <2>3 DEF Dns!On
    <3>2. dns_q[i].tc \in Dns!Servers => dns_conn'[dns_q[i].tc] = dns_conn[dns_q[i].tc]
      BY <1>0, <1>1, <2>3 DEF DnsConns
    <3>3. DnsSound(dns_q[i])'
      BY <2>1, <3>1 DEF DnsSound
    <3>4. DnsPlace(i)'
      BY <2>1, <3>1, <3>2 DEF DnsPlace
    <3> QED BY <3>3, <3>4
  <2>4. CASE /\ i \in dns_todo /\ r[i].st = dns_q[i].st /\ r[i].proto = "tcp" /\ r[i].tc = 0
             /\ (r[i].tmr <=> dns_q[i].tmr) /\ DnsSound(r[i])
    <3>1. dns_q'[i] = r[i] /\ i \in dns_todo'
      BY <1>0, <1>1, <2>4
    <3>2. DnsSound(dns_q[i])'
      BY <2>4, <3>1 DEF DnsSound
    <3>3. DnsPlace(i)'
      BY <2>1, <2>4, <3>1 DEF DnsPlace
    <3> QED BY <3>2, <3>3
  <2>5. CASE i \notin dns_todo /\ r[i].st = "done" /\ r[i].tc = 0 /\ DnsSound(r[i])
    <3>1. dns_q'[i] = r[i] /\ i \notin dns_todo'
      BY <1>0, <1>1, <2>5
    <3>2. DnsSound(dns_q[i])'
      BY <2>5, <3>1 DEF DnsSound
    <3>3. DnsPlace(i)'
      BY <2>5, <3>1 DEF DnsPlace
    <3> QED BY <3>2, <3>3
  <2> QED BY <2>2, <2>3, <2>4, <2>5
<1> QED BY <1>2, <1>3, <1>4 DEF DnsInv

(* A query is over and nothing else changes. *)
LEMMA DnsEnds ==
  ASSUME DnsInv, NEW i \in Query, NEW x, dns_q' = [dns_q EXCEPT ![i] = x], UNCHANGED <<dns_conn, dns_ctmr>>,
         dns_todo' = dns_todo \ {i}, DnsSound(x), x.tc = 0, x.st # "active"
  PROVE  DnsInv'
<1>1. DnsConns'
  BY DEF DnsInv, DnsConns
<1>2. dns_todo' \subseteq Query /\ \A j \in Query : j # i => (j \in dns_todo' <=> j \in dns_todo)
  BY DEF DnsInv
<1> QED BY <1>1, <1>2, DnsOne

(* A transmission over UDP, or its failure, keeps the invariant: UdpQuery and
   the UDP time-out end in it. *)
LEMMA DnsUdp ==
  ASSUME DnsInv, NEW i \in Query, Dns!Quiet, NEW r, DnsSound(r), r.st # "done", r.tc = 0, r.proto # "tcp",
         NEW x \in Dns!SendUdp(r) \cup {Dns!Fails(r)}, dns_q' = [dns_q EXCEPT ![i] = x],
         UNCHANGED <<dns_conn, dns_ctmr, dns_todo>>
  PROVE  DnsInv'
<1>0. dns_todo = {} /\ dns_todo' = {} /\ DnsConns'
  BY DEF Dns!Quiet, DnsInv, DnsConns
<1>1. CASE x = Dns!Fails(r)
  <2>1. DnsSound(x) /\ x.st # "active" /\ x.tc = 0
    BY <1>1, DnsFails
  <2> QED BY <1>0, <2>1, DnsEnds
<1>2. CASE x \in Dns!SendUdp(r)
  <2>1. DnsSound(x) /\ x.st = "active" /\ x.tc = 0 /\ x.tmr /\ x.proto # "tcp"
    BY <1>2, DnsSendUdp
  <2> QED BY <1>0, <2>1, DnsOne
<1> QED BY <1>1, <1>2

(* send_tcp() moves a query to a connection, or ends it. *)
LEMMA DnsSendTcp ==
  ASSUME DnsInv, NEW i \in Query, Dns!SendTcp(i)
  PROVE  DnsInv'
<1> DEFINE r == dns_q[i]
           s == r.ntx + 1
           nx == [r EXCEPT !.ntx = s, !.err = TRUE]
<1>0. /\ i \in dns_todo /\ DnsSound(r) /\ DnsPlace(i) /\ DnsConns /\ dns_todo \subseteq Query /\ DOMAIN dns_q = Query
      /\ r.st # "done" /\ r.proto = "tcp" /\ r.tc = 0 /\ r.ntx \in Nat
  BY DEF Dns!SendTcp, DnsInv, DnsPlace, DnsSound
<1>1. r.ntx < Srvc => s \in Dns!Servers
  BY <1>0, DnsAssumption DEF Dns!Servers
<1>2. DnsSound(Dns!Fails(r)) /\ Dns!Fails(r).st # "active" /\ Dns!Fails(r).tc = 0
  BY <1>0, DnsFails
<1>3. r.ntx < Srvc => LET x == Dns!Attach(r, s)
         IN  DnsSound(x) /\ x.st = "active" /\ x.tc = s /\ x.tmr /\ x.proto = "tcp"
  BY <1>0, <1>1, DnsAttach
<1>4. DnsSound(nx) /\ nx.st = r.st /\ nx.tc = 0 /\ nx.proto = "tcp" /\ (nx.tmr <=> r.tmr)
  BY <1>0, DnsNextServer
<1>5. \A j \in Query : j # i => (j \in dns_todo \ {i} <=> j \in dns_todo)
  OBVIOUS
<1>6. r.st \in {"starting", "active"} /\ (r.st = "active" => r.tmr)
  BY <1>0 DEF DnsPlace
<1>7. CASE Dns!Settle(i, Dns!Fails(r)) /\ UNCHANGED <<dns_conn, dns_ctmr>>
  BY <1>2, <1>7, DnsEnds DEF Dns!Settle
<1>8. CASE /\ r.ntx < Srvc /\ Dns!Settle(i, Dns!Attach(r, s)) /\ DnsConns' /\ dns_conn'[s] # "none"
           /\ \A k \in Dns!Servers : dns_conn[k] # "none" => dns_conn'[k] # "none"
  <2> DEFINE x == Dns!Attach(r, s)
  <2>1. DnsSound(x) /\ x.st = "active" /\ x.tc = s /\ x.tmr /\ x.proto = "tcp" /\ s \in Dns!Servers
    BY <1>1, <1>3, <1>8
  <2>2. dns_q' = [dns_q EXCEPT ![i] = x] /\ dns_todo' = dns_todo \ {i} /\ dns_todo' \subseteq Query /\ i \notin dns_todo'
    BY <1>0, <1>8 DEF Dns!Settle
  <2> HIDE DEF x, s
  <2> QED BY <1>5, <1>8, <2>1, <2>2, DnsOne
<1>9. CASE r.ntx < Srvc /\ dns_q' = [dns_q EXCEPT ![i] = nx] /\ UNCHANGED <<dns_conn, dns_ctmr, dns_todo>>
  <2>1. DnsConns'
    BY <1>0, <1>9 DEF DnsConns
  <2>2. dns_todo' = dns_todo
    BY <1>9
  <2> HIDE DEF nx, r
  <2> QED BY <1>0, <1>4, <1>6, <1>9, <2>1, <2>2, DnsOne
<1>10. CASE r.ntx < Srvc /\ Dns!Close(s, [dns_q EXCEPT ![i] = nx])
  <2> DEFINE t == [dns_q EXCEPT ![i] = nx]
  <2>1. DOMAIN t = Query /\ t[i] = nx /\ \A j \in Query : j # i => t[j] = dns_q[j]
    BY <1>0
  <2>2. Dns!Close(s, t) /\ s \in Dns!Servers
    BY <1>1, <1>10
  <2> HIDE DEF t, nx, s
  <2>3. \A j \in Query :
            \/ t[j] = dns_q[j]
            \/ /\ j \in dns_todo /\ t[j].st = dns_q[j].st /\ t[j].proto = "tcp" /\ t[j].tc = 0
               /\ (t[j].tmr <=> dns_q[j].tmr) /\ DnsSound(t[j])
    BY <1>0, <1>4, <2>1
  <2> QED BY <2>1, <2>2, <2>3, DnsClose
<1>11. CASE r.ntx < Srvc /\ dns_conn[s] = "none" /\ Dns!Settle(i, Dns!Attach(r, s))
            /\ dns_conn' = [dns_conn EXCEPT ![s] = "connecting"] /\ dns_ctmr' = dns_ctmr \cup {s}
  <2>1. DnsConns' /\ dns_conn'[s] # "none" /\ \A k \in Dns!Servers : dns_conn[k] # "none" => dns_conn'[k] # "none"
    BY <1>0, <1>1, <1>11 DEF DnsConns
  <2> QED BY <1>8, <1>11, <2>1
<1>12. CASE r.ntx < Srvc /\ dns_conn[s] # "none" /\ Dns!Settle(i, Dns!Attach(r, s)) /\ UNCHANGED <<dns_conn, dns_ctmr>>
  <2>1. DnsConns' /\ dns_conn'[s] # "none" /\ \A k \in Dns!Servers : dns_conn[k] # "none" => dns_conn'[k] # "none"
    BY <1>0, <1>12 DEF DnsConns
  <2> QED BY <1>8, <1>12, <2>1
<1> HIDE DEF s
<1> QED BY <1>7, <1>9, <1>10, <1>11, <1>12 DEF Dns!SendTcp, s

(* Every step of the DNS client keeps its invariant. *)
LEMMA DnsStep == ASSUME DnsInv, [Dns!Next]_dns PROVE DnsInv'
<1>0. /\ DnsConns /\ DOMAIN dns_q = Query /\ dns_todo \subseteq Query
      /\ \A i \in Query : DnsSound(dns_q[i]) /\ DnsPlace(i)
  BY DEF DnsInv
<1>1. ASSUME NEW i \in Query, Dns!UdpQuery(i) PROVE DnsInv'
  <2> DEFINE r == [Dns!Unused EXCEPT !.st = "starting"]
  <2>1. /\ DOMAIN r = DnsFields /\ r.st = "starting" /\ r.tc = 0 /\ r.proto = "udp" /\ r.ntx = 0
        /\ r.calls = 0
    BY DEF Dns!Unused, DnsFields
  <2> HIDE DEF r
  <2>2. DnsSound(r)
    BY <2>1 DEF DnsSound
  <2>3. Dns!Quiet /\ UNCHANGED <<dns_conn, dns_ctmr, dns_todo>> /\
        \E x \in Dns!SendUdp(r) \cup {Dns!Fails(r)} : dns_q' = [dns_q EXCEPT ![i] = x]
    BY <1>1 DEF Dns!UdpQuery, r
  <2> QED BY <2>1, <2>2, <2>3, DnsUdp
<1>2. ASSUME NEW i \in Query, Dns!UdpTimeout(i) PROVE DnsInv'
  <2>1. Dns!Quiet /\ dns_q[i].st = "active" /\ dns_q[i].proto = "udp" /\ UNCHANGED <<dns_conn, dns_ctmr, dns_todo>>
    BY <1>2 DEF Dns!UdpTimeout, Dns!Active
  <2>2. \E x \in Dns!SendUdp(dns_q[i]) \cup {Dns!Fails(dns_q[i])} : dns_q' = [dns_q EXCEPT ![i] = x]
    BY <1>2 DEF Dns!UdpTimeout
  <2>3. DnsSound(dns_q[i]) /\ dns_q[i].tc = 0
    BY <1>0, <2>1 DEF DnsPlace
  <2> QED BY <2>1, <2>2, <2>3, DnsUdp
<1>3. ASSUME NEW i \in Query, Dns!Quiet, Dns!Active(i), dns_q' = [dns_q EXCEPT ![i] = Dns!Done(@)],
             UNCHANGED <<dns_conn, dns_ctmr, dns_todo>>
      PROVE DnsInv'
  <2>1. dns_q' = [dns_q EXCEPT ![i] = Dns!Done(dns_q[i])] /\ dns_todo' = dns_todo \ {i} /\ DnsSound(dns_q[i]) /\ dns_q[i].st # "done"
    BY <1>0, <1>3 DEF Dns!Quiet, Dns!Active
  <2>2. DnsSound(Dns!Done(dns_q[i])) /\ Dns!Done(dns_q[i]).st # "active" /\ Dns!Done(dns_q[i]).tc = 0
    BY <2>1, DnsDone
  <2> QED BY <1>3, <2>1, <2>2, DnsEnds
<1>4. ASSUME NEW i \in Query, Dns!UdpReply(i) PROVE DnsInv'
  BY <1>3, <1>4 DEF Dns!UdpReply
<1>5. ASSUME NEW i \in Query, Dns!TcpQuery(i) PROVE DnsInv'
  <2> DEFINE x == [Dns!Unused EXCEPT !.st = "starting", !.proto = "tcp"]
  <2>1. /\ DOMAIN x = DnsFields /\ x.st = "starting" /\ x.tc = 0 /\ x.proto = "tcp" /\ x.ntx = 0
        /\ x.calls = 0
    BY DEF Dns!Unused, DnsFields
  <2>2. dns_q' = [dns_q EXCEPT ![i] = x] /\ dns_todo = {} /\ dns_todo' = {i} /\ UNCHANGED <<dns_conn, dns_ctmr>>
    BY <1>5 DEF Dns!TcpQuery, Dns!Quiet
  <2> HIDE DEF x
  <2>3. DnsSound(x)
    BY <2>1 DEF DnsSound
  <2>4. DnsConns'
    BY <1>0, <2>2 DEF DnsConns
  <2> QED BY <2>1, <2>2, <2>3, <2>4, DnsOne
<1>6. ASSUME NEW s \in Dns!Servers, Dns!Close(s, dns_q) PROVE DnsInv'
  BY <1>0, <1>6, DnsClose
<1>7. ASSUME NEW i \in Query, Dns!TcpReply(i) PROVE DnsInv'
  <2>1. CASE dns_q' = [dns_q EXCEPT ![i] = Dns!Done(@)] /\ UNCHANGED <<dns_conn, dns_ctmr, dns_todo>>
    BY <1>3, <1>7, <2>1 DEF Dns!TcpReply
  <2>2. CASE Dns!Close(dns_q[i].tc, [dns_q EXCEPT ![i] = Dns!Done(@)])
    <3> DEFINE t == [dns_q EXCEPT ![i] = Dns!Done(@)]
    <3>1. Dns!Quiet /\ dns_q[i].st = "active" /\ dns_q[i].tc # 0
      BY <1>7 DEF Dns!TcpReply, Dns!Active
    <3>2. dns_q[i].tc \in Dns!Servers /\ i \notin dns_todo /\ DnsSound(dns_q[i])
      BY <1>0, <3>1 DEF DnsPlace, Dns!Quiet
    <3>3. DOMAIN t = Query /\ t[i] = Dns!Done(dns_q[i]) /\ \A j \in Query : j # i => t[j] = dns_q[j]
      BY <1>0
    <3>4. DnsSound(Dns!Done(dns_q[i])) /\ Dns!Done(dns_q[i]).st = "done" /\ Dns!Done(dns_q[i]).tc = 0
      BY <3>1, <3>2, DnsDone
    <3> HIDE DEF t
    <3>5. \A j \in Query :
            \/ t[j] = dns_q[j]
            \/ j \notin dns_todo /\ t[j].st = "done" /\ t[j].tc = 0 /\ DnsSound(t[j])
      BY <3>2, <3>3, <3>4
    <3>6. Dns!Close(dns_q[i].tc, t)
      BY <2>2 DEF t
    <3> QED BY <3>2, <3>3, <3>5, <3>6, DnsClose
  <2> QED BY <1>7, <2>1, <2>2 DEF Dns!TcpReply
<1>8. ASSUME NEW i \in Query, Dns!TcpTimeout(i) PROVE DnsInv'
  BY <1>3, <1>8 DEF Dns!TcpTimeout
<1>9. ASSUME NEW i \in Query, Dns!Drop(i) PROVE DnsInv'
  <2> DEFINE x == [dns_q[i] EXCEPT !.st = "dropped", !.tc = 0, !.tmr = FALSE]
  <2>1. /\ DnsSound(dns_q[i]) /\ dns_q[i].st = "active" /\ dns_q' = [dns_q EXCEPT ![i] = x] /\ dns_todo' = dns_todo \ {i}
        /\ UNCHANGED <<dns_conn, dns_ctmr>>
    BY <1>0, <1>9 DEF Dns!Drop, Dns!Active, Dns!Quiet
  <2>2. DOMAIN x = DnsFields /\ x.st = "dropped" /\ x.tc = 0 /\ x.calls = dns_q[i].calls /\ x.ntx = dns_q[i].ntx
    BY <2>1 DEF DnsSound, DnsFields
  <2> HIDE DEF x
  <2>3. DnsSound(x)
    BY <2>1, <2>2 DEF DnsSound
  <2> QED BY <2>1, <2>2, <2>3, DnsEnds
<1>10. ASSUME NEW s \in Dns!Servers, Dns!TcpEstab(s) PROVE DnsInv'
  <2>1. CASE Dns!Close(s, dns_q)
    BY <1>6, <2>1
  <2>2. CASE dns_conn' = [dns_conn EXCEPT ![s] = "connected"] /\ UNCHANGED <<dns_q, dns_ctmr, dns_todo>>
    <3>1. DnsConns' /\ \A k \in Dns!Servers : dns_conn[k] # "none" => dns_conn'[k] # "none"
      BY <1>0, <1>10, <2>2 DEF DnsConns, Dns!TcpEstab
    <3>2. \A i \in Query : (DnsSound(dns_q[i]) /\ DnsPlace(i))'
      BY <1>0, <2>2, <3>1 DEF DnsPlace, DnsSound
    <3> QED BY <1>0, <2>2, <3>1, <3>2 DEF DnsInv
  <2> QED BY <1>10, <2>1, <2>2 DEF Dns!TcpEstab
<1>11. ASSUME Dns!Destroy PROVE DnsInv'
  <2>1. /\ dns_todo = {} /\ dns_todo' = {} /\ dns_conn' = [s \in Dns!Servers |-> "none"] /\ dns_ctmr' = {}
        /\ dns_q' = [i \in Query |-> IF Dns!Active(i) THEN Dns!Done(dns_q[i])
                           ELSE [dns_q[i] EXCEPT !.st = IF @ = "none" THEN "refused" ELSE @]]
    BY <1>11 DEF Dns!Destroy, Dns!Quiet
  <2>2. DnsConns' /\ DOMAIN dns_q' = Query
    BY <2>1 DEF DnsConns
  <2>3. \A i \in Query : (DnsSound(dns_q[i]) /\ DnsPlace(i))'
    <3> SUFFICES ASSUME NEW i \in Query PROVE (DnsSound(dns_q[i]) /\ DnsPlace(i))'
      OBVIOUS
    <3>0. DnsSound(dns_q[i]) /\ DnsPlace(i)
      BY <1>0
    <3>1. CASE Dns!Active(i)
      <4>1. dns_q'[i] = Dns!Done(dns_q[i]) /\ dns_q[i].st = "active"
        BY <2>1, <3>1 DEF Dns!Active
      <4>2. DnsSound(Dns!Done(dns_q[i])) /\ Dns!Done(dns_q[i]).st = "done" /\ Dns!Done(dns_q[i]).tc = 0
        BY <3>0, <4>1, DnsDone
      <4>3. DnsPlace(i)'
        BY <2>1, <4>1, <4>2 DEF DnsPlace
      <4>4. DnsSound(dns_q[i])'
        BY <4>1, <4>2 DEF DnsSound
      <4> QED BY <4>3, <4>4
    <3>2. CASE ~Dns!Active(i)
      <4> DEFINE x == [dns_q[i] EXCEPT !.st = IF @ = "none" THEN "refused" ELSE @]
      <4>1. dns_q'[i] = x /\ dns_q[i].st # "active"
        BY <2>1, <3>2 DEF Dns!Active
      <4>2. /\ DOMAIN x = DnsFields /\ x.st = (IF dns_q[i].st = "none" THEN "refused" ELSE dns_q[i].st)
            /\ x.tc = dns_q[i].tc /\ x.calls = dns_q[i].calls /\ x.ntx = dns_q[i].ntx
        BY <3>0 DEF DnsSound, DnsFields
      <4> HIDE DEF x
      <4>3. DnsSound(x)
        BY <3>0, <4>2 DEF DnsSound
      <4>4. x.st # "active" /\ x.tc = 0
        BY <3>0, <4>1, <4>2 DEF DnsPlace
      <4>5. DnsPlace(i)'
        BY <2>1, <4>1, <4>4 DEF DnsPlace
      <4>6. DnsSound(dns_q[i])'
        BY <4>1, <4>3 DEF DnsSound
      <4> QED BY <4>5, <4>6
    <3> QED BY <3>1, <3>2
  <2> QED BY <2>1, <2>2, <2>3 DEF DnsInv
<1>12. CASE UNCHANGED dns
  BY <1>0, <1>12 DEF dns, DnsInv, DnsConns, DnsPlace, DnsSound
<1>13. ASSUME NEW s \in Dns!Servers, Dns!TcpCloses(s) PROVE DnsInv'
  BY <1>6, <1>13 DEF Dns!TcpCloses
<1> QED BY <1>1, <1>2, <1>4, <1>5, <1>7, <1>8, <1>9, <1>10, <1>11, <1>12, <1>13, DnsSendTcp DEF Dns!Next

(* The invariant holds the properties of the DNS client. *)
LEMMA DnsProperties == ASSUME DnsInv PROVE Dns!HandlerOnce /\ Dns!QueriesWatched
<1>1. Dns!HandlerOnce
  BY DEF Dns!HandlerOnce, DnsInv, DnsSound
<1>2. Dns!QueriesWatched
  <2> SUFFICES ASSUME Dns!Quiet
               PROVE  /\ \A i \in Query : Dns!Active(i) =>
                           dns_q[i].tmr /\ (dns_q[i].proto = "tcp" => dns_q[i].tc # 0 /\ dns_conn[dns_q[i].tc] # "none")
                      /\ \A s \in Dns!Servers : dns_conn[s] # "none" <=> s \in dns_ctmr
    BY DEF Dns!QueriesWatched
  <2>1. \A s \in Dns!Servers : s # 0
    BY DnsAssumption DEF Dns!Servers
  <2> QED BY <2>1 DEF DnsInv, DnsPlace, DnsConns, Dns!Quiet, Dns!Active
<1> QED BY <1>1, <1>2

-------------------------------------------------------------------------------
(* HttpClient: the HTTP client. *)

(* What holds of an HTTP request at every moment: the type invariant, the
   two properties, and how the object's parts go together. *)
ClientInv ==
    /\ client_user \in {"new", "waiting", "freed", "done"} /\ client_srvc \in 0 .. MaxSrv
    /\ client_tmr \in {"none", "conn", "recv"}
    /\ Client!AnsweredOnce
    /\ Client!RequestWatched
    /\ client_user = "waiting" => client_told = IF client_data THEN <<"header">> ELSE <<>>
    /\ client_user = "new" => client_told = <<>>
    /\ client_dq => client_tc = "none" /\ client_tmr = "none" /\ ~client_data
    /\ client_data => client_tmr = "none" /\ client_tc = "sent" /\ client_alive
    /\ client_tmr # "none" => client_tc # "none"

(* The second call of a handler follows the first. *)
LEMMA ClientTells == ASSUME NEW a, NEW b PROVE Append(<<a>>, b) = <<a, b>>
<1> DEFINE S == {a, b}
           s == Append(<<a>>, b)
           t == <<a, b>>
<1>1. s \in Seq(S) /\ t \in Seq(S) /\ Len(s) = 2 /\ Len(t) = 2
  OBVIOUS
<1>2. s[1] = t[1] /\ s[2] = t[2]
  OBVIOUS
<1>3. \A i \in 1 .. Len(s) : s[i] = t[i]
  BY <1>1, <1>2
<1> HIDE DEF s, t, S
<1>4. s = t
  BY <1>1, <1>3, SeqEqual
<1> QED BY <1>4 DEF s, t

(* The HTTP client begins in the invariant. *)
LEMMA ClientInit == Client!Init => ClientInv
BY ClientAssumption DEF Client!Init, ClientInv, Client!AnsweredOnce, Client!RequestWatched

(* complete() tells the user once and leaves nothing to wait for. *)
LEMMA ClientEnds == ASSUME ClientInv, client_alive, NEW how \in {"response", "error"}, how = "response" => ~client_data, Client!Ends(how) PROVE ClientInv'
<1> USE DEF ClientInv, Client!AnsweredOnce, Client!RequestWatched
<1>1. client_told = IF client_data THEN <<"header">> ELSE <<>>
  OBVIOUS
<1>2. Append(<<"header">>, how) = <<"header", how>> /\ Append(<<>>, how) = <<how>>
  BY ClientTells
<1>3. client_told' = IF client_data THEN <<"header", how>> ELSE <<how>>
  BY <1>1, <1>2 DEF Client!Ends
<1> QED BY <1>3, ClientAssumption DEF Client!Ends

(* A new connection attempt has its timer. *)
LEMMA ClientConnects == ASSUME ClientInv, client_alive, ~client_data, NEW n \in 1 .. MaxSrv, Client!Connects(n) PROVE ClientInv'
<1> USE DEF ClientInv, Client!AnsweredOnce, Client!RequestWatched
<1>1. client_srvc' \in 0 .. MaxSrv
  BY ClientAssumption DEF Client!Connects
<1> QED BY <1>1, ClientAssumption DEF Client!Connects

(* Every step of the HTTP client keeps its invariant. *)
LEMMA ClientStep == ClientInv /\ [Client!Next]_client => ClientInv'
<1> SUFFICES ASSUME ClientInv, [Client!Next]_client PROVE ClientInv'
  OBVIOUS
<1> USE DEF ClientInv, Client!AnsweredOnce, Client!RequestWatched
<1>1. CASE Client!Request
  BY <1>1 DEF Client!Request
<1>2. CASE Client!Estab
  <2>1. client_alive  BY <1>2 DEF Client!Estab
  <2>2. CASE Client!Ends("error")  BY <2>1, <2>2, ClientEnds
  <2>3. CASE ~Client!Ends("error")  BY <1>2, <2>3 DEF Client!Estab
  <2> QED BY <2>2, <2>3
<1>3. CASE Client!Recv
  <2>1. client_alive  BY <1>3 DEF Client!Recv
  <2>2. CASE Client!Ends("error")  BY <2>1, <2>2, ClientEnds
  <2>3. CASE Client!Ends("response")  BY <1>3, <2>1, <2>3, ClientEnds DEF Client!Recv
  <2>4. CASE ~Client!Ends("error") /\ ~Client!Ends("response")
    <3>1. CASE client_datah
      <4>1. Append(<<>>, "header") = <<"header">>
        OBVIOUS
      <4>2. /\ client_tmr' = "none" /\ client_data' = TRUE /\ client_told' = <<"header">>
            /\ UNCHANGED <<client_user, client_alive, client_dq, client_srvc, client_tc, client_mb, client_datah>>
        BY <1>3, <2>1, <2>4, <3>1, <4>1 DEF Client!Recv
      <4> QED BY <2>1, <4>2, <1>3 DEF Client!Recv
    <3>2. CASE ~client_datah
      <4>1. UNCHANGED <<client_user, client_alive, client_dq, client_srvc, client_tc, client_tmr, client_data, client_datah, client_told>>
        BY <1>3, <2>1, <2>4, <3>2 DEF Client!Recv
      <4> QED BY <4>1
    <3> QED BY <3>1, <3>2
  <2> QED BY <2>2, <2>3, <2>4
<1>4. CASE Client!Closed
  <2>1. client_alive  BY <1>4 DEF Client!Closed
  <2>2. CASE client_srvc > 0 /\ ~client_data /\ Client!Connects(client_srvc)
    <3>1. client_srvc \in 1 .. MaxSrv BY <2>2, ClientAssumption
    <3> QED BY <3>1, <2>1, <2>2, ClientConnects
  <2>3. CASE Client!Ends("error")  BY <2>1, <2>3, ClientEnds
  <2> QED BY <1>4, <2>2, <2>3 DEF Client!Closed, Client!ConnectsOrEnds
<1>5. CASE Client!Timeout
  <2>1. client_alive /\ ~client_data  BY <1>5 DEF Client!Timeout
  <2>2. CASE client_srvc > 0 /\ Client!Connects(client_srvc)
    <3>1. client_srvc \in 1 .. MaxSrv BY <2>2, ClientAssumption
    <3> QED BY <3>1, <2>1, <2>2, ClientConnects
  <2>3. CASE Client!Ends("error")  BY <2>1, <2>3, ClientEnds
  <2> QED BY <1>5, <2>2, <2>3 DEF Client!Timeout, Client!ConnectsOrEnds
<1>6. CASE Client!Cancel
  BY <1>6, ClientAssumption DEF Client!Cancel
<1>7. ASSUME NEW found \in 0 .. MaxSrv, Client!Resolved(found) PROVE ClientInv'
  <2>1. client_alive /\ ~client_data  BY <1>7 DEF Client!Resolved
  <2>2. CASE found # 0 /\ Client!Connects(found)
    <3>1. found \in 1 .. MaxSrv BY <2>2, ClientAssumption
    <3> QED BY <3>1, <2>1, <2>2, ClientConnects
  <2>3. CASE Client!Ends("error")  BY <2>1, <2>3, ClientEnds
  <2> QED BY <1>7, <2>2, <2>3 DEF Client!Resolved, Client!ConnectsOrEnds
<1>8. CASE UNCHANGED client
  BY <1>8 DEF client
<1> QED BY <1>1, <1>2, <1>3, <1>4, <1>5, <1>6, <1>7, <1>8 DEF Client!Next

-------------------------------------------------------------------------------
(* HttpServer: the connections of the HTTP server. *)

ServerUnit == Nat \X Nat \X Nat

(* A connection that is open has what it read, what it keeps and what TCP
   holds in one piece, and keeps no complete request back. *)
ServerWhole(c) ==
    /\ server_served[c] \in Seq(ServerUnit) /\ server_mb[c] \in Seq(ServerUnit) /\ server_wire[c] \in Seq(ServerUnit)
    /\ server_served[c] \o server_mb[c] \o server_wire[c] = server_sent[c]
    /\ Server!Complete(server_mb[c]) = {}
    /\ server_served[c] # <<>> => Server!IsLast(server_served[c][Len(server_served[c])])

(* A connection that is closed holds nothing. *)
ServerConn(c) ==
    /\ server_next[c] \in Nat \ {0} /\ (server_next[c] = 1 => server_sent[c] = <<>>)
    /\ c \notin server_tc => server_wire[c] = <<>>
    /\ c \notin server_listed => server_mb[c] = <<>>
    /\ c \in server_tc => ServerWhole(c)

ServerTypes ==
    /\ DOMAIN server_wire = Conn /\ DOMAIN server_next = Conn /\ DOMAIN server_mb = Conn
    /\ DOMAIN server_served = Conn /\ DOMAIN server_sent = Conn

ServerInv ==
    /\ ServerTypes /\ server_listed \subseteq Conn /\ Server!ConnectionsListed
    /\ \A c \in Conn : ServerConn(c)

(* The HTTP server begins in the invariant. *)
LEMMA ServerInit == Server!Init => ServerInv
BY DEF Server!Init, ServerInv, ServerTypes, Server!ConnectionsListed, ServerConn

(* The largest of a bounded set of naturals is one of them. *)
LEMMA ServerMax ==
  ASSUME NEW n \in Nat, NEW S, S \subseteq 1 .. n, S # {}
  PROVE  Server!Max(S) \in S /\ \A y \in S : Server!Max(S) >= y
<1> DEFINE T == {n - x : x \in S}
<1>1. T \subseteq Nat /\ T # {}
  <2>1. \A x \in S : n - x \in Nat
    OBVIOUS
  <2>2. PICK x : x \in S
    OBVIOUS
  <2>3. n - x \in T
    BY <2>2
  <2> QED BY <2>1, <2>3
<1>2. PICK t \in T : \A u \in T : ~(<<u, t>> \in Below)
  BY <1>1, BelowWellFounded, WFMin
<1>3. PICK x \in S : t = n - x
  OBVIOUS
<1>4. \A y \in S : x >= y
  <2> TAKE y \in S
  <2>1. n - y \in T /\ n - y \in Nat /\ t \in Nat /\ x \in Nat /\ y \in Nat
    BY <1>1
  <2>2. ~(n - y < t)
    BY <1>2, <2>1 DEF Below
  <2> QED BY <1>3, <2>1, <2>2
<1> QED BY <1>4 DEF Server!Max

(* Every connection but c is left alone. *)
LEMMA ServerOne ==
  ASSUME ServerInv, NEW c \in Conn, ServerTypes', Server!ConnectionsListed', ServerConn(c)',
         server_listed' \subseteq Conn,
         \A d \in Conn : d # c =>
            /\ server_wire'[d] = server_wire[d] /\ server_next'[d] = server_next[d] /\ server_mb'[d] = server_mb[d]
            /\ server_served'[d] = server_served[d] /\ server_sent'[d] = server_sent[d]
            /\ (d \in server_tc' <=> d \in server_tc) /\ (d \in server_listed' <=> d \in server_listed)
  PROVE  ServerInv'
<1>1. ASSUME NEW d \in Conn, d # c PROVE ServerConn(d)'
  <2>1. ServerConn(d)
    BY DEF ServerInv
  <2> QED BY <1>1, <2>1 DEF ServerConn, ServerWhole, Server!Complete
<1> QED BY <1>1 DEF ServerInv

(* A connection that is freed leaves the list and holds nothing. *)
LEMMA ServerFrees ==
  ASSUME ServerInv, NEW c \in Conn, Server!Frees(c), UNCHANGED <<server_sock, server_next, server_sent>>,
         server_served' = server_served \/ \E x : server_served' = [server_served EXCEPT ![c] = x]
  PROVE  ServerInv'
<1>1. /\ ServerTypes /\ Server!ConnectionsListed /\ server_listed \subseteq Conn /\ ServerConn(c)
  BY DEF ServerInv
<1>2. /\ server_listed' = server_listed \ {c} /\ server_tc' = server_tc \ {c}
      /\ server_mb' = [server_mb EXCEPT ![c] = <<>>] /\ server_wire' = [server_wire EXCEPT ![c] = <<>>]
  BY DEF Server!Frees
<1>3. ServerTypes' /\ Server!ConnectionsListed' /\ server_listed' \subseteq Conn
  BY <1>1, <1>2 DEF ServerTypes, Server!ConnectionsListed
<1>4. ServerConn(c)'
  BY <1>1, <1>2 DEF ServerConn, ServerTypes
<1>5. \A d \in Conn : d # c => server_served'[d] = server_served[d]
  BY <1>1 DEF ServerTypes
<1> QED BY <1>1, <1>2, <1>3, <1>4, <1>5, ServerOne DEF ServerTypes

(* A new connection has read nothing. *)
LEMMA ServerAccept == ASSUME ServerInv, NEW c \in Conn, Server!Accept(c) PROVE ServerInv'
<1>1. /\ ServerTypes /\ Server!ConnectionsListed /\ server_listed \subseteq Conn /\ ServerConn(c)
  BY DEF ServerInv
<1>2. /\ server_sock /\ c \notin server_listed /\ server_next[c] = 1 /\ server_served[c] = <<>>
      /\ server_listed' = server_listed \cup {c} /\ server_tc' = server_tc \cup {c}
      /\ UNCHANGED <<server_sock, server_wire, server_next, server_mb, server_served, server_sent>>
  BY DEF Server!Accept
<1>3. ServerTypes' /\ Server!ConnectionsListed' /\ server_listed' \subseteq Conn
  BY <1>1, <1>2 DEF ServerTypes, Server!ConnectionsListed
<1>4. server_mb[c] = <<>> /\ server_wire[c] = <<>> /\ server_sent[c] = <<>>
  BY <1>1, <1>2 DEF ServerConn, Server!ConnectionsListed
<1>5. ServerWhole(c)'
  <2>1. <<>> \in Seq(ServerUnit) /\ <<>> \o <<>> \o <<>> = <<>>
    BY ConcatEmptySeq
  <2>2. Server!Complete(<<>>) = {}
    BY DEF Server!Complete
  <2>3. /\ server_served'[c] = <<>> /\ server_mb'[c] = <<>> /\ server_wire'[c] = <<>> /\ server_sent'[c] = <<>>
    BY <1>2, <1>4
  <2>4. Server!Complete(server_mb[c])' = {}
    BY <2>3 DEF Server!Complete
  <2> QED BY <2>1, <2>3, <2>4 DEF ServerWhole
<1>6. ServerConn(c)'
  BY <1>1, <1>2, <1>4, <1>5 DEF ServerConn
<1> QED BY <1>2, <1>3, <1>6, ServerOne

ServerJoined(a, b, d) == (a \o b) \o d = a \o (b \o d)

(* Joining three pieces of a stream is associative. *)
LEMMA ServerJoins ==
  ASSUME NEW a, NEW b, NEW d, a \in Seq(ServerUnit), b \in Seq(ServerUnit), d \in Seq(ServerUnit)
  PROVE  ServerJoined(a, b, d)
BY ConcatAssociative DEF ServerJoined

(* A stream that is cut is its two parts. *)
LEMMA ServerSplits ==
  ASSUME NEW a, a \in Seq(ServerUnit), NEW k, k \in 0 .. Len(a)
  PROVE  /\ SubSeq(a, 1, k) \in Seq(ServerUnit) /\ SubSeq(a, k + 1, Len(a)) \in Seq(ServerUnit)
         /\ SubSeq(a, 1, k) \o SubSeq(a, k + 1, Len(a)) = a
<1>1. /\ 1 \in 1 .. Len(a) + 1 /\ k \in 1 - 1 .. Len(a) /\ Len(a) \in k .. Len(a)
  OBVIOUS
<1>2. SubSeq(a, 1, k) \o SubSeq(a, k + 1, Len(a)) = SubSeq(a, 1, Len(a))
  BY <1>1, ConcatAdjacentSubSeq, Zenon
<1>3. SubSeq(a, 1, Len(a)) = a
  BY SubSeqFull, Zenon
<1>4. SubSeq(a, 1, k) \in Seq(ServerUnit) /\ SubSeq(a, k + 1, Len(a)) \in Seq(ServerUnit)
  OBVIOUS
<1> QED BY <1>2, <1>3, <1>4

(* A request is a piece of a stream. *)
LEMMA ServerRequest ==
  ASSUME NEW k \in Nat, NEW n \in Nat PROVE Server!Request(k, n) \in Seq(ServerUnit)
BY DEF Server!Request, ServerUnit

(* What the peer sends goes to the end of the stream. *)
LEMMA ServerPeerSends == ASSUME ServerInv, NEW c \in Conn, NEW n \in Body, Server!PeerSends(c, n) PROVE ServerInv'
<1>1. /\ ServerTypes /\ Server!ConnectionsListed /\ server_listed \subseteq Conn /\ ServerConn(c)
  BY DEF ServerInv
<1> DEFINE r == Server!Request(server_next[c], n)
<1>2. /\ c \in server_tc
      /\ server_wire' = [server_wire EXCEPT ![c] = @ \o r] /\ server_sent' = [server_sent EXCEPT ![c] = @ \o r]
      /\ server_next' = [server_next EXCEPT ![c] = @ + 1]
      /\ UNCHANGED <<server_sock, server_listed, server_tc, server_mb, server_served>>
  BY DEF Server!PeerSends
<1>3. r \in Seq(ServerUnit) /\ ServerWhole(c)
  BY <1>1, <1>2, ServerRequest, ServerAssumption DEF ServerConn
<1> HIDE DEF r
<1>4. ServerTypes' /\ Server!ConnectionsListed' /\ server_listed' \subseteq Conn
  BY <1>1, <1>2 DEF ServerTypes, Server!ConnectionsListed
<1>5. server_wire'[c] = server_wire[c] \o r /\ server_sent'[c] = server_sent[c] \o r /\ server_next'[c] = server_next[c] + 1
  BY <1>1, <1>2 DEF ServerTypes
<1>6. ServerWhole(c)'
  <2> DEFINE s == server_served[c] \o server_mb[c]
  <2>1. /\ server_served[c] \in Seq(ServerUnit) /\ server_mb[c] \in Seq(ServerUnit) /\ server_wire[c] \in Seq(ServerUnit)
        /\ s \o server_wire[c] = server_sent[c]
    BY <1>3 DEF ServerWhole
  <2>2. s \in Seq(ServerUnit)
    BY <2>1, ConcatProperties
  <2> HIDE DEF s
  <2>3. s \o (server_wire[c] \o r) = server_sent[c] \o r
    <3>1. ServerJoined(s, server_wire[c], r)
      BY <1>3, <2>1, <2>2, ServerJoins
    <3> QED BY <2>1, <3>1 DEF ServerJoined
  <2>4. server_wire'[c] \in Seq(ServerUnit)
    BY <1>3, <1>5, <2>1, ConcatProperties
  <2>5. (server_served[c] \o server_mb[c]) \o server_wire'[c] = server_sent'[c]
    BY <1>5, <2>3 DEF s
  <2> QED BY <1>2, <1>3, <2>4, <2>5 DEF ServerWhole, Server!Complete
<1>7. ServerConn(c)'
  BY <1>1, <1>2, <1>5, <1>6 DEF ServerConn
<1> QED BY <1>1, <1>2, <1>4, <1>7, ServerOne DEF ServerTypes

(* A connection the user closes stays in the list for its timer. *)
LEMMA ServerUserCloses == ASSUME ServerInv, NEW c \in Conn, Server!UserCloses(c) PROVE ServerInv'
<1>1. /\ ServerTypes /\ Server!ConnectionsListed /\ server_listed \subseteq Conn /\ ServerConn(c)
  BY DEF ServerInv
<1>2. /\ server_tc' = server_tc \ {c} /\ server_wire' = [server_wire EXCEPT ![c] = <<>>]
      /\ UNCHANGED <<server_sock, server_listed, server_next, server_mb, server_served, server_sent>>
  BY DEF Server!UserCloses
<1>3. ServerTypes' /\ Server!ConnectionsListed' /\ server_listed' \subseteq Conn
  BY <1>1, <1>2 DEF ServerTypes, Server!ConnectionsListed
<1>4. ServerConn(c)'
  BY <1>1, <1>2 DEF ServerConn, ServerTypes
<1> QED BY <1>1, <1>2, <1>3, <1>4, ServerOne DEF ServerTypes

(* What is cut off a buffer, what is kept of it and what TCP still holds are
   what was there. *)
ServerParts(s, m, w, n, k, buf) ==
    /\ SubSeq(buf, 1, k) \in Seq(ServerUnit) /\ SubSeq(buf, k + 1, Len(buf)) \in Seq(ServerUnit)
    /\ SubSeq(w, n + 1, Len(w)) \in Seq(ServerUnit)
    /\ ((s \o SubSeq(buf, 1, k)) \o SubSeq(buf, k + 1, Len(buf))) \o SubSeq(w, n + 1, Len(w))
       = (s \o m) \o w

(* Nothing is lost where recv_handler() cuts its buffer. *)
LEMMA ServerCut ==
  ASSUME NEW s, s \in Seq(ServerUnit), NEW m, m \in Seq(ServerUnit), NEW w, w \in Seq(ServerUnit),
         NEW n, n \in 1 .. Len(w), NEW k, NEW buf, buf = m \o SubSeq(w, 1, n), k \in 0 .. Len(buf)
  PROVE  ServerParts(s, m, w, n, k, buf)
<1> DEFINE w1 == SubSeq(w, 1, n)
           w2 == SubSeq(w, n + 1, Len(w))
           b1 == SubSeq(buf, 1, k)
           b2 == SubSeq(buf, k + 1, Len(buf))
<1>1. w1 \in Seq(ServerUnit) /\ w2 \in Seq(ServerUnit) /\ w1 \o w2 = w
  BY ServerSplits
<1>2. buf \in Seq(ServerUnit)
  BY <1>1, ConcatProperties
<1>3. b1 \in Seq(ServerUnit) /\ b2 \in Seq(ServerUnit) /\ b1 \o b2 = buf
  BY <1>2, ServerSplits
<1> HIDE DEF w1, w2, b1, b2
<1>4. (s \o b1) \o b2 = s \o buf
  <2>1. ServerJoined(s, b1, b2)
    BY <1>3, ServerJoins
  <2> QED BY <1>3, <2>1 DEF ServerJoined
<1>5. buf = m \o w1
  BY DEF w1
<1>6. s \o buf = (s \o m) \o w1
  <2>1. ServerJoined(s, m, w1)
    BY <1>1, ServerJoins
  <2> QED BY <1>5, <2>1 DEF ServerJoined
<1>7. s \o m \in Seq(ServerUnit)
  BY ConcatProperties
<1>8. ((s \o m) \o w1) \o w2 = (s \o m) \o w
  <2>1. ServerJoined(s \o m, w1, w2)
    BY <1>1, <1>7, ServerJoins
  <2> QED BY <1>1, <2>1 DEF ServerJoined
<1>9. ((s \o b1) \o b2) \o w2 = (s \o m) \o w
  BY <1>4, <1>6, <1>8
<1> QED BY <1>1, <1>2, <1>3, <1>9 DEF w1, w2, b1, b2, ServerParts

(* recv_handler() hands over every complete request and keeps the rest,
   wherever TCP cut. *)
LEMMA ServerRecv ==
  ASSUME ServerInv, NEW c \in Conn, NEW n \in 1 .. Len(server_wire[c]), NEW stop \in Nat, Server!Recv(c, n, stop)
  PROVE  ServerInv'
<1>1. /\ ServerTypes /\ Server!ConnectionsListed /\ server_listed \subseteq Conn /\ ServerConn(c) /\ c \in server_tc
  BY DEF ServerInv, Server!Recv
<1>2. PICK buf : buf = server_mb[c] \o SubSeq(server_wire[c], 1, n)
  OBVIOUS
<1> DEFINE ends == Server!Complete(buf)
<1>3. CASE (Len(server_mb[c]) > 0 /\ Len(buf) > BufMax) \/ stop > 0
  <2>0. Server!Frees(c)
    BY <1>2, <1>3 DEF Server!Recv
  <2>1. UNCHANGED <<server_sock, server_next, server_sent>> /\ (server_served' = server_served \/ \E x : server_served' = [server_served EXCEPT ![c] = x])
    BY <1>2 DEF Server!Recv
  <2> QED BY <2>0, <2>1, ServerFrees
<1>4. CASE ~(Len(server_mb[c]) > 0 /\ Len(buf) > BufMax) /\ ~(stop > 0)
  <2>0. stop = 0 /\ ~(Len(server_mb[c]) > 0 /\ Len(buf) > BufMax)
    BY <1>4
  <2>15. /\ server_served' = [server_served EXCEPT ![c] = @ \o SubSeq(buf, 1, Server!Cut(buf, 0))]
         /\ server_mb' = [server_mb EXCEPT ![c] = SubSeq(buf, Server!Cut(buf, 0) + 1, Len(buf))]
         /\ server_wire' = [server_wire EXCEPT ![c] = SubSeq(@, n + 1, Len(@))]
         /\ UNCHANGED <<server_sock, server_next, server_sent, server_listed, server_tc>>
    <3> DEFINE b == server_mb[c] \o SubSeq(server_wire[c], 1, n)
    <3>1. /\ server_served' = [server_served EXCEPT ![c] = @ \o SubSeq(b, 1, Server!Cut(b, stop))]
          /\ server_mb' = [server_mb EXCEPT ![c] = SubSeq(b, Server!Cut(b, stop) + 1, Len(b))]
      BY <1>2, <1>4 DEF Server!Recv
    <3>2. server_wire' = [server_wire EXCEPT ![c] = SubSeq(@, n + 1, Len(@))]
      BY <1>2, <1>4 DEF Server!Recv
    <3>3. UNCHANGED <<server_sock, server_next, server_sent, server_listed, server_tc>>
      BY <1>2, <1>4 DEF Server!Recv
    <3>4. buf = b
      BY <1>2
    <3> HIDE DEF b
    <3> QED BY <2>0, <3>1, <3>2, <3>3, <3>4
  <2>1. PICK cut : /\ cut = IF ends = {} THEN 0 ELSE Server!Max(ends)
                   /\ server_served' = [server_served EXCEPT ![c] = @ \o SubSeq(buf, 1, cut)]
                   /\ server_mb' = [server_mb EXCEPT ![c] = SubSeq(buf, cut + 1, Len(buf))]
                   /\ server_wire' = [server_wire EXCEPT ![c] = SubSeq(@, n + 1, Len(@))]
                   /\ UNCHANGED <<server_sock, server_next, server_sent, server_listed, server_tc>>
    BY <2>15 DEF Server!Cut
  <2>2. /\ server_served[c] \in Seq(ServerUnit) /\ server_mb[c] \in Seq(ServerUnit) /\ server_wire[c] \in Seq(ServerUnit)
        /\ server_served[c] \o server_mb[c] \o server_wire[c] = server_sent[c]
        /\ (server_served[c] # <<>> => Server!IsLast(server_served[c][Len(server_served[c])]))
    BY <1>1 DEF ServerConn, ServerWhole
  <2>3. buf \in Seq(ServerUnit) /\ Len(buf) \in Nat /\ ends \subseteq 1 .. Len(buf)
    <3>1. SubSeq(server_wire[c], 1, n) \in Seq(ServerUnit)
      BY <2>2, ServerSplits
    <3>2. buf \in Seq(ServerUnit)
      BY <1>2, <2>2, <3>1, ConcatProperties
    <3> QED BY <3>2 DEF Server!Complete
  <2>4. cut \in 0 .. Len(buf) /\ (cut # 0 => cut \in ends) /\ \A e \in ends : e <= cut
    <3>1. CASE ends = {}
      BY <2>1, <2>3, <3>1
    <3>2. CASE ends # {}
      <4>1. Server!Max(ends) \in ends /\ \A y \in ends : Server!Max(ends) >= y
        BY <2>3, <3>2, ServerMax
      <4>2. cut = Server!Max(ends)
        BY <2>1, <3>2
      <4> QED BY <2>3, <4>1, <4>2
    <3> QED BY <3>1, <3>2
  <2> DEFINE b1 == SubSeq(buf, 1, cut)
             b2 == SubSeq(buf, cut + 1, Len(buf))
             w2 == SubSeq(server_wire[c], n + 1, Len(server_wire[c]))
  <2>5. /\ b1 \in Seq(ServerUnit) /\ b2 \in Seq(ServerUnit) /\ w2 \in Seq(ServerUnit)
        /\ (server_served[c] \o b1) \o b2 \o w2 = server_sent[c]
    <3>1. cut \in 0 .. Len(buf)
      BY <2>4
    <3>2. ServerParts(server_served[c], server_mb[c], server_wire[c], n, cut, buf)
      BY <1>2, <2>2, <3>1, ServerCut
    <3> QED BY <2>2, <3>2 DEF ServerParts
  <2>6. /\ Len(b1) = cut /\ (cut # 0 => b1[cut] = buf[cut])
        /\ Len(b2) = Len(buf) - cut /\ \A i \in 1 .. Len(b2) : b2[i] = buf[cut + i]
    BY <2>3, <2>4
  <2>7. server_served'[c] = server_served[c] \o b1 /\ server_mb'[c] = b2 /\ server_wire'[c] = w2 /\ server_sent'[c] = server_sent[c]
    BY <1>1, <2>1 DEF ServerTypes
  <2> HIDE DEF b1, b2, w2
  <2>8. \A i \in 1 .. Len(b2) : ~Server!IsLast(b2[i])
    <3> SUFFICES ASSUME NEW i \in 1 .. Len(b2), Server!IsLast(b2[i]) PROVE FALSE
      OBVIOUS
    <3>1. cut + i \in 1 .. Len(buf) /\ Server!IsLast(buf[cut + i]) /\ cut + i > cut
      BY <2>3, <2>4, <2>6
    <3>2. cut + i \in ends
      BY <2>3, <3>1 DEF Server!Complete
    <3>3. cut \in Nat
      BY <2>4
    <3> QED BY <2>4, <3>1, <3>2, <3>3
  <2>9. server_served[c] \o b1 # <<>> => Server!IsLast((server_served[c] \o b1)[Len(server_served[c] \o b1)])
    <3>1. CASE cut = 0
      <4>1. b1 = <<>>
        BY <2>5, <2>6, <3>1, EmptySeq
      <4>2. server_served[c] \o b1 = server_served[c]
        BY <2>2, <4>1, ConcatEmptySeq
      <4> QED BY <2>2, <4>2
    <3>2. CASE cut # 0
      <4>1. Server!IsLast(b1[cut]) /\ Len(b1) = cut /\ cut \in Nat \ {0}
        BY <2>4, <2>6, <3>2 DEF Server!Complete
      <4>2. (server_served[c] \o b1)[Len(server_served[c] \o b1)] = b1[cut]
        BY <2>2, <2>5, <4>1
      <4> QED BY <4>1, <4>2
    <3> QED BY <3>1, <3>2
  <2>10. server_served[c] \o b1 \in Seq(ServerUnit)
    BY <2>2, <2>5, ConcatProperties
  <2>11. Server!Complete(server_mb[c])' = {}
    <3>1. DOMAIN b2 = 1 .. Len(b2)
      BY <2>5
    <3> QED BY <2>7, <2>8, <3>1 DEF Server!Complete
  <2>12. ServerWhole(c)'
    BY <2>5, <2>7, <2>9, <2>10, <2>11 DEF ServerWhole
  <2>13. ServerConn(c)'
    BY <1>1, <2>1, <2>12 DEF ServerConn, Server!ConnectionsListed
  <2>14. ServerTypes' /\ Server!ConnectionsListed' /\ server_listed' \subseteq Conn
    BY <1>1, <2>1 DEF ServerTypes, Server!ConnectionsListed
  <2> QED BY <1>1, <2>1, <2>13, <2>14, ServerOne DEF ServerTypes
<1> QED BY <1>3, <1>4

(* Every step of the HTTP server keeps its invariant. *)
LEMMA ServerStep == ASSUME ServerInv, [Server!Next]_server PROVE ServerInv'
<1>1. CASE \E c \in Conn : Server!Accept(c)
  BY <1>1, ServerAccept
<1>2. CASE \E c \in Conn : Server!UserCloses(c)
  BY <1>2, ServerUserCloses
<1>3. CASE \E c \in Conn : Server!PeerCloses(c) \/ Server!Timeout(c)
  <2>1. PICK c \in Conn : Server!Frees(c) /\ UNCHANGED <<server_sock, server_next, server_served, server_sent>>
    BY <1>3 DEF Server!PeerCloses, Server!Timeout
  <2> QED BY <2>1, ServerFrees
<1>4. CASE \E c \in Conn, n \in Body : Server!PeerSends(c, n)
  BY <1>4, ServerPeerSends
<1>5. CASE \E c \in Conn : \E n \in 1 .. Len(server_wire[c]) : \E stop \in 0 .. MaxReqs : Server!Recv(c, n, stop)
  BY <1>5, ServerRecv
<1>6. CASE Server!Close
  BY <1>6 DEF Server!Close, ServerInv, ServerTypes, Server!ConnectionsListed, ServerConn
<1>7. CASE UNCHANGED server
  BY <1>7 DEF server, ServerInv, ServerTypes, Server!ConnectionsListed, ServerConn, ServerWhole, Server!Complete
<1> QED BY <1>1, <1>2, <1>3, <1>4, <1>5, <1>6, <1>7 DEF Server!Next

(* The invariant holds the properties of the HTTP server. *)
LEMMA ServerProperties == ASSUME ServerInv PROVE Server!RequestsWhole /\ Server!ConnectionsListed
BY DEF ServerInv, ServerConn, ServerWhole, Server!RequestsWhole, Server!ConnectionsListed

-------------------------------------------------------------------------------
(* Bfcp: BFCP transactions. *)

Elems(s) == {s[i] : i \in DOMAIN s}

FloorMsg == [tid : 0 .. TidMod - 1, req : Nat]

(* what is on its way between the socket and the server *)
Carried == floor_server \cup Elems(Floor!Buffered) \cup Elems(floor_wire.out) \cup Elems(floor_wire.in)

FloorTypes ==
    /\ floor_tidc \in 0 .. TidMod - 1 /\ floor_reqs \in Nat
    /\ DOMAIN floor_transl \subseteq 1 .. TidMod - 1
    /\ floor_mbtx \in Seq(FloorMsg) /\ floor_server \subseteq FloorMsg
    /\ floor_conn \in {"none", "connecting", "up"}
    /\ floor_wire \in [out : Seq(FloorMsg), in : Seq(FloorMsg)]

(* A pending request is under one id, and what is on its way under the id of
   a pending request is about this request. *)
FloorIds ==
    /\ \A t \in DOMAIN floor_transl : floor_transl[t] \in 1 .. floor_reqs
    /\ \A t, s \in DOMAIN floor_transl : floor_transl[t] = floor_transl[s] => t = s
    /\ \A m \in Carried : m.tid \in DOMAIN floor_transl => m.req = floor_transl[m.tid]

FloorTold ==
    /\ \A a \in floor_told : a.req \in 1 .. floor_reqs
    /\ \A a \in floor_told : \A t \in DOMAIN floor_transl : floor_transl[t] # a.req

FloorInv == FloorTypes /\ FloorIds /\ FloorTold /\ Floor!AnswersMatch /\ Floor!RequestsHeld

(* The elements of a queue with one more message. *)
LEMMA ElemsAppend ==
  ASSUME NEW S, NEW s \in Seq(S), NEW m \in S
  PROVE  Elems(Append(s, m)) = Elems(s) \cup {m}
<1> DEFINE r == Append(s, m)
<1>1. r \in Seq(S) /\ Len(r) = Len(s) + 1 /\ DOMAIN r = 1 .. Len(s) + 1 /\ DOMAIN s = 1 .. Len(s) /\ Len(s) \in Nat
  OBVIOUS
<1>2. \A i \in 1 .. Len(s) : r[i] = s[i]
  OBVIOUS
<1>3. r[Len(s) + 1] = m
  OBVIOUS
<1> HIDE DEF r
<1>4. Elems(r) = Elems(s) \cup {m}
  BY <1>1, <1>2, <1>3 DEF Elems
<1> QED BY <1>4 DEF r

(* The elements of two queues that are joined. *)
LEMMA ElemsConcat ==
  ASSUME NEW S, NEW s \in Seq(S), NEW t \in Seq(S)
  PROVE  Elems(s \o t) \subseteq Elems(s) \cup Elems(t)
<1> DEFINE r == s \o t
<1>1. /\ DOMAIN r = 1 .. Len(s) + Len(t) /\ DOMAIN s = 1 .. Len(s) /\ Len(s) \in Nat
      /\ DOMAIN t = 1 .. Len(t) /\ Len(t) \in Nat
  OBVIOUS
<1>2. \A i \in DOMAIN r : r[i] = IF i <= Len(s) THEN s[i] ELSE t[i - Len(s)]
  OBVIOUS
<1> HIDE DEF r
<1>3. \A i \in DOMAIN r : IF i <= Len(s) THEN i \in DOMAIN s ELSE i - Len(s) \in DOMAIN t
  BY <1>1
<1>4. Elems(r) \subseteq Elems(s) \cup Elems(t)
  BY <1>2, <1>3 DEF Elems
<1> QED BY <1>4 DEF r

(* The first message of a queue leaves it. *)
LEMMA ElemsTail ==
  ASSUME NEW S, NEW s \in Seq(S), s # <<>>
  PROVE  /\ Elems(Tail(s)) \subseteq Elems(s) /\ Head(s) \in Elems(s)
         /\ Tail(s) \in Seq(S) /\ Head(s) \in S
<1> DEFINE r == Tail(s)
<1>1. Len(s) \in Nat /\ Len(s) > 0 /\ DOMAIN s = 1 .. Len(s)
  BY EmptySeq
<1>2. r \in Seq(S) /\ DOMAIN r = 1 .. Len(s) - 1
  BY <1>1
<1>3. \A i \in 1 .. Len(s) - 1 : r[i] = s[i + 1] /\ i + 1 \in DOMAIN s
  BY <1>1
<1>4. Head(s) = s[1] /\ 1 \in DOMAIN s /\ s[1] \in S
  BY <1>1
<1> HIDE DEF r
<1>5. Elems(r) \subseteq Elems(s)
  BY <1>2, <1>3 DEF Elems
<1>6. Head(s) \in Elems(s)
  BY <1>4 DEF Elems
<1> QED BY <1>2, <1>4, <1>5, <1>6 DEF r

(* An empty queue has no elements. *)
LEMMA ElemsEmpty == Elems(<<>>) = {}
BY DEF Elems

(* The BFCP socket begins in the invariant. *)
LEMMA FloorInit == Floor!Init => FloorInv
<1> SUFFICES ASSUME Floor!Init PROVE FloorInv
  OBVIOUS
<1> USE FloorAssumption, ElemsEmpty DEF Floor!Init
<1>1. FloorTypes
  BY DEF FloorTypes
<1>2. FloorIds
  BY DEF FloorIds, Carried, Floor!Buffered
<1>3. FloorTold /\ Floor!AnswersMatch /\ Floor!RequestsHeld
  BY DEF FloorTold, Floor!AnswersMatch, Floor!RequestsHeld
<1> QED BY <1>1, <1>2, <1>3 DEF FloorInv

(* A number below the modulus is its own remainder. *)
LEMMA FloorModulo == \A a \in Nat, b \in Nat \ {0} : a < b => a % b = a
OBVIOUS

(* The next transaction number is never 0. *)
LEMMA FloorNextTid ==
  ASSUME FloorTypes PROVE Floor!NextTid \in 1 .. TidMod - 1
<1>1. CASE floor_tidc + 1 = TidMod
  <2>1. (floor_tidc + 1) % TidMod = 0
    BY <1>1, FloorAssumption DEF FloorTypes
  <2> QED BY <2>1, FloorAssumption DEF Floor!NextTid
<1>2. CASE floor_tidc + 1 < TidMod
  <2>1. (floor_tidc + 1) % TidMod = floor_tidc + 1
    <3>1. floor_tidc + 1 \in Nat /\ TidMod \in Nat \ {0}
      BY FloorAssumption DEF FloorTypes
    <3> QED BY <1>2, <3>1, FloorModulo
  <2> QED BY <1>2, <2>1, FloorAssumption DEF Floor!NextTid, FloorTypes
<1> QED BY <1>1, <1>2, FloorAssumption DEF FloorTypes

(* A request is told and is pending no more. *)
LEMMA FloorEnds ==
  ASSUME FloorInv, NEW tid \in DOMAIN floor_transl, NEW how,
         floor_told' = floor_told \cup {[req |-> floor_transl[tid], how |-> how, of |-> floor_transl[tid]]},
         floor_transl' = Floor!Remove(tid), UNCHANGED <<floor_sock, floor_reqs, floor_conn, floor_mbtx>>,
         Carried' \subseteq Carried
  PROVE  FloorIds' /\ FloorTold' /\ Floor!AnswersMatch' /\ Floor!RequestsHeld'
<1> DEFINE new == [req |-> floor_transl[tid], how |-> how, of |-> floor_transl[tid]]
<1>1. /\ DOMAIN floor_transl' = DOMAIN floor_transl \ {tid}
      /\ \A t \in DOMAIN floor_transl \ {tid} : floor_transl'[t] = floor_transl[t]
  BY DEF Floor!Remove
<1>2. new.req = floor_transl[tid] /\ new.of = floor_transl[tid] /\ floor_told' = floor_told \cup {new}
  OBVIOUS
<1> HIDE DEF new
<1>3. FloorIds'
  BY <1>1 DEF FloorInv, FloorIds
<1>4. FloorTold'
  BY <1>1, <1>2 DEF FloorInv, FloorIds, FloorTold
<1>5. Floor!AnswersMatch'
  BY <1>1, <1>2 DEF FloorInv, FloorTold, Floor!AnswersMatch
<1>6. Floor!RequestsHeld'
  BY <1>1, <1>2 DEF FloorInv, Floor!RequestsHeld
<1> QED BY <1>3, <1>4, <1>5, <1>6

(* What connects or is to be resent stays, and so does what is held for it. *)
LEMMA FloorKept ==
  ASSUME UNCHANGED <<floor_conn, floor_mbtx>> PROVE Floor!Buffered' = Floor!Buffered
BY DEF Floor!Buffered

(* A connection that closes takes everything under way with it. *)
LEMMA FloorDrops ==
  ASSUME Floor!Drops
  PROVE  /\ floor_conn' = "none" /\ Carried' = {} /\ floor_mbtx' = <<>> /\ floor_mbtx' \in Seq(FloorMsg) /\ floor_server' \subseteq FloorMsg
         /\ floor_wire' \in [out : Seq(FloorMsg), in : Seq(FloorMsg)]
BY ElemsEmpty DEF Floor!Drops, Carried, Floor!Buffered

(* A new request gets a number that nothing under way carries, or waits for
   one. *)
LEMMA FloorRequest ==
  ASSUME FloorInv, Floor!Request
  PROVE  FloorInv'
<1> DEFINE m == Floor!Msg(Floor!NextTid, floor_reqs + 1)
<1>0. FloorTypes /\ floor_reqs \in Nat
  BY DEF FloorInv, FloorTypes
<1>1. Floor!NextTid \in 1 .. TidMod - 1
  BY <1>0, FloorNextTid
<1>2. m \in FloorMsg /\ m.tid = Floor!NextTid /\ m.req = floor_reqs + 1
  BY <1>0, <1>1, FloorAssumption DEF Floor!Msg, FloorMsg
<1>3. floor_sock /\ floor_reqs' = floor_reqs + 1 /\ floor_tidc' = Floor!NextTid /\ floor_sock' = floor_sock /\ Floor!NextTid \notin Floor!InUse
  BY DEF Floor!Request
<1> HIDE DEF m
<1>4. CASE /\ floor_transl' = [t \in DOMAIN floor_transl \cup {m.tid} |->
                            IF t = m.tid THEN m.req ELSE floor_transl[t]]
           /\ Floor!Sends(m)
           /\ UNCHANGED <<floor_server, floor_told>>
  <2>1. /\ DOMAIN floor_transl' = DOMAIN floor_transl \cup {Floor!NextTid}
        /\ Floor!NextTid \notin DOMAIN floor_transl /\ floor_transl'[Floor!NextTid] = floor_reqs + 1
        /\ \A t \in DOMAIN floor_transl : floor_transl'[t] = floor_transl[t]
    BY <1>4, <1>2, <1>3 DEF Floor!InUse
  <2>2. Carried' \subseteq Carried \cup {m}
    <3>1. CASE floor_conn = "up"
      <4>1. floor_wire' = [floor_wire EXCEPT !.out = Append(@, m)] /\ floor_mbtx' = floor_mbtx /\ floor_server' = floor_server
        BY <1>4, <3>1 DEF Floor!Sends
      <4>2. floor_wire'.out = Append(floor_wire.out, m) /\ floor_wire'.in = floor_wire.in /\ floor_wire.out \in Seq(FloorMsg)
        BY <4>1, <1>0 DEF FloorTypes
      <4>3. Floor!Buffered' = Floor!Buffered
        BY <1>4, <3>1, <4>1 DEF Floor!Sends, Floor!Buffered
      <4> QED BY <4>1, <4>2, <4>3, <1>2, ElemsAppend DEF Carried
    <3>2. CASE floor_conn # "up"
      <4>1. floor_wire' = floor_wire /\ floor_mbtx' = Append(floor_mbtx, m) /\ floor_server' = floor_server /\ floor_mbtx \in Seq(FloorMsg)
        BY <1>4, <3>2, <1>0 DEF Floor!Sends, FloorTypes
      <4>2. Floor!Buffered' = Append(floor_mbtx, m)
        BY <1>4, <3>2, <4>1 DEF Floor!Sends, Floor!Buffered
      <4>3. Floor!Buffered = floor_mbtx
        BY <3>2, <1>0 DEF FloorInv, FloorTypes, Floor!RequestsHeld, Floor!Buffered
      <4> QED BY <4>1, <4>2, <4>3, <1>2, ElemsAppend DEF Carried
    <3> QED BY <3>1, <3>2
  <2>3. FloorTypes'
    <3>1. floor_mbtx' \in Seq(FloorMsg) /\ floor_wire' \in [out : Seq(FloorMsg), in : Seq(FloorMsg)]
      <4>1. Append(floor_wire.out, m) \in Seq(FloorMsg) /\ Append(floor_mbtx, m) \in Seq(FloorMsg)
        BY <1>0, <1>2 DEF FloorTypes
      <4> QED BY <4>1, <1>4, <1>0 DEF Floor!Sends, FloorTypes
    <3>2. floor_conn' \in {"none", "connecting", "up"}
      BY <1>4, <1>0 DEF Floor!Sends, FloorTypes
    <3> QED BY <3>1, <3>2, <1>4, <1>0, <1>1, <1>3, <2>1 DEF FloorTypes
  <2>4. \A k \in Carried : k.tid # Floor!NextTid
    BY <1>3 DEF Carried, Floor!InUse, Elems
  <2>5. FloorIds'
    <3>1. \A t \in DOMAIN floor_transl' : floor_transl'[t] \in 1 .. floor_reqs'
      BY <1>0, <1>3, <2>1 DEF FloorInv, FloorIds
    <3>2. \A t, s \in DOMAIN floor_transl' : floor_transl'[t] = floor_transl'[s] => t = s
      BY <1>0, <1>3, <2>1 DEF FloorInv, FloorIds
    <3>3. \A k \in Carried' : k.tid \in DOMAIN floor_transl' => k.req = floor_transl'[k.tid]
      BY <1>2, <2>1, <2>2, <2>4 DEF FloorInv, FloorIds
    <3> QED BY <3>1, <3>2, <3>3 DEF FloorIds
  <2>6. FloorTold' /\ Floor!AnswersMatch'
    BY <1>0, <1>3, <1>4, <2>1 DEF FloorInv, FloorTold, Floor!AnswersMatch
  <2>7. Floor!RequestsHeld'
    <3>1. \A r \in 1 .. floor_reqs' : (\E t \in DOMAIN floor_transl' : floor_transl'[t] = r) \/ \E a \in floor_told' : a.req = r
      <4> TAKE r \in 1 .. floor_reqs'
      <4>1. r = floor_reqs + 1 \/ r \in 1 .. floor_reqs
        BY <1>0, <1>3 DEF FloorTypes
      <4>2. floor_told' = floor_told
        BY <1>4
      <4>3. CASE r = floor_reqs + 1
        BY <2>1, <4>3
      <4>4. CASE r \in 1 .. floor_reqs
        <5>1. (\E t \in DOMAIN floor_transl : floor_transl[t] = r) \/ \E a \in floor_told : a.req = r
          BY <1>3, <4>4 DEF FloorInv, Floor!RequestsHeld
        <5> QED BY <2>1, <4>2, <5>1
      <4> QED BY <4>1, <4>3, <4>4
    <3>2. floor_mbtx' # <<>> => floor_conn' # "none"
      BY <1>4 DEF Floor!Sends, FloorInv, Floor!RequestsHeld
    <3> QED BY <3>1, <3>2 DEF Floor!RequestsHeld
  <2> QED BY <2>3, <2>5, <2>6, <2>7 DEF FloorInv
<1>5. CASE /\ Floor!Drops /\ UNCHANGED floor_transl
           /\ floor_told' = floor_told \cup {[req |-> m.req, how |-> "refused", of |-> m.req]}
  <2> DEFINE new == [req |-> m.req, how |-> "refused", of |-> m.req]
  <2>1. new.req = floor_reqs + 1 /\ new.of = floor_reqs + 1 /\ floor_told' = floor_told \cup {new}
    BY <1>2, <1>5
  <2>2. floor_transl' = floor_transl
    BY <1>5
  <2> HIDE DEF new
  <2>3. FloorTypes' /\ FloorIds'
    BY <1>0, <1>1, <1>3, <1>5, <2>2, FloorDrops DEF FloorInv, FloorTypes, FloorIds
  <2>4. FloorTold' /\ Floor!AnswersMatch'
    BY <1>0, <1>3, <2>1, <2>2 DEF FloorInv, FloorIds, FloorTold, Floor!AnswersMatch
  <2>5. Floor!RequestsHeld'
    <3>1. \A r \in 1 .. floor_reqs' : \/ \E t \in DOMAIN floor_transl' : floor_transl'[t] = r
                               \/ \E a \in floor_told' : a.req = r
      BY <1>0, <1>3, <2>1, <2>2 DEF FloorInv, Floor!RequestsHeld
    <3>2. floor_mbtx' = <<>>
      BY <1>5, FloorDrops
    <3> QED BY <3>1, <3>2 DEF Floor!RequestsHeld
  <2> QED BY <2>3, <2>4, <2>5 DEF FloorInv
<1> QED BY <1>4, <1>5 DEF Floor!Request, m

(* What the rest of the invariant asks of a step that makes and ends no
   request. *)
LEMMA FloorMoves ==
  ASSUME FloorInv, FloorTypes', UNCHANGED <<floor_transl, floor_reqs, floor_told>>,
         Carried' \subseteq Carried \cup {Floor!NOTICE},
         floor_mbtx' # <<>> => floor_conn' # "none", floor_sock' => floor_sock
  PROVE  FloorInv'
<1>1. FloorIds'
  BY DEF FloorInv, FloorTypes, FloorIds, Floor!NOTICE, Floor!Msg
<1>2. FloorTold' /\ Floor!AnswersMatch'
  BY DEF FloorInv, FloorTold, Floor!AnswersMatch
<1>3. Floor!RequestsHeld'
  BY DEF FloorInv, Floor!RequestsHeld
<1> QED BY <1>1, <1>2, <1>3 DEF FloorInv

(* Every step of the BFCP socket keeps its invariant. *)
LEMMA FloorStep == ASSUME FloorInv, [Floor!Next]_floor PROVE FloorInv'
<1>0. FloorTypes /\ floor_wire.in \in Seq(FloorMsg) /\ floor_wire.out \in Seq(FloorMsg) /\ floor_mbtx \in Seq(FloorMsg)
      /\ (floor_mbtx # <<>> => floor_conn # "none")
  BY DEF FloorInv, FloorTypes, Floor!RequestsHeld
<1>1. CASE Floor!Request
  BY <1>1, FloorRequest
<1>2. CASE Floor!Estab
  <2>1. /\ floor_conn = "connecting" /\ floor_conn' = "up" /\ Floor!Buffered' = <<>> /\ Floor!Buffered = floor_mbtx
        /\ UNCHANGED <<floor_sock, floor_tidc, floor_transl, floor_server, floor_reqs, floor_told>>
    BY <1>2 DEF Floor!Estab, Floor!Buffered
  <2>2. CASE floor_mbtx' = <<>> /\ floor_wire' = [floor_wire EXCEPT !.out = @ \o floor_mbtx]
    <3>1. floor_wire'.out = floor_wire.out \o floor_mbtx /\ floor_wire'.in = floor_wire.in
      BY <2>2, <1>0 DEF FloorTypes
    <3>2. floor_wire.out \o floor_mbtx \in Seq(FloorMsg) /\ <<>> \in Seq(FloorMsg)
      BY <1>0
    <3>3. FloorTypes'
      BY <3>2, <2>1, <2>2, <1>0 DEF FloorTypes
    <3>4. Carried' \subseteq Carried
      BY <2>1, <3>1, <1>0, ElemsConcat, ElemsEmpty DEF Carried
    <3> QED BY <2>1, <2>2, <3>3, <3>4, FloorMoves
  <2>3. CASE UNCHANGED <<floor_mbtx, floor_wire>>
    <3>1. FloorTypes'
      BY <2>1, <2>3, <1>0 DEF FloorTypes
    <3>2. Carried' \subseteq Carried
      BY <2>1, <2>3, ElemsEmpty DEF Carried
    <3> QED BY <2>1, <3>1, <3>2, FloorMoves
  <2> QED BY <1>2, <2>2, <2>3 DEF Floor!Estab
<1>3. CASE Floor!Closed
  <2>1. FloorTypes'
    BY <1>0, <1>3, FloorDrops DEF Floor!Closed, FloorTypes
  <2> QED BY <1>3, <2>1, FloorDrops, FloorMoves DEF Floor!Closed
<1>4. CASE Floor!ServerGets
  <2>1. /\ floor_wire'.out = Tail(floor_wire.out) /\ floor_wire'.in = floor_wire.in /\ floor_mbtx' = floor_mbtx
        /\ floor_server' = floor_server \cup {Head(floor_wire.out)} /\ floor_wire.out # <<>>
    BY <1>4, <1>0 DEF Floor!ServerGets, FloorTypes
  <2>2. FloorTypes'
    BY <1>4, <1>0, <2>1, ElemsTail DEF Floor!ServerGets, FloorTypes
  <2>3. Carried' \subseteq Carried
    BY <2>1, <1>0, <1>4, ElemsTail, FloorKept DEF Carried, Floor!ServerGets
  <2> QED BY <1>0, <1>4, <2>2, <2>3, FloorMoves DEF Floor!ServerGets
<1>5. CASE Floor!ServerAnswers
  <2>1. PICK m \in floor_server :
        /\ floor_server' = floor_server \ {m}
        /\ floor_wire' = [floor_wire EXCEPT !.in = Append(@, m)]
        /\ UNCHANGED <<floor_sock, floor_tidc, floor_transl, floor_conn, floor_mbtx, floor_reqs, floor_told>>
    BY <1>5 DEF Floor!ServerAnswers
  <2>2. m \in FloorMsg
    BY <1>0 DEF FloorTypes
  <2>3. floor_wire'.out = floor_wire.out /\ floor_wire'.in = Append(floor_wire.in, m)
    BY <1>0, <2>1 DEF FloorTypes
  <2>4. FloorTypes'
    <3>1. Append(floor_wire.in, m) \in Seq(FloorMsg)
      BY <1>0, <2>2
    <3> QED BY <3>1, <2>1, <1>0, <2>2 DEF FloorTypes
  <2>5. Carried' \subseteq Carried
    BY <2>1, <2>2, <2>3, <1>0, ElemsAppend, FloorKept DEF Carried
  <2> QED BY <1>0, <2>1, <2>4, <2>5, FloorMoves
<1>6. CASE Floor!ServerNotifies
  <2>1. Floor!NOTICE \in FloorMsg
    BY FloorAssumption DEF Floor!NOTICE, Floor!Msg, FloorMsg
  <2>2. floor_wire'.out = floor_wire.out /\ floor_wire'.in = Append(floor_wire.in, Floor!NOTICE) /\ floor_mbtx' = floor_mbtx /\ floor_server' = floor_server
    BY <1>0, <1>6 DEF Floor!ServerNotifies, FloorTypes
  <2>3. FloorTypes'
    <3>1. Append(floor_wire.in, Floor!NOTICE) \in Seq(FloorMsg)
      BY <1>0, <2>1
    <3> QED BY <3>1, <1>6, <1>0 DEF Floor!ServerNotifies, FloorTypes
  <2>4. Carried' \subseteq Carried \cup {Floor!NOTICE}
    BY <2>1, <2>2, <1>0, <1>6, ElemsAppend, FloorKept DEF Carried, Floor!ServerNotifies
  <2> QED BY <1>0, <1>6, <2>3, <2>4, FloorMoves DEF Floor!ServerNotifies
<1>7. CASE Floor!Recv
  <2> DEFINE m == Head(floor_wire.in)
  <2>1. /\ floor_wire'.out = floor_wire.out /\ floor_wire'.in = Tail(floor_wire.in) /\ floor_mbtx' = floor_mbtx /\ floor_wire.in # <<>>
        /\ floor_server' = floor_server
        /\ floor_wire' \in [out : Seq(FloorMsg), in : Seq(FloorMsg)]
    BY <1>7, <1>0, ElemsTail DEF Floor!Recv, FloorTypes
  <2>2. Carried' \subseteq Carried /\ m \in Carried
    BY <2>1, <1>0, <1>7, ElemsTail, FloorKept DEF Carried, Floor!Recv
  <2>3. CASE m.tid \in DOMAIN floor_transl
    <3>1. m.req = floor_transl[m.tid]
      BY <2>2, <2>3 DEF FloorInv, FloorIds
    <3>2. floor_told' = floor_told \cup {[req |-> floor_transl[m.tid], how |-> "answer", of |-> floor_transl[m.tid]]}
      BY <1>7, <2>3, <3>1 DEF Floor!Recv
    <3>3. floor_transl' = Floor!Remove(m.tid) /\ UNCHANGED <<floor_sock, floor_reqs, floor_conn, floor_mbtx, floor_tidc, floor_server>>
      BY <1>7, <2>3 DEF Floor!Recv
    <3>4. DOMAIN floor_transl' \subseteq DOMAIN floor_transl
      BY <3>3 DEF Floor!Remove
    <3>5. FloorTypes'
      BY <1>0, <2>1, <3>3, <3>4 DEF FloorTypes
    <3> HIDE DEF m
    <3> QED BY <2>2, <2>3, <3>2, <3>3, <3>5, FloorEnds DEF FloorInv
  <2>4. CASE m.tid \notin DOMAIN floor_transl
    <3>1. UNCHANGED <<floor_sock, floor_tidc, floor_transl, floor_conn, floor_mbtx, floor_server, floor_reqs, floor_told>>
      BY <1>7, <2>4 DEF Floor!Recv
    <3>2. FloorTypes'
      BY <1>0, <2>1, <3>1 DEF FloorTypes
    <3> QED BY <1>0, <2>2, <3>1, <3>2, FloorMoves
  <2> QED BY <2>3, <2>4
<1>8. CASE Floor!Free
  <2>1. FloorTypes' /\ floor_transl' = <<>> /\ floor_sock' = FALSE /\ floor_reqs' = floor_reqs /\ floor_told' = floor_told
    BY <1>0, <1>8, FloorDrops DEF Floor!Free, FloorTypes
  <2>2. Carried' = {} /\ floor_mbtx' = <<>>
    BY <1>8, FloorDrops DEF Floor!Free
  <2>3. FloorIds' /\ FloorTold' /\ Floor!AnswersMatch' /\ Floor!RequestsHeld'
    BY <2>1, <2>2 DEF FloorInv, FloorIds, FloorTold, Floor!AnswersMatch, Floor!RequestsHeld
  <2> QED BY <2>1, <2>3 DEF FloorInv
<1>9. CASE \E tid \in 1 .. TidMod - 1 : Floor!Timeout(tid)
  <2>1. PICK tid : Floor!Timeout(tid)
    BY <1>9
  <2>2. /\ tid \in DOMAIN floor_transl /\ floor_transl' = Floor!Remove(tid)
        /\ floor_told' = floor_told \cup {[req |-> floor_transl[tid], how |-> "timeout", of |-> floor_transl[tid]]}
        /\ UNCHANGED <<floor_sock, floor_tidc, floor_conn, floor_mbtx, floor_wire, floor_server, floor_reqs>>
    BY <2>1 DEF Floor!Timeout
  <2>3. FloorTypes'
    BY <1>0, <2>2 DEF FloorTypes, Floor!Remove
  <2>4. Carried' = Carried
    BY <2>2, FloorKept DEF Carried
  <2> QED BY <2>2, <2>3, <2>4, FloorEnds DEF FloorInv
<1>10. CASE UNCHANGED floor
  <2>1. FloorTypes' /\ Carried' = Carried
    BY <1>0, <1>10, FloorKept DEF floor, FloorTypes, Carried
  <2> QED BY <1>0, <1>10, <2>1, FloorMoves DEF floor
<1> QED BY <1>1, <1>2, <1>3, <1>4, <1>5, <1>6, <1>7, <1>8, <1>9, <1>10 DEF Floor!Next

-------------------------------------------------------------------------------
(* Telev: telephone events. *)

(* the packet of burst b: the bursts of digit k are 2k - 1, while it lasts,
   and 2k, its end *)
DigitsBurst(ps, b) == Digits!Packet(ps[(b + 1) \div 2], b % 2 = 0)
DigitsPacket == {Digits!Packet(d, TRUE) : d \in Digit} \cup {Digits!Packet(d, FALSE) : d \in Digit}

(* The S packets sent so far: packet s is of burst B[s].  Bursts follow each
   other, and every one that is over is longer than Loss. *)
DigitsBursts(S, B) ==
    /\ B \in [0 .. S -> Nat] /\ B[0] = 0
    /\ \A s, t \in 0 .. S : s <= t => B[s] <= B[t]
    /\ \A s, t \in 0 .. S : t <= s + Loss + 1 => B[t] <= B[s] + 1
    /\ \A s \in 1 .. S : B[s] >= 1

(* What is queued in m: f[i] digits were pressed up to byte i, k before it. *)
DigitsQueue(m, ps, k, f) ==
    /\ m \in Seq(Digit \cup {Digits!EVENT_END}) /\ ps \in Seq(Digit)
    /\ f \in [0 .. Len(m) -> Nat] /\ f[0] = k /\ f[Len(m)] = Len(ps)
    /\ \A i \in 0 .. Len(m) : f[i] <= Len(ps)
    /\ \A i \in 1 .. Len(m) :
          IF m[i] = Digits!EVENT_END THEN f[i] = f[i - 1]
          ELSE f[i] = f[i - 1] + 1 /\ m[i] = ps[f[i]]
    /\ \A i \in 1 .. Len(m) - 1 : m[i] # Digits!EVENT_END \/ m[i + 1] # Digits!EVENT_END

(* what the user may queue next and the sender will find *)
DigitsHeld ==
    /\ digits_mb # <<>> => (digits_held <=> digits_mb[Len(digits_mb)] # Digits!EVENT_END)
    /\ digits_mb = <<>> => (digits_held <=> digits_state = "SENDING")
    /\ digits_state # "SENDING" /\ digits_mb # <<>> => digits_mb[1] # Digits!EVENT_END

(* the sender is in digit k, and the last Run packets are of one burst *)
DigitsRun == IF digits_state = "SENDING" \/ (digits_state = "ENDING" /\ digits_txc > 0) THEN digits_txc ELSE Loss + 1
DigitsSender(S, B, k) ==
    /\ digits_state \in {"IDLE", "SENDING", "ENDING"} /\ digits_txc \in Nat /\ k \in Nat
    /\ B[S] = IF digits_state = "SENDING" \/ (digits_state = "ENDING" /\ digits_txc = 0) THEN 2 * k - 1 ELSE 2 * k
    /\ digits_state # "IDLE" => k >= 1 /\ digits_event = digits_pressed[k]
    /\ \A s \in 0 .. S : s > S - DigitsRun => B[s] = B[S]

(* the network holds the last packets, and before them lost the last lost *)
DigitsNet(S, B) ==
    /\ digits_net \in Seq(DigitsPacket) /\ digits_lost \in 0 .. Loss
    /\ S - Len(digits_net) - digits_lost \in Nat
    /\ \A i \in 1 .. Len(digits_net) : digits_net[i] = DigitsBurst(digits_pressed, B[S - Len(digits_net) + i])

(* the receiver told all bursts up to the one of the last packet it got *)
DigitsTold(S, B) ==
    /\ digits_told \in Seq(DigitsPacket)
    /\ Len(digits_told) = B[S - Len(digits_net) - digits_lost]
    /\ \A i \in 1 .. Len(digits_told) : digits_told[i] = DigitsBurst(digits_pressed, i)
    /\ digits_rxEnd <=> (Len(digits_told) # 0 /\ Len(digits_told) % 2 = 0)
    /\ digits_rxEvent = IF Len(digits_told) % 2 = 0 THEN Digits!NONE ELSE digits_pressed[(Len(digits_told) + 1) \div 2]

DigitsGood(S, B, k, f) ==
    /\ DigitsBursts(S, B) /\ DigitsQueue(digits_mb, digits_pressed, k, f) /\ DigitsHeld
    /\ DigitsSender(S, B, k) /\ DigitsNet(S, B) /\ DigitsTold(S, B)

DigitsOrder ==
    \E S \in Nat, k \in Nat : \E B \in [0 .. S -> Nat], f \in [0 .. Len(digits_mb) -> Nat] :
        DigitsGood(S, B, k, f)

DigitsCode == Digit \cup {Digits!EVENT_END, Digits!NONE}
DigitsAny == [event : DigitsCode, end : BOOLEAN]

(* What the receiver remembers of what it told, in whatever order it came. *)
DigitsLast(ts, end, ev) ==
    /\ end <=> (ts # <<>> /\ ts[Len(ts)].end)
    /\ ev = IF ts = <<>> \/ ts[Len(ts)].end THEN Digits!NONE ELSE ts[Len(ts)].event
    /\ \A i \in 2 .. Len(ts) : ts[i] # ts[i - 1] /\ (ts[i].end => ~ts[i - 1].end)
DigitsTypes ==
    /\ digits_mb \in Seq(Digit \cup {Digits!EVENT_END}) /\ digits_event \in DigitsCode
    /\ digits_net \in Seq(DigitsAny) /\ digits_told \in Seq(DigitsAny) /\ digits_stray \subseteq DigitsAny
DigitsHears == DigitsTypes /\ DigitsLast(digits_told, digits_rxEnd, digits_rxEvent)

DigitsInv == DigitsHears /\ (digits_strayed \/ DigitsOrder)

(* Bursts 2k - 1 and 2k are those of digit k. *)
LEMMA DigitsHalves ==
  \A k \in Nat : /\ (2 * k + 1) \div 2 = k /\ (2 * k) % 2 = 0
                 /\ (2 * k - 1 + 1) \div 2 = k /\ (k >= 1 => (2 * k - 1) % 2 = 1)
OBVIOUS

(* A burst is of a digit that was pressed. *)
LEMMA DigitsHalf ==
  ASSUME NEW b \in Nat, NEW n \in Nat, b >= 1, b <= 2 * n PROVE (b + 1) \div 2 \in 1 .. n
OBVIOUS

(* Bursts of a digit and of its end alternate. *)
LEMMA DigitsParity ==
  ASSUME NEW b \in Nat
  PROVE  /\ b % 2 = 0 \/ b % 2 = 1
         /\ b % 2 = 0 <=> (b + 1) % 2 # 0
OBVIOUS

(* An odd burst is not the zeroth. *)
LEMMA DigitsOdd == \A n \in Nat : n % 2 # 0 => n >= 1
OBVIOUS

(* No packet was sent, and none was heard. *)
LEMMA DigitsOrderInit == Digits!Init => DigitsOrder
<1> SUFFICES ASSUME Digits!Init PROVE DigitsOrder
  OBVIOUS
<1> DEFINE B == [s \in 0 .. 0 |-> 0]
           f == [i \in 0 .. Len(digits_mb) |-> 0]
<1>0. digits_mb = <<>> /\ Len(digits_mb) = 0 /\ digits_mb \in Seq(Digit \cup {Digits!EVENT_END}) /\ digits_pressed \in Seq(Digit) /\ Len(digits_pressed) = 0
  BY DEF Digits!Init
<1>1. DigitsBursts(0, B)
  BY DEF DigitsBursts
<1>2. DigitsQueue(digits_mb, digits_pressed, 0, f)
  BY <1>0 DEF DigitsQueue
<1>3. DigitsHeld
  BY DEF Digits!Init, DigitsHeld
<1>4. DigitsSender(0, B, 0)
  BY DEF Digits!Init, DigitsSender
<1>5. digits_net \in Seq(DigitsPacket) /\ digits_told \in Seq(DigitsPacket) /\ Len(digits_net) = 0 /\ Len(digits_told) = 0 /\ digits_lost = 0
  BY DEF Digits!Init
<1>6. DigitsNet(0, B)
  BY <1>5, DigitsAssumption DEF DigitsNet
<1>7. DigitsTold(0, B)
  BY <1>5 DEF Digits!Init, DigitsTold
<1>8. B \in [0 .. 0 -> Nat] /\ f \in [0 .. Len(digits_mb) -> Nat]
  OBVIOUS
<1> HIDE DEF B, f
<1>9. DigitsGood(0, B, 0, f)
  BY <1>1, <1>2, <1>3, <1>4, <1>6, <1>7 DEF DigitsGood
<1> QED BY <1>8, <1>9 DEF DigitsOrder

(* One more packet, of the same burst or the first of the next. *)
DigitsFollows(S, B, c) ==
    \/ c = B[S]
    \/ c = B[S] + 1 /\ \A s \in 0 .. S : s > S - (Loss + 1) => B[s] = B[S]
DigitsExtended(S, B, c, C) ==
    DigitsBursts(S + 1, C) /\ C[S + 1] = c /\ \A s \in 0 .. S : C[s] = B[s]

(* The bursts of the packets sent, with one packet more. *)
LEMMA DigitsExtend ==
  ASSUME NEW S \in Nat, NEW B, DigitsBursts(S, B), NEW c \in Nat, c >= 1, DigitsFollows(S, B, c)
  PROVE  \E C : DigitsExtended(S, B, c, C)
<1> USE DEF DigitsFollows
<1> DEFINE C == [s \in 0 .. S + 1 |-> IF s <= S THEN B[s] ELSE c]
<1>0. B \in [0 .. S -> Nat] /\ B[0] = 0
  BY DEF DigitsBursts
<1>1. C \in [0 .. S + 1 -> Nat] /\ C[S + 1] = c /\ \A s \in 0 .. S : C[s] = B[s]
  BY <1>0
<1> HIDE DEF C
<1>2. C[0] = 0
  BY <1>0, <1>1
<1>3. \A s, t \in 0 .. S + 1 : s <= t => C[s] <= C[t]
  <2> SUFFICES ASSUME NEW s \in 0 .. S + 1, NEW t \in 0 .. S + 1, s <= t PROVE C[s] <= C[t]
    OBVIOUS
  <2>1. CASE t <= S
    BY <1>1, <2>1 DEF DigitsBursts
  <2>2. CASE t = S + 1 /\ s <= S
    <3>1. s \in 0 .. S /\ S \in 0 .. S /\ B[s] \in Nat /\ B[S] \in Nat
      BY <1>0, <2>2
    <3>2. B[s] <= B[S] /\ C[s] = B[s]
      BY <1>1, <3>1 DEF DigitsBursts
    <3> QED BY <1>1, <2>2, <3>1, <3>2
  <2>3. CASE t = S + 1 /\ s = S + 1
    BY <1>1, <2>3
  <2> QED BY <2>1, <2>2, <2>3
<1>4. \A s, t \in 0 .. S + 1 : t <= s + Loss + 1 => C[t] <= C[s] + 1
  <2> SUFFICES ASSUME NEW s \in 0 .. S + 1, NEW t \in 0 .. S + 1, t <= s + Loss + 1
               PROVE  C[t] <= C[s] + 1
    OBVIOUS
  <2>0. Loss \in Nat
    BY DigitsAssumption
  <2>1. CASE t <= S /\ s <= S
    <3>1. s \in 0 .. S /\ t \in 0 .. S
      BY <2>1
    <3> QED BY <1>1, <3>1 DEF DigitsBursts
  <2>2. CASE t = S + 1 /\ s <= S
    <3>1. s \in 0 .. S /\ S \in 0 .. S /\ B[s] \in Nat /\ B[S] \in Nat /\ s > S - (Loss + 1) /\ S <= s + Loss + 1
      BY <1>0, <2>0, <2>2
    <3>2. B[S] <= B[s] + 1 /\ C[s] = B[s]
      BY <1>1, <3>1 DEF DigitsBursts
    <3> QED BY <1>1, <2>2, <3>1, <3>2
  <2>3. CASE s = S + 1
    <3>1. C[t] <= C[s]
      BY <1>3, <2>3
    <3>2. C[t] \in Nat /\ C[s] \in Nat
      BY <1>1
    <3> QED BY <3>1, <3>2
  <2> QED BY <2>1, <2>2, <2>3
<1>5. \A s \in 1 .. S + 1 : C[s] >= 1
  <2> TAKE s \in 1 .. S + 1
  <2>1. CASE s <= S
    BY <1>1, <2>1 DEF DigitsBursts
  <2>2. CASE s = S + 1
    BY <1>1, <2>2
  <2> QED BY <2>1, <2>2
<1>6. DigitsBursts(S + 1, C)
  BY <1>1, <1>2, <1>3, <1>4, <1>5 DEF DigitsBursts
<1> QED BY <1>1, <1>6 DEF DigitsExtended

(* the queue without its first byte *)
DigitsTail(m, ps, k, f, g) ==
    /\ DigitsQueue(Tail(m), ps, f[1], g) /\ Len(m) >= 1 /\ Len(Tail(m)) = Len(m) - 1
    /\ Head(m) = m[1] /\ g \in [0 .. Len(m) - 1 -> Nat] /\ f[1] \in Nat
    /\ Tail(m) # <<>> => /\ Tail(m)[1] = m[2]
                         /\ Tail(m)[Len(Tail(m))] = m[Len(m)]
    /\ Tail(m) = <<>> => Len(m) = 1
    /\ IF m[1] = Digits!EVENT_END THEN f[1] = k ELSE f[1] = k + 1 /\ m[1] = ps[k + 1]
    /\ Tail(m) # <<>> /\ m[1] = Digits!EVENT_END => m[2] # Digits!EVENT_END

(* The queue of the sender without its first entry. *)
LEMMA DigitsQueueTail ==
  ASSUME NEW m, NEW ps, NEW k, NEW f, DigitsQueue(m, ps, k, f), m # <<>>
  PROVE  \E g : DigitsTail(m, ps, k, f, g)
<1> DEFINE g == [i \in 0 .. Len(m) - 1 |-> f[i + 1]]
           E == Digit \cup {Digits!EVENT_END}
           r == Tail(m)
<1>0. /\ m \in Seq(E) /\ ps \in Seq(Digit)
      /\ f \in [0 .. Len(m) -> Nat] /\ f[0] = k /\ f[Len(m)] = Len(ps)
  BY DEF DigitsQueue
<1>1. Len(m) \in Nat /\ Len(m) >= 1 /\ Len(ps) \in Nat
  BY <1>0, EmptySeq
<1>2. r \in Seq(E) /\ Len(r) = Len(m) - 1 /\ Head(m) = m[1] /\ \A i \in 1 .. Len(m) - 1 : r[i] = m[i + 1]
  BY <1>0, <1>1
<1>3. g \in [0 .. Len(m) - 1 -> Nat] /\ \A i \in 0 .. Len(m) - 1 : g[i] = f[i + 1] /\ i + 1 \in 0 .. Len(m)
  BY <1>0, <1>1
<1>4. r = <<>> <=> Len(m) = 1
  BY <1>1, <1>2, EmptySeq
<1> HIDE DEF r, g
<1>5. \A i \in 1 .. Len(m) :
          IF m[i] = Digits!EVENT_END THEN f[i] = f[i - 1]
          ELSE f[i] = f[i - 1] + 1 /\ m[i] = ps[f[i]]
  BY DEF DigitsQueue
<1>6. \A i \in 1 .. Len(m) - 1 : m[i] # Digits!EVENT_END \/ m[i + 1] # Digits!EVENT_END
  BY DEF DigitsQueue
<1>7. \A i \in 0 .. Len(m) : f[i] <= Len(ps)
  BY DEF DigitsQueue
<1>8. DigitsQueue(r, ps, f[1], g)
  <2>1. g[0] = f[1] /\ g[Len(r)] = Len(ps)
    BY <1>0, <1>1, <1>2, <1>3
  <2>2. \A i \in 0 .. Len(r) : g[i] <= Len(ps)
    BY <1>2, <1>3, <1>7
  <2>3. \A i \in 1 .. Len(r) :
          IF r[i] = Digits!EVENT_END THEN g[i] = g[i - 1]
          ELSE g[i] = g[i - 1] + 1 /\ r[i] = ps[g[i]]
    <3> TAKE i \in 1 .. Len(r)
    <3>1. i + 1 \in 1 .. Len(m) /\ i \in 0 .. Len(m) - 1 /\ i - 1 \in 0 .. Len(m) - 1 /\ (i + 1) - 1 = i
          /\ (i - 1) + 1 = i /\ i \in 1 .. Len(m) - 1
      BY <1>1, <1>2
    <3>2. r[i] = m[i + 1] /\ g[i] = f[i + 1] /\ g[i - 1] = f[i]
      BY <1>2, <1>3, <3>1
    <3>3. IF m[i + 1] = Digits!EVENT_END THEN f[i + 1] = f[i]
          ELSE f[i + 1] = f[i] + 1 /\ m[i + 1] = ps[f[i + 1]]
      BY <1>5, <3>1
    <3> QED BY <3>2, <3>3
  <2>4. \A i \in 1 .. Len(r) - 1 : r[i] # Digits!EVENT_END \/ r[i + 1] # Digits!EVENT_END
    <3> TAKE i \in 1 .. Len(r) - 1
    <3>1. i + 1 \in 1 .. Len(m) - 1 /\ i \in 1 .. Len(m) - 1
      BY <1>1, <1>2
    <3> QED BY <1>2, <1>6, <3>1
  <2> QED BY <1>0, <1>2, <1>3, <2>1, <2>2, <2>3, <2>4 DEF DigitsQueue
<1>9. IF m[1] = Digits!EVENT_END THEN f[1] = k ELSE f[1] = k + 1 /\ m[1] = ps[k + 1]
  BY <1>0, <1>1, <1>5
<1>10. r # <<>> => r[1] = m[2] /\ r[Len(r)] = m[Len(m)] /\ (m[1] = Digits!EVENT_END => m[2] # Digits!EVENT_END)
  <2> SUFFICES ASSUME r # <<>> PROVE r[1] = m[2] /\ r[Len(r)] = m[Len(m)] /\ (m[1] = Digits!EVENT_END => m[2] # Digits!EVENT_END)
    OBVIOUS
  <2>0. Len(m) # 1
    BY <1>4
  <2>1. Len(m) >= 2 /\ 1 \in 1 .. Len(m) - 1 /\ Len(m) - 1 \in 1 .. Len(m) - 1
    <3>1. \A n \in Nat : n >= 1 /\ n # 1 => n >= 2 /\ 1 \in 1 .. n - 1 /\ n - 1 \in 1 .. n - 1
      OBVIOUS
    <3> QED BY <1>1, <2>0, <3>1
  <2> QED BY <1>1, <1>2, <1>6, <2>1
<1>11. f[1] \in Nat
  BY <1>0, <1>1
<1>12. DigitsTail(m, ps, k, f, g)
  BY <1>1, <1>2, <1>3, <1>4, <1>8, <1>9, <1>10, <1>11 DEF r, DigitsTail
<1> QED BY <1>12

(* the user presses x or ends the last digit *)
DigitsMore(m, ps, x, qs) ==
    \/ x = Digits!EVENT_END /\ qs = ps /\ (m # <<>> => m[Len(m)] # Digits!EVENT_END)
    \/ x \in Digit /\ qs = Append(ps, x)

(* the queue with a digit or an end more *)
LEMMA DigitsQueueAppend ==
  ASSUME NEW m, NEW ps, NEW k, NEW f, DigitsQueue(m, ps, k, f),
         NEW x, NEW qs, DigitsMore(m, ps, x, qs)
  PROVE  LET g == [i \in 0 .. Len(m) + 1 |-> IF i <= Len(m) THEN f[i] ELSE Len(qs)]
         IN  /\ DigitsQueue(Append(m, x), qs, k, g) /\ g \in [0 .. Len(m) + 1 -> Nat]
             /\ Len(Append(m, x)) = Len(m) + 1 /\ Len(m) \in Nat
<1> DEFINE g == [i \in 0 .. Len(m) + 1 |-> IF i <= Len(m) THEN f[i] ELSE Len(qs)]
           E == Digit \cup {Digits!EVENT_END}
           r == Append(m, x)
<1>0. /\ m \in Seq(E) /\ ps \in Seq(Digit)
      /\ f \in [0 .. Len(m) -> Nat] /\ f[0] = k /\ f[Len(m)] = Len(ps)
  BY DEF DigitsQueue
<1>1. Len(m) \in Nat /\ Len(ps) \in Nat
  BY <1>0
<1> USE DEF DigitsMore
<1>11. x \in E
  OBVIOUS
<1>2. r \in Seq(E) /\ Len(r) = Len(m) + 1 /\ r[Len(m) + 1] = x /\ \A i \in 1 .. Len(m) : r[i] = m[i]
  BY <1>0, <1>1, <1>11
<1>3. qs \in Seq(Digit) /\ Len(qs) \in Nat /\ \A i \in 1 .. Len(ps) : qs[i] = ps[i]
  <2>1. CASE qs = ps
    BY <1>0, <2>1
  <2>2. CASE x \in Digit /\ qs = Append(ps, x)
    BY <1>0, <2>2
  <2> QED BY <2>1, <2>2
<1>4. IF x = Digits!EVENT_END THEN Len(qs) = Len(ps) ELSE Len(qs) = Len(ps) + 1 /\ qs[Len(ps) + 1] = x
  BY <1>0, <1>1, DigitsAssumption DEF Digits!EVENT_END
<1>5. g \in [0 .. Len(m) + 1 -> Nat] /\ g[Len(m) + 1] = Len(qs) /\ \A i \in 0 .. Len(m) : g[i] = f[i]
  BY <1>0, <1>1, <1>3
<1>6. m # <<>> => Len(m) >= 1
  BY <1>0, EmptySeq
<1>12. Len(m) # 0 => m # <<>>
  BY <1>0, EmptySeq
<1> HIDE DEF r, g
<1>7. \A i \in 1 .. Len(m) :
          IF m[i] = Digits!EVENT_END THEN f[i] = f[i - 1]
          ELSE f[i] = f[i - 1] + 1 /\ m[i] = ps[f[i]]
  BY DEF DigitsQueue
<1>8. \A i \in 1 .. Len(m) - 1 : m[i] # Digits!EVENT_END \/ m[i + 1] # Digits!EVENT_END
  BY DEF DigitsQueue
<1>9. \A i \in 0 .. Len(m) : f[i] <= Len(ps) /\ f[i] \in Nat
  BY <1>0 DEF DigitsQueue
<1>10. DigitsQueue(r, qs, k, g)
  <2>1. g[0] = k /\ g[Len(r)] = Len(qs)
    BY <1>0, <1>1, <1>2, <1>5
  <2>2. \A i \in 0 .. Len(r) : g[i] <= Len(qs)
    <3> TAKE i \in 0 .. Len(r)
    <3>1. CASE i <= Len(m)
      <4>1. i \in 0 .. Len(m)
        BY <1>1, <1>2, <3>1
      <4>2. g[i] = f[i] /\ f[i] <= Len(ps) /\ f[i] \in Nat
        BY <1>5, <1>9, <4>1
      <4> QED BY <4>2, <1>1, <1>3, <1>4
    <3>2. CASE i = Len(m) + 1
      BY <1>3, <1>5, <3>2
    <3> QED BY <1>1, <1>2, <3>1, <3>2
  <2>3. \A i \in 1 .. Len(r) :
          IF r[i] = Digits!EVENT_END THEN g[i] = g[i - 1]
          ELSE g[i] = g[i - 1] + 1 /\ r[i] = qs[g[i]]
    <3> TAKE i \in 1 .. Len(r)
    <3>1. CASE i <= Len(m)
      <4>1. i \in 1 .. Len(m) /\ i \in 0 .. Len(m) /\ i - 1 \in 0 .. Len(m)
        BY <1>1, <1>2, <3>1
      <4>2. r[i] = m[i] /\ g[i] = f[i] /\ g[i - 1] = f[i - 1] /\ f[i - 1] \in Nat /\ f[i] \in Nat /\ f[i] <= Len(ps)
        BY <1>2, <1>5, <1>9, <4>1
      <4>3. IF m[i] = Digits!EVENT_END THEN f[i] = f[i - 1]
            ELSE f[i] = f[i - 1] + 1 /\ m[i] = ps[f[i]]
        BY <1>7, <4>1
      <4>4. m[i] # Digits!EVENT_END => f[i] \in 1 .. Len(ps)
        BY <1>1, <4>2, <4>3
      <4> QED BY <1>3, <4>2, <4>3, <4>4
    <3>2. CASE i = Len(m) + 1
      <4>1. i - 1 = Len(m) /\ Len(m) \in 0 .. Len(m)
        BY <1>1, <3>2
      <4>2. r[i] = x /\ g[i] = Len(qs) /\ g[i - 1] = Len(ps)
        BY <1>0, <1>2, <1>5, <3>2, <4>1
      <4> QED BY <1>4, <4>2
    <3> QED BY <1>1, <1>2, <3>1, <3>2
  <2>4. \A i \in 1 .. Len(r) - 1 : r[i] # Digits!EVENT_END \/ r[i + 1] # Digits!EVENT_END
    <3> TAKE i \in 1 .. Len(r) - 1
    <3>1. i \in 1 .. Len(m)
      BY <1>1, <1>2
    <3>2. CASE i < Len(m)
      <4>1. i \in 1 .. Len(m) - 1 /\ i + 1 \in 1 .. Len(m)
        BY <1>1, <3>1, <3>2
      <4> QED BY <1>2, <1>8, <3>1, <4>1
    <3>3. CASE i = Len(m)
      <4>1. r[i] = m[Len(m)] /\ r[i + 1] = x /\ m # <<>>
        BY <1>2, <1>12, <3>1, <3>3, <1>1
      <4> QED BY <4>1, DigitsAssumption DEF Digits!EVENT_END
    <3> QED BY <1>1, <3>1, <3>2, <3>3
  <2> QED BY <1>2, <1>3, <1>5, <2>1, <2>2, <2>3, <2>4 DEF DigitsQueue
<1> QED BY <1>1, <1>2, <1>5, <1>10 DEF r, g

(* a packet joins the network *)
LEMMA DigitsSends ==
  ASSUME NEW S \in Nat, NEW B, NEW C, NEW c, DigitsNet(S, B), DigitsTold(S, B),
         B \in [0 .. S -> Nat], C \in [0 .. S + 1 -> Nat],
         C[S + 1] = c, \A s \in 0 .. S : C[s] = B[s],
         digits_net' = Append(digits_net, DigitsBurst(digits_pressed, c)), DigitsBurst(digits_pressed, c) \in DigitsPacket,
         UNCHANGED <<digits_lost, digits_pressed, digits_told, digits_rxEvent, digits_rxEnd>>
  PROVE  DigitsNet(S + 1, C)' /\ DigitsTold(S + 1, C)'
<1> DEFINE L == Len(digits_net)
<1>0. digits_net \in Seq(DigitsPacket) /\ L \in Nat /\ digits_lost \in 0 .. Loss /\ Loss \in Nat /\ S - L - digits_lost \in Nat
  BY DigitsAssumption DEF DigitsNet
<1>1. /\ digits_net' \in Seq(DigitsPacket) /\ Len(digits_net') = L + 1 /\ digits_net'[L + 1] = DigitsBurst(digits_pressed, c)
      /\ \A i \in 1 .. L : digits_net'[i] = digits_net[i]
  BY <1>0
<1>2. \A i \in 1 .. L : digits_net[i] = DigitsBurst(digits_pressed, B[S - L + i])
  BY DEF DigitsNet
<1> HIDE DEF L
<1>3. (S + 1) - (L + 1) - digits_lost = S - L - digits_lost /\ S - L - digits_lost \in 0 .. S
  BY <1>0
<1>4. \A i \in 1 .. L + 1 : digits_net'[i] = DigitsBurst(digits_pressed, C[(S + 1) - (L + 1) + i])
  <2> TAKE i \in 1 .. L + 1
  <2>1. CASE i = L + 1
    <3>1. (S + 1) - (L + 1) + i = S + 1
      BY <1>0, <2>1
    <3> QED BY <1>1, <2>1, <3>1
  <2>2. CASE i <= L
    <3>1. (S + 1) - (L + 1) + i = S - L + i /\ S - L + i \in 0 .. S /\ i \in 1 .. L
      BY <1>0, <2>2
    <3> QED BY <1>1, <1>2, <3>1
  <2>3. L \in Nat
    BY <1>0
  <2>4. i = L + 1 \/ i <= L
    BY <2>3
  <2> QED BY <2>1, <2>2, <2>4
<1>5. DigitsNet(S + 1, C)'
  <2>1. (S + 1) - Len(digits_net') - digits_lost' \in Nat
    BY <1>0, <1>1, <1>3
  <2>2. \A i \in 1 .. Len(digits_net') : digits_net'[i] = DigitsBurst(digits_pressed', C[(S + 1) - Len(digits_net') + i])
    <3>1. Len(digits_net') = L + 1
      BY <1>1
    <3>2. \A i \in 1 .. Len(digits_net') : digits_net'[i] = DigitsBurst(digits_pressed, C[(S + 1) - Len(digits_net') + i])
      BY <1>0, <1>4, <3>1
    <3>3. digits_pressed' = digits_pressed
      OBVIOUS
    <3> QED BY <3>2, <3>3
  <2> QED BY <1>0, <1>1, <2>1, <2>2 DEF DigitsNet
<1>6. C[(S + 1) - (L + 1) - digits_lost] = B[S - L - digits_lost]
  BY <1>3
<1>7. DigitsTold(S + 1, C)'
  <2>1. C[(S + 1) - Len(digits_net') - digits_lost'] = B[S - Len(digits_net) - digits_lost]
    BY <1>1, <1>6 DEF L
  <2>2. (digits_rxEnd <=> (Len(digits_told) # 0 /\ Len(digits_told) % 2 = 0))'
    BY DEF DigitsTold
  <2> QED BY <2>1, <2>2 DEF DigitsTold
<1> QED BY <1>5, <1>7

(* every burst sent is of a digit pressed *)
LEMMA DigitsBound ==
  ASSUME NEW S \in Nat, NEW B, NEW k, NEW f, DigitsGood(S, B, k, f)
  PROVE  /\ B \in [0 .. S -> Nat] /\ digits_pressed \in Seq(Digit) /\ Len(digits_pressed) \in Nat /\ k \in Nat
         /\ k <= Len(digits_pressed) /\ B[S] <= 2 * k
         /\ \A s \in 0 .. S : B[s] \in Nat /\ B[s] <= 2 * Len(digits_pressed)
         /\ \A i \in 1 .. Len(digits_net) : /\ S - Len(digits_net) + i \in 1 .. S
                                            /\ B[S - Len(digits_net) + i] \in 1 .. 2 * Len(digits_pressed)
         /\ Len(digits_told) \in Nat /\ Len(digits_told) <= 2 * Len(digits_pressed)
         /\ Len(digits_net) \in Nat /\ digits_lost \in Nat /\ S - Len(digits_net) - digits_lost \in 0 .. S
         /\ Len(digits_mb) \in Nat
<1>1. B \in [0 .. S -> Nat] /\ digits_pressed \in Seq(Digit) /\ Len(digits_pressed) \in Nat
  BY DEF DigitsGood, DigitsBursts, DigitsQueue
<1>2. k \in Nat /\ f[0] = k /\ digits_mb \in Seq(Digit \cup {Digits!EVENT_END}) /\ Len(digits_mb) \in Nat
  BY DEF DigitsGood, DigitsSender, DigitsQueue
<1>3. k <= Len(digits_pressed)
  <2>1. 0 \in 0 .. Len(digits_mb)
    BY <1>2
  <2> QED BY <1>2, <2>1 DEF DigitsGood, DigitsQueue
<1>4. B[S] \in Nat /\ B[S] <= 2 * k
  BY <1>1, <1>2 DEF DigitsGood, DigitsSender
<1>5. \A s \in 0 .. S : B[s] \in Nat /\ B[s] <= B[S]
  BY <1>1 DEF DigitsGood, DigitsBursts
<1>6. \A s \in 0 .. S : B[s] \in Nat /\ B[s] <= 2 * Len(digits_pressed)
  BY <1>1, <1>2, <1>3, <1>4, <1>5
<1>7. /\ Len(digits_net) \in Nat /\ digits_lost \in Nat /\ S - Len(digits_net) - digits_lost \in Nat
  BY DigitsAssumption DEF DigitsGood, DigitsNet
<1>8. S - Len(digits_net) - digits_lost \in 0 .. S
  BY <1>7
<1>9. \A i \in 1 .. Len(digits_net) : /\ S - Len(digits_net) + i \in 1 .. S
                                      /\ B[S - Len(digits_net) + i] \in 1 .. 2 * Len(digits_pressed)
  <2> TAKE i \in 1 .. Len(digits_net)
  <2>1. S - Len(digits_net) + i \in 1 .. S
    BY <1>7
  <2>2. B[S - Len(digits_net) + i] >= 1
    BY <2>1 DEF DigitsGood, DigitsBursts
  <2> QED BY <1>1, <1>6, <2>1, <2>2
<1>10. Len(digits_told) = B[S - Len(digits_net) - digits_lost]
  BY DEF DigitsGood, DigitsTold
<1>11. Len(digits_told) \in Nat /\ Len(digits_told) <= 2 * Len(digits_pressed)
  BY <1>6, <1>8, <1>10
<1> QED BY <1>1, <1>2, <1>3, <1>4, <1>6, <1>7, <1>8, <1>9, <1>11

(* A witness for each part of the invariant is a witness of it. *)
LEMMA DigitsIntro ==
  ASSUME NEW S \in Nat, NEW k \in Nat, NEW B \in [0 .. S -> Nat],
         NEW f \in [0 .. Len(digits_mb') -> Nat], DigitsGood(S, B, k, f)'
  PROVE  DigitsOrder'
BY DEF DigitsOrder

(* a burst of a digit pressed is a packet, its digit at the place it names *)
LEMMA DigitsBurstIs ==
  ASSUME NEW ps \in Seq(Digit), NEW k \in 1 .. Len(ps)
  PROVE  /\ DigitsBurst(ps, 2 * k - 1) = Digits!Packet(ps[k], FALSE)
         /\ DigitsBurst(ps, 2 * k) = Digits!Packet(ps[k], TRUE)
         /\ DigitsBurst(ps, 2 * k - 1) \in DigitsPacket
         /\ DigitsBurst(ps, 2 * k) \in DigitsPacket
<1>1. k \in Nat /\ k >= 1 /\ ps[k] \in Digit
  OBVIOUS
<1>2. (2 * k - 1 + 1) \div 2 = k /\ (2 * k + 1) \div 2 = k /\ (2 * k) % 2 = 0 /\ (2 * k - 1) % 2 # 0
  BY <1>1
<1>3. ((2 * k) % 2 = 0) = TRUE /\ ((2 * k - 1) % 2 = 0) = FALSE
  BY <1>2
<1>4. /\ DigitsBurst(ps, 2 * k - 1) = Digits!Packet(ps[k], FALSE)
      /\ DigitsBurst(ps, 2 * k) = Digits!Packet(ps[k], TRUE)
  BY <1>2, <1>3 DEF DigitsBurst
<1> QED BY <1>1, <1>4 DEF DigitsPacket

(* pressing a digit does not change the bursts of those before *)
LEMMA DigitsBurstKept ==
  ASSUME NEW ps \in Seq(Digit), NEW d \in Digit, NEW b \in Nat, b >= 1, b <= 2 * Len(ps)
  PROVE  /\ DigitsBurst(Append(ps, d), b) = DigitsBurst(ps, b)
         /\ Append(ps, d)[(b + 1) \div 2] = ps[(b + 1) \div 2]
<1>1. (b + 1) \div 2 \in 1 .. Len(ps)
  BY DigitsHalf
<1>2. Append(ps, d)[(b + 1) \div 2] = ps[(b + 1) \div 2]
  BY <1>1
<1> QED BY <1>2 DEF DigitsBurst

(* What the packets of a burst say. *)
LEMMA DigitsBurstFields ==
  ASSUME NEW ps, NEW b
  PROVE  /\ DigitsBurst(ps, b).end <=> b % 2 = 0
         /\ DigitsBurst(ps, b).event = ps[(b + 1) \div 2]
<1>1. CASE b % 2 = 0
  <2>1. DigitsBurst(ps, b) = Digits!Packet(ps[(b + 1) \div 2], TRUE)
    BY <1>1 DEF DigitsBurst
  <2> QED BY <1>1, <2>1 DEF Digits!Packet
<1>2. CASE b % 2 # 0
  <2>1. DigitsBurst(ps, b) = Digits!Packet(ps[(b + 1) \div 2], FALSE)
    BY <1>2 DEF DigitsBurst
  <2> QED BY <1>2, <2>1 DEF Digits!Packet
<1> QED BY <1>1, <1>2

(* The queue with one more entry. *)
LEMMA DigitsAppended ==
  ASSUME NEW E, NEW m \in Seq(E), NEW x \in E
  PROVE  LET r == Append(m, x)
         IN  /\ r # <<>> /\ r[Len(r)] = x
             /\ m # <<>> => r[1] = m[1]
             /\ m = <<>> => r[1] = x
<1> DEFINE r == Append(m, x)
<1>1. r \in Seq(E) /\ Len(r) = Len(m) + 1 /\ Len(m) \in Nat /\ r[Len(m) + 1] = x
      /\ \A i \in 1 .. Len(m) : r[i] = m[i]
  OBVIOUS
<1>2. m # <<>> => Len(m) >= 1
  BY EmptySeq
<1>3. m = <<>> => Len(m) = 0
  OBVIOUS
<1> HIDE DEF r
<1>4. r # <<>>
  BY <1>1, EmptySeq
<1>5. m # <<>> => 1 \in 1 .. Len(m)
  BY <1>1, <1>2
<1>6. m = <<>> => r[1] = x
  BY <1>1, <1>3
<1> QED BY <1>1, <1>4, <1>5, <1>6 DEF r

(* telev_send() of a digit keeps the invariant. *)
LEMMA DigitsPress == ASSUME DigitsOrder, NEW d \in Digit, Digits!Press(d) PROVE DigitsOrder'
<1>1. PICK S \in Nat, k \in Nat : \E B \in [0 .. S -> Nat], f \in [0 .. Len(digits_mb) -> Nat] : DigitsGood(S, B, k, f)
  BY DEF DigitsOrder
<1>2. PICK B \in [0 .. S -> Nat], f \in [0 .. Len(digits_mb) -> Nat] : DigitsGood(S, B, k, f)
  BY <1>1
<1>3. /\ digits_mb' = Append(digits_mb, d) /\ digits_pressed' = Append(digits_pressed, d) /\ digits_held' = TRUE
      /\ UNCHANGED <<digits_state, digits_event, digits_txc, digits_net, digits_lost, digits_rxEvent, digits_rxEnd, digits_told>>
  BY DEF Digits!Press, Digits!heard
<1>4. DigitsQueue(digits_mb, digits_pressed, k, f)
  BY <1>2 DEF DigitsGood
<1>5. PICK g : /\ DigitsQueue(digits_mb', digits_pressed', k, g) /\ g \in [0 .. Len(digits_mb) + 1 -> Nat]
               /\ Len(digits_mb') = Len(digits_mb) + 1
  <2> DEFINE qs == Append(digits_pressed, d)
             h == [i \in 0 .. Len(digits_mb) + 1 |-> IF i <= Len(digits_mb) THEN f[i] ELSE Len(qs)]
  <2>1. qs = Append(digits_pressed, d)
    OBVIOUS
  <2> HIDE DEF qs
  <2>2. DigitsQueue(Append(digits_mb, d), qs, k, h) /\ h \in [0 .. Len(digits_mb) + 1 -> Nat]
        /\ Len(Append(digits_mb, d)) = Len(digits_mb) + 1
    <3>1. DigitsMore(digits_mb, digits_pressed, d, qs)
      BY <2>1 DEF DigitsMore
    <3> QED BY <1>4, <3>1, DigitsQueueAppend
  <2> HIDE DEF h
  <2> QED BY <1>3, <2>1, <2>2
<1>6. /\ digits_pressed \in Seq(Digit) /\ Len(digits_pressed) \in Nat /\ k <= Len(digits_pressed)
      /\ \A i \in 1 .. Len(digits_net) : B[S - Len(digits_net) + i] \in 1 .. 2 * Len(digits_pressed)
      /\ Len(digits_told) \in Nat /\ Len(digits_told) <= 2 * Len(digits_pressed)
  BY <1>2, DigitsBound
<1>7. DigitsHeld'
  <2>1. digits_mb \in Seq(Digit \cup {Digits!EVENT_END}) /\ d # Digits!EVENT_END /\ d \in Digit \cup {Digits!EVENT_END}
    BY <1>4, DigitsAssumption DEF DigitsQueue, Digits!EVENT_END
  <2>2. digits_mb' # <<>> /\ digits_mb'[Len(digits_mb')] = d /\ (digits_mb # <<>> => digits_mb'[1] = digits_mb[1]) /\ (digits_mb = <<>> => digits_mb'[1] = d)
    <3> DEFINE E == Digit \cup {Digits!EVENT_END}
    <3>1. digits_mb \in Seq(E) /\ d \in E
      BY <2>1
    <3> HIDE DEF E
    <3> QED BY <1>3, <3>1, DigitsAppended
  <2>3. DigitsHeld
    BY <1>2 DEF DigitsGood
  <2> QED BY <1>3, <2>1, <2>2, <2>3 DEF DigitsHeld
<1>8. DigitsSender(S, B, k)'
  <2>1. DigitsSender(S, B, k)
    BY <1>2 DEF DigitsGood
  <2>2. k >= 1 => digits_pressed'[k] = digits_pressed[k]
    BY <1>3, <1>6
  <2> QED BY <1>3, <2>1, <2>2 DEF DigitsSender, DigitsRun
<1>9. DigitsNet(S, B)'
  <2>1. DigitsNet(S, B)
    BY <1>2 DEF DigitsGood
  <2>2. \A i \in 1 .. Len(digits_net) :
           DigitsBurst(digits_pressed', B[S - Len(digits_net) + i]) = DigitsBurst(digits_pressed, B[S - Len(digits_net) + i])
    BY <1>3, <1>6, DigitsBurstKept
  <2> QED BY <1>3, <2>1, <2>2 DEF DigitsNet
<1>10. DigitsTold(S, B)'
  <2>1. DigitsTold(S, B)
    BY <1>2 DEF DigitsGood
  <2>2. \A i \in 1 .. Len(digits_told) : DigitsBurst(digits_pressed', i) = DigitsBurst(digits_pressed, i)
    <3> TAKE i \in 1 .. Len(digits_told)
    <3>1. i \in Nat /\ i >= 1 /\ i <= 2 * Len(digits_pressed)
      BY <1>6
    <3> QED BY <1>3, <1>6, <3>1, DigitsBurstKept
  <2>3. Len(digits_told) % 2 # 0 => digits_pressed'[(Len(digits_told) + 1) \div 2] = digits_pressed[(Len(digits_told) + 1) \div 2]
    <3>1. Len(digits_told) % 2 # 0 => Len(digits_told) >= 1
      BY <1>6, DigitsOdd
    <3> QED BY <1>3, <1>6, <3>1, DigitsBurstKept
  <2> QED BY <1>3, <2>1, <2>2, <2>3 DEF DigitsTold
<1>11. DigitsQueue(digits_mb, digits_pressed, k, g)'
  BY <1>3, <1>5 DEF DigitsQueue
<1>12. DigitsBursts(S, B)'
  BY <1>2 DEF DigitsGood, DigitsBursts
<1>13. DigitsGood(S, B, k, g)'
  BY <1>7, <1>8, <1>9, <1>10, <1>11, <1>12 DEF DigitsGood
<1>14. g \in [0 .. Len(digits_mb') -> Nat]
  BY <1>5
<1> QED BY <1>13, <1>14, DigitsIntro

(* telev_send() of the end keeps the invariant. *)
LEMMA DigitsRelease == ASSUME DigitsOrder, Digits!Release PROVE DigitsOrder'
<1>1. PICK S \in Nat, k \in Nat : \E B \in [0 .. S -> Nat], f \in [0 .. Len(digits_mb) -> Nat] : DigitsGood(S, B, k, f)
  BY DEF DigitsOrder
<1>2. PICK B \in [0 .. S -> Nat], f \in [0 .. Len(digits_mb) -> Nat] : DigitsGood(S, B, k, f)
  BY <1>1
<1>3. /\ digits_held /\ digits_mb' = Append(digits_mb, Digits!EVENT_END) /\ digits_pressed' = digits_pressed /\ ~digits_held'
      /\ UNCHANGED <<digits_state, digits_event, digits_txc, digits_net, digits_lost, digits_rxEvent, digits_rxEnd, digits_told>>
  BY DEF Digits!Release, Digits!heard
<1>4. DigitsQueue(digits_mb, digits_pressed, k, f) /\ DigitsHeld
  BY <1>2 DEF DigitsGood
<1>5. PICK g : /\ DigitsQueue(digits_mb', digits_pressed, k, g) /\ g \in [0 .. Len(digits_mb) + 1 -> Nat]
               /\ Len(digits_mb') = Len(digits_mb) + 1
  <2> DEFINE h == [i \in 0 .. Len(digits_mb) + 1 |-> IF i <= Len(digits_mb) THEN f[i] ELSE Len(digits_pressed)]
  <2>1. digits_mb # <<>> => digits_mb[Len(digits_mb)] # Digits!EVENT_END
    BY <1>3, <1>4 DEF DigitsHeld
  <2>2. /\ DigitsQueue(digits_mb', digits_pressed, k, h) /\ h \in [0 .. Len(digits_mb) + 1 -> Nat]
        /\ Len(digits_mb') = Len(digits_mb) + 1
    <3>1. DigitsMore(digits_mb, digits_pressed, Digits!EVENT_END, digits_pressed)
      BY <2>1 DEF DigitsMore
    <3> QED BY <1>3, <1>4, <3>1, DigitsQueueAppend
  <2> HIDE DEF h
  <2> QED BY <2>2
<1>7. DigitsHeld'
  <2>1. digits_mb \in Seq(Digit \cup {Digits!EVENT_END})
    BY <1>4 DEF DigitsQueue
  <2>2. digits_mb' # <<>> /\ digits_mb'[Len(digits_mb')] = Digits!EVENT_END /\ (digits_mb # <<>> => digits_mb'[1] = digits_mb[1])
    BY <1>3, <2>1, DigitsAppended
  <2> QED BY <1>3, <1>4, <2>2 DEF DigitsHeld
<1>8. DigitsSender(S, B, k)'
  BY <1>2, <1>3 DEF DigitsGood, DigitsSender, DigitsRun
<1>9. DigitsNet(S, B)'
  BY <1>2, <1>3 DEF DigitsGood, DigitsNet
<1>10. DigitsTold(S, B)'
  BY <1>2, <1>3 DEF DigitsGood, DigitsTold
<1>11. DigitsQueue(digits_mb, digits_pressed, k, g)'
  BY <1>3, <1>5 DEF DigitsQueue
<1>12. DigitsBursts(S, B)'
  BY <1>2 DEF DigitsGood, DigitsBursts
<1>13. DigitsGood(S, B, k, g)'
  BY <1>7, <1>8, <1>9, <1>10, <1>11, <1>12 DEF DigitsGood
<1>14. g \in [0 .. Len(digits_mb') -> Nat]
  BY <1>5
<1> QED BY <1>13, <1>14, DigitsIntro

(* A lost packet is followed by another of its burst: the network loses fewer
   in a row than are sent. *)
LEMMA DigitsLose == ASSUME DigitsOrder, Digits!Lose PROVE DigitsOrder'
<1>1. PICK S \in Nat, k \in Nat : \E B \in [0 .. S -> Nat], f \in [0 .. Len(digits_mb) -> Nat] : DigitsGood(S, B, k, f)
  BY DEF DigitsOrder
<1>2. PICK B \in [0 .. S -> Nat], f \in [0 .. Len(digits_mb) -> Nat] : DigitsGood(S, B, k, f)
  BY <1>1
<1>3. /\ digits_net # <<>> /\ digits_lost < Loss /\ digits_net' = Tail(digits_net) /\ digits_lost' = digits_lost + 1
      /\ UNCHANGED <<digits_mb, digits_state, digits_event, digits_txc, digits_rxEvent, digits_rxEnd, digits_pressed, digits_held, digits_told>>
  BY DEF Digits!Lose, Digits!sent, Digits!heard
<1>4. /\ digits_net \in Seq(DigitsPacket) /\ digits_lost \in 0 .. Loss /\ S - Len(digits_net) - digits_lost \in Nat /\ Loss \in Nat
      /\ \A i \in 1 .. Len(digits_net) : digits_net[i] = DigitsBurst(digits_pressed, B[S - Len(digits_net) + i])
  BY <1>2, DigitsAssumption DEF DigitsGood, DigitsNet
<1>5. Len(digits_net) \in Nat /\ Len(digits_net) >= 1
  BY <1>3, <1>4, EmptySeq
<1>6. digits_net' \in Seq(DigitsPacket) /\ Len(digits_net') = Len(digits_net) - 1 /\ \A i \in 1 .. Len(digits_net) - 1 : digits_net'[i] = digits_net[i + 1]
  BY <1>3, <1>4, <1>5
<1>7. S - Len(digits_net') - digits_lost' = S - Len(digits_net) - digits_lost
  BY <1>3, <1>4, <1>5, <1>6
<1>8. \A i \in 1 .. Len(digits_net') : digits_net'[i] = DigitsBurst(digits_pressed, B[S - Len(digits_net') + i])
  <2> TAKE i \in 1 .. Len(digits_net')
  <2>1. i \in 1 .. Len(digits_net) - 1 /\ i + 1 \in 1 .. Len(digits_net) /\ S - Len(digits_net) + (i + 1) = S - Len(digits_net') + i
    BY <1>5, <1>6
  <2> QED BY <1>4, <1>6, <2>1
<1>9. DigitsNet(S, B)'
  <2>1. digits_lost' \in 0 .. Loss
    BY <1>3, <1>4
  <2> QED BY <1>3, <1>4, <1>6, <1>7, <1>8, <2>1 DEF DigitsNet
<1>10. DigitsTold(S, B)'
  BY <1>2, <1>3, <1>7 DEF DigitsGood, DigitsTold
<1>11. DigitsSender(S, B, k)' /\ DigitsHeld'
  BY <1>2, <1>3 DEF DigitsGood, DigitsSender, DigitsRun, DigitsHeld
<1>12. DigitsGood(S, B, k, f)'
  BY <1>2, <1>3, <1>9, <1>10, <1>11 DEF DigitsGood, DigitsBursts, DigitsQueue
<1> QED BY <1>2, <1>3, <1>12, DigitsIntro

(* telev_recv() hears a burst once, and no burst is skipped. *)
LEMMA DigitsRecv == ASSUME DigitsOrder, Digits!Recv PROVE DigitsOrder'
<1>1. PICK S \in Nat, k \in Nat : \E B \in [0 .. S -> Nat], f \in [0 .. Len(digits_mb) -> Nat] : DigitsGood(S, B, k, f)
  BY DEF DigitsOrder
<1>2. PICK B \in [0 .. S -> Nat], f \in [0 .. Len(digits_mb) -> Nat] : DigitsGood(S, B, k, f)
  BY <1>1
<1> DEFINE p == Head(digits_net)
           already == IF p.end THEN digits_rxEnd ELSE p.event = digits_rxEvent
           n == Len(digits_told)
           b == B[S - Len(digits_net) + 1]
<1>3. /\ digits_net # <<>> /\ digits_net' = Tail(digits_net) /\ digits_lost' = 0
      /\ UNCHANGED <<digits_mb, digits_state, digits_event, digits_txc, digits_pressed, digits_held>>
  BY DEF Digits!Recv, Digits!sent
<1>4. /\ digits_net \in Seq(DigitsPacket) /\ digits_lost \in 0 .. Loss /\ S - Len(digits_net) - digits_lost \in Nat /\ Loss \in Nat
      /\ \A i \in 1 .. Len(digits_net) : digits_net[i] = DigitsBurst(digits_pressed, B[S - Len(digits_net) + i])
  BY <1>2, DigitsAssumption DEF DigitsGood, DigitsNet
<1>5. Len(digits_net) \in Nat /\ Len(digits_net) >= 1
  BY <1>3, <1>4, EmptySeq
<1>6. /\ digits_net' \in Seq(DigitsPacket) /\ Len(digits_net') = Len(digits_net) - 1 /\ p = digits_net[1] /\ p \in DigitsPacket
      /\ \A i \in 1 .. Len(digits_net) - 1 : digits_net'[i] = digits_net[i + 1]
  BY <1>3, <1>4, <1>5
<1>7. S - Len(digits_net') - digits_lost' = S - Len(digits_net) + 1
  BY <1>3, <1>5, <1>6
<1>8. \A i \in 1 .. Len(digits_net') : digits_net'[i] = DigitsBurst(digits_pressed, B[S - Len(digits_net') + i])
  <2> TAKE i \in 1 .. Len(digits_net')
  <2>1. i \in 1 .. Len(digits_net) - 1 /\ i + 1 \in 1 .. Len(digits_net) /\ S - Len(digits_net) + (i + 1) = S - Len(digits_net') + i
    BY <1>5, <1>6
  <2> QED BY <1>4, <1>6, <2>1
<1>9. DigitsNet(S, B)'
  <2>1. digits_lost' \in 0 .. Loss /\ S - Len(digits_net') - digits_lost' \in Nat
    BY <1>3, <1>4, <1>5, <1>7
  <2> QED BY <1>3, <1>4, <1>6, <1>8, <2>1 DEF DigitsNet
<1>10. b \in Nat /\ b >= 1 /\ b <= 2 * Len(digits_pressed) /\ n \in Nat /\ (b = n \/ b = n + 1)
  <2>5. 1 \in 1 .. Len(digits_net)
    BY <1>5
  <2>1. /\ n \in Nat /\ S - Len(digits_net) - digits_lost \in 0 .. S /\ S - Len(digits_net) + 1 \in 1 .. S
        /\ b \in 1 .. 2 * Len(digits_pressed) /\ Len(digits_pressed) \in Nat
    BY <1>2, <2>5, DigitsBound
  <2>2. n = B[S - Len(digits_net) - digits_lost]
    BY <1>2 DEF DigitsGood, DigitsTold
  <2>3. S - Len(digits_net) - digits_lost <= S - Len(digits_net) + 1 /\ S - Len(digits_net) + 1 <= (S - Len(digits_net) - digits_lost) + Loss + 1
    BY <1>4, <1>5
  <2>4. B[S - Len(digits_net) - digits_lost] <= b /\ b <= B[S - Len(digits_net) - digits_lost] + 1
    <3> DEFINE s == S - Len(digits_net) - digits_lost
               t == S - Len(digits_net) + 1
    <3>1. s \in 0 .. S /\ t \in 0 .. S /\ s <= t /\ t <= s + Loss + 1
      BY <2>1, <2>3
    <3> HIDE DEF s, t
    <3>2. B[s] <= B[t] /\ B[t] <= B[s] + 1
      BY <1>2, <3>1 DEF DigitsGood, DigitsBursts
    <3> QED BY <3>2 DEF s, t
  <2>6. n <= b /\ b <= n + 1 /\ n \in Nat
    BY <2>1, <2>2, <2>4
  <2>7. b \in Nat /\ b >= 1 /\ b <= 2 * Len(digits_pressed)
    BY <2>1
  <2> HIDE DEF b, n
  <2>8. b = n \/ b = n + 1
    BY <2>6, <2>7
  <2> QED BY <2>6, <2>7, <2>8
<1>11. p = DigitsBurst(digits_pressed, b)
  <2>1. 1 \in 1 .. Len(digits_net)
    BY <1>5
  <2> QED BY <1>4, <1>6, <2>1
<1>12. (p.end <=> b % 2 = 0) /\ p.event = digits_pressed[(b + 1) \div 2]
  <2> HIDE DEF p, b
  <2> QED BY <1>11, DigitsBurstFields
<1>13. digits_pressed \in Seq(Digit) /\ (b + 1) \div 2 \in 1 .. Len(digits_pressed)
  BY <1>2, <1>10, DigitsBound, DigitsHalf
<1>14. p.event \in Digit /\ p.event # Digits!NONE
  BY <1>12, <1>13, DigitsAssumption DEF Digits!NONE
<1>15. DigitsTold(S, B)
  BY <1>2 DEF DigitsGood
<1>16. b = B[S - Len(digits_net') - digits_lost']
  BY <1>7
<1> HIDE DEF p, b
<1>19. ASSUME DigitsTold(S, B)' PROVE DigitsOrder'
  <2>1. DigitsSender(S, B, k)' /\ DigitsHeld'
    BY <1>2, <1>3 DEF DigitsGood, DigitsSender, DigitsRun, DigitsHeld
  <2>2. DigitsQueue(digits_mb, digits_pressed, k, f)' /\ DigitsBursts(S, B)'
    BY <1>2, <1>3 DEF DigitsGood, DigitsBursts, DigitsQueue
  <2>3. DigitsGood(S, B, k, f)'
    BY <1>9, <1>19, <2>1, <2>2 DEF DigitsGood
  <2> QED BY <1>2, <1>3, <2>3, DigitsIntro
<1>17. CASE b = n
  <2>1. already
    <3>1. CASE b % 2 = 0
      BY <1>10, <1>12, <1>15, <1>17, <3>1 DEF DigitsTold
    <3>2. CASE b % 2 # 0
      BY <1>12, <1>15, <1>17, <3>2 DEF DigitsTold
    <3> QED BY <3>1, <3>2
  <2>2. UNCHANGED <<digits_rxEvent, digits_rxEnd, digits_told>>
    BY <2>1 DEF Digits!Recv, Digits!Hear, Digits!heard, p
  <2>3. DigitsTold(S, B)'
    BY <1>3, <1>15, <1>16, <1>17, <2>2 DEF DigitsTold
  <2> QED BY <2>3, <1>19
<1>18. CASE b = n + 1
  <2>1. ~already
    <3>1. CASE b % 2 = 0
      <4>1. n % 2 # 0
        BY <1>10, <1>18, <3>1, DigitsParity
      <4> QED BY <1>12, <1>15, <3>1, <4>1 DEF DigitsTold
    <3>2. CASE b % 2 # 0
      <4>1. n % 2 = 0
        BY <1>10, <1>18, <3>2, DigitsParity
      <4> QED BY <1>12, <1>14, <1>15, <3>2, <4>1 DEF DigitsTold
    <3> QED BY <3>1, <3>2
  <2>2. /\ digits_rxEvent' = IF p.end THEN Digits!NONE ELSE p.event
        /\ digits_rxEnd' = p.end /\ digits_told' = Append(digits_told, p)
    BY <2>1 DEF Digits!Recv, Digits!Hear, Digits!heard, p
  <2>3. /\ digits_told' \in Seq(DigitsPacket) /\ Len(digits_told') = n + 1 /\ digits_told'[n + 1] = p
        /\ \A i \in 1 .. n : digits_told'[i] = digits_told[i]
    <3>1. digits_told \in Seq(DigitsPacket) /\ p \in DigitsPacket /\ digits_told' = Append(digits_told, p)
      BY <1>6, <1>15, <2>2 DEF DigitsTold
    <3> QED BY <3>1
  <2>4. \A i \in 1 .. n + 1 : digits_told'[i] = DigitsBurst(digits_pressed, i)
    <3> TAKE i \in 1 .. n + 1
    <3>1. CASE i = n + 1
      BY <1>11, <1>18, <2>3, <3>1
    <3>2. CASE i \in 1 .. n
      BY <1>15, <2>3, <3>2 DEF DigitsTold
    <3>3. i = n + 1 \/ i \in 1 .. n
      BY <1>10
    <3> QED BY <3>1, <3>2, <3>3
  <2>5. digits_rxEnd' <=> (n + 1 # 0 /\ (n + 1) % 2 = 0)
    <3>1. digits_rxEnd' <=> p.end
      BY <2>2
    <3>2. n + 1 # 0
      BY <1>10
    <3> QED BY <1>12, <1>18, <3>1, <3>2
  <2>6. digits_rxEvent' = IF (n + 1) % 2 = 0 THEN Digits!NONE ELSE digits_pressed[((n + 1) + 1) \div 2]
    BY <1>12, <1>18, <2>2
  <2>7. DigitsTold(S, B)'
    BY <1>3, <1>16, <1>18, <2>3, <2>4, <2>5, <2>6 DEF DigitsTold
  <2> QED BY <2>7, <1>19
<1> QED BY <1>10, <1>17, <1>18

(* A poll sends a packet of burst c: the same burst as before, or the next
   when the last Loss + 1 packets were of one. *)
LEMMA DigitsPolls ==
  ASSUME NEW S \in Nat, NEW k \in Nat, NEW B, NEW f, DigitsGood(S, B, k, f), NEW c \in Nat, c >= 1,
         NEW kk \in Nat, NEW h \in [0 .. Len(digits_mb') -> Nat], NEW run,
         \/ c = B[S]
         \/ c = B[S] + 1 /\ DigitsRun = Loss + 1,
         digits_net' = Append(digits_net, DigitsBurst(digits_pressed, c)), DigitsBurst(digits_pressed, c) \in DigitsPacket,
         UNCHANGED <<digits_lost, digits_rxEvent, digits_rxEnd, digits_pressed, digits_held, digits_told>>,
         DigitsQueue(digits_mb', digits_pressed, kk, h), DigitsHeld',
         digits_state' \in {"IDLE", "SENDING", "ENDING"}, digits_txc' \in Nat,
         c = IF digits_state' = "SENDING" \/ (digits_state' = "ENDING" /\ digits_txc' = 0) THEN 2 * kk - 1 ELSE 2 * kk,
         digits_state' # "IDLE" => kk >= 1 /\ digits_event' = digits_pressed[kk],
         DigitsRun' = run, run \in Nat,
         IF c = B[S] THEN DigitsRun \in Nat /\ run <= DigitsRun + 1 ELSE run <= 1
  PROVE  DigitsOrder'
<1>1. DigitsBursts(S, B) /\ DigitsSender(S, B, k) /\ DigitsNet(S, B) /\ DigitsTold(S, B)
  BY DEF DigitsGood
<1>2. \A s \in 0 .. S : s > S - DigitsRun => B[s] = B[S]
  BY <1>1 DEF DigitsSender
<1>3. DigitsFollows(S, B, c)
  BY <1>2 DEF DigitsFollows
<1>11. \E C : DigitsExtended(S, B, c, C)
  BY ONLY S \in Nat, <1>1, c \in Nat, c >= 1, <1>3, DigitsExtend
<1>12. PICK C : DigitsExtended(S, B, c, C)
  BY <1>11
<1>4. DigitsBursts(S + 1, C) /\ C[S + 1] = c /\ \A s \in 0 .. S : C[s] = B[s]
  BY <1>12 DEF DigitsExtended
<1>5. B \in [0 .. S -> Nat] /\ C \in [0 .. S + 1 -> Nat] /\ S + 1 \in Nat
  BY <1>1, <1>4 DEF DigitsBursts
<1>6. DigitsNet(S + 1, C)' /\ DigitsTold(S + 1, C)'
  BY <1>1, <1>4, <1>5, DigitsSends
<1>7. \A s \in 0 .. S + 1 : s > (S + 1) - run => C[s] = C[S + 1]
  <2> SUFFICES ASSUME NEW s \in 0 .. S + 1, s > (S + 1) - run PROVE C[s] = c
    BY <1>4
  <2>1. CASE s = S + 1
    BY <1>4, <2>1
  <2>2. CASE s \in 0 .. S
    <3>1. c = B[S]
      BY <2>2
    <3>2. s > S - DigitsRun
      BY <2>2, <3>1
    <3> QED BY <1>2, <1>4, <2>2, <3>1, <3>2
  <2> QED BY <2>1, <2>2
<1>8. DigitsSender(S + 1, C, kk)'
  BY <1>4, <1>7 DEF DigitsSender
<1>9. DigitsQueue(digits_mb, digits_pressed, kk, h)' /\ DigitsBursts(S + 1, C)'
  BY <1>4 DEF DigitsQueue, DigitsBursts
<1>10. DigitsGood(S + 1, C, kk, h)'
  BY <1>6, <1>8, <1>9 DEF DigitsGood
<1> QED BY <1>5, <1>10, DigitsIntro

(* telev_poll() sends the bursts one after the other, each longer than the
   losses in a row. *)
LEMMA DigitsPoll == ASSUME DigitsOrder, Digits!Poll PROVE DigitsOrder'
<1>1. PICK S \in Nat, k \in Nat : \E B \in [0 .. S -> Nat], f \in [0 .. Len(digits_mb) -> Nat] : DigitsGood(S, B, k, f)
  BY DEF DigitsOrder
<1>2. PICK B \in [0 .. S -> Nat], f \in [0 .. Len(digits_mb) -> Nat] : DigitsGood(S, B, k, f)
  BY <1>1
<1>3. UNCHANGED <<digits_lost, digits_rxEvent, digits_rxEnd, digits_pressed, digits_held, digits_told>>
  BY DEF Digits!Poll, Digits!heard
<1>4. /\ DigitsQueue(digits_mb, digits_pressed, k, f) /\ DigitsHeld /\ DigitsSender(S, B, k)
      /\ Loss \in Nat /\ DigitMin \in Nat /\ EndTx \in Nat /\ Loss < DigitMin /\ Loss < EndTx
  BY <1>2, DigitsAssumption DEF DigitsGood
<1>5. /\ B[S] \in Nat /\ digits_pressed \in Seq(Digit) /\ Len(digits_pressed) \in Nat /\ k <= Len(digits_pressed)
      /\ Len(digits_mb) \in Nat /\ digits_mb \in Seq(Digit \cup {Digits!EVENT_END})
  <2>1. digits_pressed \in Seq(Digit) /\ digits_mb \in Seq(Digit \cup {Digits!EVENT_END})
    BY <1>4 DEF DigitsQueue
  <2>2. Len(digits_pressed) \in Nat /\ Len(digits_mb) \in Nat
    BY <2>1
  <2>3. f[0] = k /\ f[0] <= Len(digits_pressed)
    BY <1>4, <2>2 DEF DigitsQueue
  <2>4. B[S] \in Nat
    BY <1>2
  <2> QED BY <2>1, <2>2, <2>3, <2>4
<1>6. CASE /\ digits_state = "IDLE" /\ digits_mb # <<>>
           /\ digits_event' = Head(digits_mb) /\ digits_mb' = Tail(digits_mb)
           /\ digits_state' = "SENDING" /\ digits_txc' = 1
           /\ digits_net' = Append(digits_net, Digits!Packet(Head(digits_mb), FALSE))
  <2>1. PICK h : /\ DigitsQueue(digits_mb', digits_pressed, f[1], h) /\ h \in [0 .. Len(digits_mb') -> Nat]
                 /\ Head(digits_mb) = digits_mb[1] /\ f[1] \in Nat
                 /\ digits_mb' # <<>> => digits_mb'[Len(digits_mb')] = digits_mb[Len(digits_mb)]
                 /\ digits_mb' = <<>> => Len(digits_mb) = 1
                 /\ IF digits_mb[1] = Digits!EVENT_END THEN f[1] = k ELSE f[1] = k + 1 /\ digits_mb[1] = digits_pressed[k + 1]
    <3>0. PICK g : DigitsTail(digits_mb, digits_pressed, k, f, g)
      BY <1>4, <1>6, DigitsQueueTail
    <3>1. /\ DigitsQueue(Tail(digits_mb), digits_pressed, f[1], g) /\ Len(Tail(digits_mb)) = Len(digits_mb) - 1
          /\ Head(digits_mb) = digits_mb[1] /\ g \in [0 .. Len(digits_mb) - 1 -> Nat] /\ f[1] \in Nat
          /\ Tail(digits_mb) # <<>> => Tail(digits_mb)[Len(Tail(digits_mb))] = digits_mb[Len(digits_mb)]
          /\ Tail(digits_mb) = <<>> => Len(digits_mb) = 1
          /\ IF digits_mb[1] = Digits!EVENT_END THEN f[1] = k ELSE f[1] = k + 1 /\ digits_mb[1] = digits_pressed[k + 1]
      BY <3>0 DEF DigitsTail
    <3>2. digits_mb' = Tail(digits_mb)
      BY <1>6
    <3> QED BY <3>1, <3>2
  <2>2. digits_mb[1] # Digits!EVENT_END
    BY <1>4, <1>6 DEF DigitsHeld
  <2>3. f[1] = k + 1 /\ digits_event' = digits_pressed[k + 1] /\ Head(digits_mb) = digits_pressed[k + 1]
    BY <1>6, <2>1, <2>2
  <2>4. k + 1 \in 1 .. Len(digits_pressed)
    <3>1. 0 \in 0 .. Len(digits_mb') /\ h[0] = f[1] /\ h[0] <= Len(digits_pressed)
      <4>1. Len(digits_mb') \in Nat
        BY <2>1 DEF DigitsQueue
      <4> QED BY <2>1, <4>1 DEF DigitsQueue
    <3> QED BY <1>5, <2>3, <3>1
  <2>5. B[S] = 2 * k /\ DigitsRun = Loss + 1
    BY <1>4, <1>6 DEF DigitsSender, DigitsRun
  <2> DEFINE c == 2 * (k + 1) - 1
  <2>6. c = B[S] + 1 /\ c \in Nat /\ c >= 1 /\ c # B[S]
    BY <2>5
  <2>7. digits_net' = Append(digits_net, DigitsBurst(digits_pressed, c)) /\ DigitsBurst(digits_pressed, c) \in DigitsPacket
    BY <1>5, <1>6, <2>3, <2>4, DigitsBurstIs
  <2>8. DigitsHeld'
    <3>1. digits_held <=> digits_mb[Len(digits_mb)] # Digits!EVENT_END
      BY <1>4, <1>6 DEF DigitsHeld
    <3>2. digits_mb' = <<>> => digits_held
      BY <2>1, <2>2, <3>1
    <3> QED BY <1>3, <1>6, <2>1, <3>1, <3>2 DEF DigitsHeld
  <2>9. DigitsRun' = 1
    BY <1>6 DEF DigitsRun
  <2>10. /\ digits_state' \in {"IDLE", "SENDING", "ENDING"} /\ digits_txc' \in Nat /\ k + 1 \in Nat /\ k + 1 >= 1
         /\ c = IF digits_state' = "SENDING" \/ (digits_state' = "ENDING" /\ digits_txc' = 0) THEN 2 * (k + 1) - 1 ELSE 2 * (k + 1)
    BY <1>6
  <2>11. DigitsQueue(digits_mb', digits_pressed, k + 1, h)
    BY <2>1, <2>3
  <2> HIDE DEF c
  <2>12. c = B[S] + 1 /\ DigitsRun = Loss + 1
    BY <2>5, <2>6
  <2>13. 1 \in Nat /\ (IF c = B[S] THEN DigitsRun \in Nat /\ 1 <= DigitsRun + 1 ELSE 1 <= 1)
    BY <2>6
  <2>14. k + 1 \in Nat /\ k + 1 >= 1 /\ digits_event' = digits_pressed[k + 1] /\ h \in [0 .. Len(digits_mb') -> Nat]
    BY <2>1, <2>3
  <2> QED BY <1>2, <1>3, <2>6, <2>7, <2>8, <2>9, <2>10, <2>11, <2>12, <2>13, <2>14, DigitsPolls
<1>7. CASE /\ digits_state = "SENDING"
           /\ digits_net' = Append(digits_net, Digits!Packet(digits_event, FALSE))
           /\ IF digits_txc + 1 < DigitMin \/ digits_mb = <<>>
              THEN /\ digits_txc' = IF digits_txc < DigitMin THEN digits_txc + 1 ELSE digits_txc
                   /\ UNCHANGED <<digits_mb, digits_state>>
              ELSE /\ digits_mb' = IF Head(digits_mb) = Digits!EVENT_END THEN Tail(digits_mb) ELSE digits_mb
                   /\ digits_state' = "ENDING" /\ digits_txc' = 0
           /\ UNCHANGED digits_event
  <2> DEFINE c == 2 * k - 1
  <2>1. /\ B[S] = c /\ k >= 1 /\ digits_event = digits_pressed[k] /\ digits_txc \in Nat /\ DigitsRun = digits_txc
        /\ digits_event' = digits_event
    BY <1>4, <1>7 DEF DigitsSender, DigitsRun
  <2>2. c \in Nat /\ c >= 1
    BY <2>1
  <2>3. k \in 1 .. Len(digits_pressed)
    BY <1>5, <2>1
  <2>4. digits_net' = Append(digits_net, DigitsBurst(digits_pressed, c)) /\ DigitsBurst(digits_pressed, c) \in DigitsPacket
    BY <1>5, <1>7, <2>1, <2>3, DigitsBurstIs
  <2>5. CASE digits_txc + 1 < DigitMin \/ digits_mb = <<>>
    <3>1. /\ digits_mb' = digits_mb /\ digits_state' = "SENDING" /\ digits_txc' \in Nat /\ digits_txc' <= digits_txc + 1
          /\ DigitsRun' = digits_txc'
      BY <1>7, <2>1, <2>5, <1>4 DEF DigitsRun
    <3>2. DigitsHeld'
      BY <1>3, <1>4, <1>7, <3>1 DEF DigitsHeld
    <3>3. f \in [0 .. Len(digits_mb') -> Nat] /\ DigitsQueue(digits_mb', digits_pressed, k, f)
      BY <1>2, <1>4, <3>1
    <3>4. c = IF digits_state' = "SENDING" \/ (digits_state' = "ENDING" /\ digits_txc' = 0) THEN 2 * k - 1 ELSE 2 * k
      BY <3>1
    <3>5. PICK run : run = digits_txc'
      OBVIOUS
    <3> HIDE DEF c
    <3>6. DigitsRun' = run /\ run \in Nat /\ (IF c = B[S] THEN DigitsRun \in Nat /\ run <= DigitsRun + 1 ELSE run <= 1)
      BY <2>1, <3>1, <3>5
    <3>7. digits_state' \in {"IDLE", "SENDING", "ENDING"} /\ digits_txc' \in Nat /\ k >= 1 /\ digits_event' = digits_pressed[k] /\ c = B[S]
      BY <2>1, <3>1
    <3> QED BY <1>2, <1>3, <2>2, <2>4, <3>2, <3>3, <3>4, <3>6, <3>7, DigitsPolls
  <2>6. CASE ~(digits_txc + 1 < DigitMin \/ digits_mb = <<>>)
    <3>1. /\ digits_mb' = (IF Head(digits_mb) = Digits!EVENT_END THEN Tail(digits_mb) ELSE digits_mb) /\ digits_state' = "ENDING" /\ digits_txc' = 0
          /\ digits_txc + 1 >= DigitMin /\ digits_mb # <<>>
      BY <1>4, <1>7, <2>1, <2>6
    <3>2. PICK h : /\ h \in [0 .. Len(digits_mb') -> Nat] /\ DigitsQueue(digits_mb', digits_pressed, k, h)
                   /\ digits_mb' # <<>> => digits_mb'[1] # Digits!EVENT_END /\ digits_mb'[Len(digits_mb')] = digits_mb[Len(digits_mb)]
                   /\ digits_mb' = <<>> => digits_mb[Len(digits_mb)] = Digits!EVENT_END
      <4>0. PICK g : DigitsTail(digits_mb, digits_pressed, k, f, g)
        BY <1>4, <3>1, DigitsQueueTail
      <4>1. /\ DigitsQueue(Tail(digits_mb), digits_pressed, f[1], g) /\ Len(Tail(digits_mb)) = Len(digits_mb) - 1
            /\ Head(digits_mb) = digits_mb[1] /\ g \in [0 .. Len(digits_mb) - 1 -> Nat]
            /\ Tail(digits_mb) # <<>> => Tail(digits_mb)[1] = digits_mb[2] /\ Tail(digits_mb)[Len(Tail(digits_mb))] = digits_mb[Len(digits_mb)]
            /\ Tail(digits_mb) = <<>> => Len(digits_mb) = 1
            /\ digits_mb[1] = Digits!EVENT_END => f[1] = k
            /\ Tail(digits_mb) # <<>> /\ digits_mb[1] = Digits!EVENT_END => digits_mb[2] # Digits!EVENT_END
        BY <4>0 DEF DigitsTail
      <4>2. CASE Head(digits_mb) = Digits!EVENT_END
        <5>1. digits_mb' = Tail(digits_mb) /\ digits_mb[1] = Digits!EVENT_END
          BY <3>1, <4>1, <4>2
        <5> QED BY <4>1, <5>1
      <4>3. CASE Head(digits_mb) # Digits!EVENT_END
        <5>1. digits_mb' = digits_mb /\ digits_mb[1] # Digits!EVENT_END /\ digits_mb' # <<>>
          BY <3>1, <4>1, <4>3
        <5> QED BY <1>2, <1>4, <5>1
      <4> QED BY <4>2, <4>3
    <3>3. DigitsHeld'
      <4>1. digits_held <=> digits_mb[Len(digits_mb)] # Digits!EVENT_END
        BY <1>4, <3>1 DEF DigitsHeld
      <4> QED BY <1>3, <3>1, <3>2, <4>1 DEF DigitsHeld
    <3>4. DigitsRun' = Loss + 1
      BY <3>1 DEF DigitsRun
    <3>5. c = IF digits_state' = "SENDING" \/ (digits_state' = "ENDING" /\ digits_txc' = 0) THEN 2 * k - 1 ELSE 2 * k
      BY <3>1
    <3> HIDE DEF c
    <3>6. Loss + 1 \in Nat /\ (IF c = B[S] THEN DigitsRun \in Nat /\ Loss + 1 <= DigitsRun + 1 ELSE Loss + 1 <= 1)
      BY <1>4, <2>1, <3>1
    <3>7. digits_state' \in {"IDLE", "SENDING", "ENDING"} /\ digits_txc' \in Nat /\ k >= 1 /\ digits_event' = digits_pressed[k] /\ c = B[S]
      BY <2>1, <3>1
    <3> QED BY <1>2, <1>3, <2>2, <2>4, <3>2, <3>3, <3>4, <3>5, <3>6, <3>7, DigitsPolls
  <2> QED BY <2>5, <2>6
<1>8. CASE /\ digits_state = "ENDING"
           /\ digits_net' = Append(digits_net, Digits!Packet(digits_event, TRUE))
           /\ digits_txc' = digits_txc + 1
           /\ digits_state' = IF digits_txc + 1 < EndTx THEN "ENDING" ELSE "IDLE"
           /\ UNCHANGED <<digits_mb, digits_event>>
  <2> DEFINE c == 2 * k
  <2>1. /\ k >= 1 /\ digits_event = digits_pressed[k] /\ digits_txc \in Nat /\ digits_event' = digits_event /\ digits_mb' = digits_mb /\ digits_txc' = digits_txc + 1
        /\ digits_state' \in {"IDLE", "ENDING"} /\ (digits_state' = "IDLE" => EndTx <= digits_txc + 1)
    BY <1>4, <1>8 DEF DigitsSender
  <2>2. c \in Nat /\ c >= 1
    BY <2>1
  <2>3. k \in 1 .. Len(digits_pressed)
    BY <1>5, <2>1
  <2>4. digits_net' = Append(digits_net, DigitsBurst(digits_pressed, c)) /\ DigitsBurst(digits_pressed, c) \in DigitsPacket
    BY <1>5, <1>8, <2>1, <2>3, DigitsBurstIs
  <2>5. DigitsHeld'
    BY <1>3, <1>4, <1>8, <2>1 DEF DigitsHeld
  <2>6. f \in [0 .. Len(digits_mb') -> Nat] /\ DigitsQueue(digits_mb', digits_pressed, k, f)
    BY <1>2, <1>4, <2>1
  <2>7. PICK run : run = DigitsRun'
    OBVIOUS
  <2>8. run \in Nat /\ run <= digits_txc + 1
    BY <1>4, <2>1, <2>7 DEF DigitsRun
  <2>9. c = IF digits_state' = "SENDING" \/ (digits_state' = "ENDING" /\ digits_txc' = 0) THEN 2 * k - 1 ELSE 2 * k
    BY <2>1
  <2>10. IF digits_txc = 0 THEN c = B[S] + 1 /\ c # B[S] /\ DigitsRun = Loss + 1
                    ELSE c = B[S] /\ DigitsRun = digits_txc
    BY <1>4, <1>8, <2>1 DEF DigitsSender, DigitsRun
  <2> HIDE DEF c
  <2>11. IF c = B[S] THEN DigitsRun \in Nat /\ run <= DigitsRun + 1 ELSE run <= 1
    BY <2>1, <2>8, <2>10
  <2>12. digits_state' \in {"IDLE", "SENDING", "ENDING"} /\ digits_txc' \in Nat /\ digits_event' = digits_pressed[k]
    BY <2>1
  <2>13. c = B[S] \/ (c = B[S] + 1 /\ DigitsRun = Loss + 1)
    BY <2>10
  <2> QED BY <1>2, <1>3, <2>1, <2>2, <2>4, <2>5, <2>6, <2>7, <2>8, <2>9, <2>11, <2>12, <2>13, DigitsPolls
<1> QED BY <1>6, <1>7, <1>8 DEF Digits!Poll

(* Nothing but the copies and late packets changed *)
LEMMA DigitsFrame ==
  ASSUME DigitsOrder, UNCHANGED <<digits_mb, digits_state, digits_event, digits_txc, digits_pressed, digits_held, digits_net, digits_lost>>,
         UNCHANGED <<digits_rxEvent, digits_rxEnd, digits_told>>
  PROVE  DigitsOrder'
<1>1. PICK S \in Nat, k \in Nat : \E B \in [0 .. S -> Nat], f \in [0 .. Len(digits_mb) -> Nat] : DigitsGood(S, B, k, f)
  BY DEF DigitsOrder
<1>2. PICK B \in [0 .. S -> Nat], f \in [0 .. Len(digits_mb) -> Nat] : DigitsGood(S, B, k, f)
  BY <1>1
<1>3. DigitsSender(S, B, k)' /\ DigitsHeld' /\ DigitsNet(S, B)' /\ DigitsTold(S, B)'
  BY <1>2 DEF DigitsGood, DigitsSender, DigitsRun, DigitsHeld, DigitsNet, DigitsTold
<1>4. DigitsQueue(digits_mb, digits_pressed, k, f)' /\ DigitsBursts(S, B)'
  BY <1>2 DEF DigitsGood, DigitsBursts, DigitsQueue
<1>5. DigitsGood(S, B, k, f)' /\ digits_mb' = digits_mb
  BY <1>3, <1>4 DEF DigitsGood
<1> QED BY <1>2, <1>5, DigitsIntro

(* The packet told last is told no more *)
LEMMA DigitsEcho ==
  ASSUME DigitsHears, NEW p, digits_told # <<>>, digits_told[Len(digits_told)] = p, Digits!Hear(p)
  PROVE  UNCHANGED <<digits_rxEvent, digits_rxEnd, digits_told>>
<1>1. IF p.end THEN digits_rxEnd ELSE p.event = digits_rxEvent
  BY DEF DigitsHears, DigitsLast
<1> QED BY <1>1 DEF Digits!Hear, Digits!heard

(* What is heard and how it is remembered *)
LEMMA DigitsHear ==
  ASSUME DigitsHears, NEW p \in DigitsAny, Digits!Hear(p)
  PROVE  digits_told' \in Seq(DigitsAny) /\ DigitsLast(digits_told', digits_rxEnd', digits_rxEvent')
<1>0. /\ digits_told \in Seq(DigitsAny) /\ DigitsLast(digits_told, digits_rxEnd, digits_rxEvent)
      /\ p.end \in BOOLEAN
  BY DEF DigitsHears, DigitsTypes, DigitsAny
<1>1. CASE UNCHANGED Digits!heard
  <2>1. digits_told' = digits_told /\ digits_rxEnd' = digits_rxEnd /\ digits_rxEvent' = digits_rxEvent
    BY <1>1 DEF Digits!heard
  <2> QED BY <1>0, <2>1
<1>2. CASE ~(IF p.end THEN digits_rxEnd ELSE p.event = digits_rxEvent)
  <2> DEFINE n == Len(digits_told)
             q == digits_told[n]
  <2>1. /\ digits_rxEvent' = (IF p.end THEN Digits!NONE ELSE p.event) /\ digits_rxEnd' = p.end
        /\ digits_told' = Append(digits_told, p)
    BY <1>2 DEF Digits!Hear
  <2>2. /\ digits_told' \in Seq(DigitsAny) /\ n \in Nat /\ Len(digits_told') = n + 1 /\ digits_told'[n + 1] = p
        /\ \A i \in 1 .. n : digits_told'[i] = digits_told[i]
    BY <1>0, <2>1
  <2>3. digits_told' # <<>>
    BY <2>2, EmptySeq
  <2>4. n # 0 => digits_told # <<>>
    BY <1>0, EmptySeq
  <2>5. n # 0 => p # q /\ (p.end => ~q.end)
    <3>1. SUFFICES ASSUME n # 0 PROVE p # q /\ (p.end => ~q.end)
      OBVIOUS
    <3>2. /\ digits_rxEnd <=> q.end
          /\ digits_rxEvent = IF q.end THEN Digits!NONE ELSE q.event
      BY <1>0, <2>4, <3>1 DEF DigitsLast
    <3> HIDE DEF q
    <3> QED BY <1>2, <3>2
  <2> HIDE DEF n, q
  <2>6. \A i \in 2 .. n : digits_told[i] # digits_told[i - 1] /\ (digits_told[i].end => ~digits_told[i - 1].end)
    BY <1>0 DEF DigitsLast, n
  <2>7. \A i \in 2 .. n + 1 : digits_told'[i] # digits_told'[i - 1] /\ (digits_told'[i].end => ~digits_told'[i - 1].end)
    <3> TAKE i \in 2 .. n + 1
    <3>1. CASE i = n + 1
      <4>1. digits_told'[i] = p /\ digits_told'[i - 1] = digits_told[n] /\ n # 0
        BY <2>2, <3>1
      <4> QED BY <2>5, <4>1 DEF q
    <3>2. CASE i \in 2 .. n
      <4>1. digits_told'[i] = digits_told[i] /\ digits_told'[i - 1] = digits_told[i - 1]
        BY <2>2, <3>2
      <4> QED BY <2>6, <3>2, <4>1
    <3> QED BY <2>2, <3>1, <3>2
  <2>8. DigitsLast(digits_told', digits_rxEnd', digits_rxEvent')
    BY <1>0, <2>1, <2>2, <2>3, <2>7 DEF DigitsLast
  <2> QED BY <2>2, <2>8
<1> QED BY <1>1, <1>2 DEF Digits!Hear

(* Every step keeps what the receiver remembers. *)
LEMMA DigitsHearsStep == ASSUME DigitsHears, [Digits!Next]_digits PROVE DigitsHears'
<1> USE DEF DigitsHears
<1>0. DigitsTypes /\ DigitsLast(digits_told, digits_rxEnd, digits_rxEvent)
  OBVIOUS
<1>h. ASSUME NEW p \in DigitsAny, Digits!Hear(p), UNCHANGED <<digits_mb, digits_event>>,
             digits_net' \in Seq(DigitsAny), digits_stray' \subseteq DigitsAny
      PROVE  DigitsHears'
  BY <1>0, <1>h, DigitsHear DEF DigitsTypes
<1>n. ASSUME digits_net # <<>>
      PROVE  Tail(digits_net) \in Seq(DigitsAny) /\ Head(digits_net) \in DigitsAny
  BY <1>0, <1>n, EmptySeq DEF DigitsTypes
<1>1. ASSUME NEW d \in Digit, Digits!Press(d) PROVE DigitsHears'
  <2>1. digits_mb' = Append(digits_mb, d) /\ UNCHANGED <<digits_event, digits_net, digits_stray, digits_rxEvent, digits_rxEnd, digits_told>>
    BY <1>1 DEF Digits!Press, Digits!heard, Digits!astray
  <2>2. digits_mb' \in Seq(Digit \cup {Digits!EVENT_END})
    BY <1>0, <2>1 DEF DigitsTypes
  <2> QED BY <1>0, <2>1, <2>2 DEF DigitsTypes
<1>2. CASE Digits!Release
  <2>1. digits_mb' = Append(digits_mb, Digits!EVENT_END) /\ UNCHANGED <<digits_event, digits_net, digits_stray, digits_rxEvent, digits_rxEnd, digits_told>>
    BY <1>2 DEF Digits!Release, Digits!heard, Digits!astray
  <2>2. digits_mb' \in Seq(Digit \cup {Digits!EVENT_END})
    BY <1>0, <2>1 DEF DigitsTypes
  <2> QED BY <1>0, <2>1, <2>2 DEF DigitsTypes
<1>3. CASE Digits!Poll
  <2>1. UNCHANGED <<digits_stray, digits_rxEvent, digits_rxEnd, digits_told>>
    BY <1>3 DEF Digits!Poll, Digits!heard, Digits!astray
  <2>2. digits_mb # <<>> => Head(digits_mb) \in DigitsCode /\ Tail(digits_mb) \in Seq(Digit \cup {Digits!EVENT_END})
    BY <1>0, EmptySeq DEF DigitsTypes, DigitsCode
  <2>3. /\ digits_mb' = digits_mb \/ (digits_mb # <<>> /\ digits_mb' = Tail(digits_mb))
        /\ digits_event' = digits_event \/ (digits_mb # <<>> /\ digits_event' = Head(digits_mb))
    BY <1>3 DEF Digits!Poll
  <2>4. digits_mb' \in Seq(Digit \cup {Digits!EVENT_END}) /\ digits_event' \in DigitsCode
    BY <1>0, <2>2, <2>3 DEF DigitsTypes
  <2>5. \/ digits_net' = Append(digits_net, Digits!Packet(digits_event', FALSE))
        \/ digits_net' = Append(digits_net, Digits!Packet(digits_event', TRUE))
    BY <1>3 DEF Digits!Poll
  <2>6. digits_net' \in Seq(DigitsAny)
    <3>1. ASSUME NEW x \in DigitsCode, NEW y \in BOOLEAN PROVE Digits!Packet(x, y) \in DigitsAny
      BY DEF Digits!Packet, DigitsAny
    <3>2. Digits!Packet(digits_event', FALSE) \in DigitsAny /\ Digits!Packet(digits_event', TRUE) \in DigitsAny
      BY <2>4, <3>1
    <3>3. digits_net \in Seq(DigitsAny)
      BY <1>0 DEF DigitsTypes
    <3>4. ASSUME NEW q \in DigitsAny PROVE Append(digits_net, q) \in Seq(DigitsAny)
      BY <3>3
    <3> QED BY <2>5, <3>2, <3>4
  <2> QED BY <1>0, <2>1, <2>4, <2>6 DEF DigitsTypes
<1>4. CASE Digits!Recv
  BY <1>0, <1>4, <1>h, <1>n DEF Digits!Recv, Digits!sent, Digits!astray, DigitsTypes
<1>s. ASSUME digits_net # <<>>, Digits!Strays(Head(digits_net)) PROVE digits_stray' \subseteq DigitsAny
  BY <1>0, <1>n, <1>s DEF Digits!Strays, DigitsTypes
<1>5. CASE Digits!Lose
  <2>1. digits_net' = Tail(digits_net) /\ digits_net # <<>> /\ UNCHANGED <<digits_mb, digits_event, digits_rxEvent, digits_rxEnd, digits_told>>
    BY <1>5 DEF Digits!Lose, Digits!sent, Digits!heard
  <2>2. UNCHANGED Digits!astray \/ Digits!Strays(Head(digits_net))
    BY <1>5 DEF Digits!Lose
  <2>3. digits_stray' \subseteq DigitsAny
    BY <1>0, <1>s, <2>1, <2>2 DEF Digits!astray, DigitsTypes
  <2> QED BY <1>0, <1>n, <2>1, <2>3 DEF DigitsTypes
<1>6. CASE Digits!Double
  <2>1. UNCHANGED <<digits_mb, digits_event, digits_net, digits_rxEvent, digits_rxEnd, digits_told>> /\ digits_stray' \subseteq DigitsAny
    BY <1>6, <1>s DEF Digits!Double, Digits!sent, Digits!heard
  <2> QED BY <1>0, <2>1 DEF DigitsTypes
<1>7. CASE Digits!RecvStray
  <2>1. PICK p \in digits_stray : Digits!Hear(p) /\ digits_stray' = digits_stray \ {p} /\ UNCHANGED <<Digits!sent, digits_net, digits_lost, digits_strays>>
    BY <1>7 DEF Digits!RecvStray
  <2> QED BY <1>0, <1>h, <2>1 DEF Digits!sent, DigitsTypes
<1>8. CASE UNCHANGED digits
  BY <1>0, <1>8 DEF digits, Digits!sent, Digits!heard, Digits!astray, DigitsTypes
<1> QED BY <1>1, <1>2, <1>3, <1>4, <1>5, <1>6, <1>7, <1>8 DEF Digits!Next

(* The two ends of the telephone events begin in the invariant. *)
LEMMA DigitsInit == Digits!Init => DigitsInv
<1> SUFFICES ASSUME Digits!Init PROVE DigitsInv
  OBVIOUS
<1>1. DigitsTypes
  BY DEF Digits!Init, DigitsTypes, DigitsCode
<1>2. DigitsLast(digits_told, digits_rxEnd, digits_rxEvent)
  BY DEF Digits!Init, DigitsLast
<1> QED BY <1>1, <1>2, DigitsOrderInit DEF DigitsInv, DigitsHears

(* Every step of the two ends keeps the invariant. *)
LEMMA DigitsStep == ASSUME DigitsInv, [Digits!Next]_digits PROVE DigitsInv'
<1>1. DigitsHears /\ DigitsHears'
  BY DigitsHearsStep DEF DigitsInv
<1>2. SUFFICES ASSUME ~digits_strayed' PROVE DigitsOrder'
  BY <1>1 DEF DigitsInv
<1>3. ASSUME digits_strayed' = digits_strayed PROVE DigitsOrder
  BY <1>2, <1>3 DEF DigitsInv
<1>4. CASE \E d \in Digit : Digits!Press(d)
  BY <1>3, <1>4, DigitsPress DEF Digits!Press, Digits!astray
<1>5. CASE Digits!Release
  BY <1>3, <1>5, DigitsRelease DEF Digits!Release, Digits!astray
<1>6. CASE Digits!Poll
  <2>1. digits_strayed' = digits_strayed
    BY <1>6 DEF Digits!Poll, Digits!astray
  <2> QED BY <1>3, <1>6, <2>1, DigitsPoll
<1>7. CASE Digits!Recv
  BY <1>3, <1>7, DigitsRecv DEF Digits!Recv, Digits!astray
<1>8. CASE Digits!Lose
  <2>1. digits_strayed' = digits_strayed
    BY <1>8 DEF Digits!Lose, Digits!Strays, Digits!astray
  <2> QED BY <1>3, <1>8, <2>1, DigitsLose
<1>9. CASE Digits!Double
  BY <1>3, <1>9, DigitsFrame DEF Digits!Double, Digits!Strays, Digits!sent, Digits!heard
<1>10. CASE Digits!RecvStray
  <2>1. PICK p \in digits_stray : /\ Digits!Hear(p) /\ UNCHANGED <<Digits!sent, digits_net, digits_lost, digits_strays>>
                                  /\ digits_strayed' = (digits_strayed \/ digits_told = <<>> \/ digits_told[Len(digits_told)] # p)
    BY <1>10 DEF Digits!RecvStray
  <2>2. ~digits_strayed /\ digits_told # <<>> /\ digits_told[Len(digits_told)] = p
    BY <1>2, <2>1
  <2>3. UNCHANGED <<digits_rxEvent, digits_rxEnd, digits_told>>
    BY <1>1, <2>1, <2>2, DigitsEcho
  <2>4. DigitsOrder
    BY <2>2 DEF DigitsInv
  <2> QED BY <2>1, <2>3, <2>4, DigitsFrame DEF Digits!sent
<1>11. CASE UNCHANGED digits
  BY <1>3, <1>11, DigitsFrame DEF digits, Digits!sent, Digits!heard, Digits!astray
<1> QED BY <1>4, <1>5, <1>6, <1>7, <1>8, <1>9, <1>10, <1>11 DEF Digits!Next

(* The invariant holds the property of the telephone events. *)
LEMMA DigitsProperties == ASSUME DigitsInv PROVE Digits!DigitsOnce
<1>0. \A i \in 2 .. Len(digits_told) : digits_told[i] # digits_told[i - 1] /\ (digits_told[i].end => ~digits_told[i - 1].end)
  BY DEF DigitsInv, DigitsHears, DigitsLast
<1>1. CASE digits_strayed
  BY <1>0, <1>1 DEF Digits!DigitsOnce
<1>2. CASE ~digits_strayed
  <2>1. PICK S \in Nat, k \in Nat : \E B \in [0 .. S -> Nat], f \in [0 .. Len(digits_mb) -> Nat] : DigitsGood(S, B, k, f)
    BY <1>2 DEF DigitsInv, DigitsOrder
  <2>2. PICK B \in [0 .. S -> Nat], f \in [0 .. Len(digits_mb) -> Nat] : DigitsGood(S, B, k, f)
    BY <2>1
  <2>3. Len(digits_told) <= 2 * Len(digits_pressed)
    BY <2>2, DigitsBound
  <2>4. digits_told \in Seq(DigitsPacket) /\ \A i \in 1 .. Len(digits_told) : digits_told[i] = DigitsBurst(digits_pressed, i)
    BY <2>2 DEF DigitsGood, DigitsTold
  <2>5. DOMAIN digits_told = 1 .. Len(digits_told)
    BY <2>4
  <2>6. \A i \in DOMAIN digits_told : digits_told[i] = Digits!Packet(digits_pressed[(i + 1) \div 2], i % 2 = 0)
    BY <2>4, <2>5 DEF DigitsBurst
  <2> QED BY <1>0, <2>3, <2>6 DEF Digits!DigitsOnce
<1> QED BY <1>1, <1>2

-------------------------------------------------------------------------------
(* SipDialog: dialogs of a forked request. *)

DialogFields == {"ltag", "rtag", "lseq", "rseq", "mb", "uri", "contact", "route", "rr", "half"}

(* A dialog counts in naturals and its route is its first route, in its
   headers, or its contact, in its uri. *)
DialogSound(d) ==
    /\ DOMAIN d = DialogFields
    /\ d.lseq \in Nat /\ d.rseq \in Nat
    /\ d.mb # d.uri
    /\ d.route.buf = IF d.rr = Dialog!NIL THEN d.uri ELSE d.mb
    /\ d.route.to = IF d.rr = Dialog!NIL THEN d.contact ELSE d.rr

(* places for dialogs, and the buffers of the one in a place *)
DialogSlot == ({"uac"} \X Dialog!Legs) \cup ({"uas"} \X Branch)
DialogAt(p) == IF p[1] = "uac" THEN dialog_uac[p[2]] ELSE dialog_uas[p[2]]
DialogHas(p) == IF DialogAt(p) = Dialog!None THEN {} ELSE Dialog!Own(DialogAt(p))

DialogHeap ==
    /\ dialog_bufs \in Nat
    /\ \A p \in DialogSlot : \A x \in DialogHas(p) : x \in Nat /\ x < dialog_bufs
    /\ \A p, q \in DialogSlot : p # q => DialogHas(p) \cap DialogHas(q) = {}
    /\ dialog_heap = UNION {DialogHas(p) : p \in DialogSlot}

DialogNet ==
    \A m \in dialog_net : m.kind = "request" =>
        m.cseq \in Nat /\ (m.from # Dialog!CALLER => m.ltag = m.from)

DialogTypes ==
    /\ DOMAIN dialog_uac = Dialog!Legs /\ DOMAIN dialog_uas = Branch
    /\ \A l \in Dialog!Legs : dialog_uac[l] # Dialog!None => DialogSound(dialog_uac[l])
    /\ \A b \in Branch : dialog_uas[b] # Dialog!None => DialogSound(dialog_uas[b]) /\ dialog_uas[b].ltag = b

DialogInv == DialogTypes /\ DialogHeap /\ DialogNet

(* The two sides of a call begin in the invariant. *)
LEMMA DialogInit == Dialog!Init => DialogInv
<1> SUFFICES ASSUME Dialog!Init PROVE DialogInv
  OBVIOUS
<1>1. DialogTypes /\ DialogNet
  BY DEF Dialog!Init, DialogTypes, DialogNet
<1>2. \A p \in DialogSlot : DialogHas(p) = {}
  BY DEF Dialog!Init, DialogSlot, DialogHas, DialogAt
<1>3. DialogHeap
  BY <1>2 DEF Dialog!Init, DialogHeap
<1> QED BY <1>1, <1>3 DEF DialogInv

(* A dialog is not the absence of one. *)
LEMMA DialogNone == \A d : DOMAIN d = DialogFields => d # Dialog!None
<1>1. DOMAIN Dialog!None = {"ltag"}
  BY DEF Dialog!None
<1>2. "rtag" \in DialogFields
  BY DEF DialogFields
<1> QED BY <1>1, <1>2

(* A dialog that was just made owns its two buffers and routes into one of
   them. *)
LEMMA DialogMade ==
  ASSUME NEW d, NEW b \in Nat, DOMAIN d = DialogFields, d.lseq \in Nat, d.rseq \in Nat,
         d.mb = b, d.uri = b + 1,
         d.route = IF d.rr = Dialog!NIL THEN [buf |-> b + 1, to |-> d.contact]
                                 ELSE [buf |-> b, to |-> d.rr]
  PROVE  DialogSound(d) /\ Dialog!Own(d) = {b, b + 1} /\ d # Dialog!None
<1>1. DialogSound(d)
  BY DEF DialogSound
<1>2. Dialog!Own(d) = {b, b + 1}
  BY DEF Dialog!Own
<1>3. d # Dialog!None
  BY DialogNone
<1> QED BY <1>1, <1>2, <1>3

(* One place changes: its old buffers are freed, what it has now is new or
   was its own. *)
LEMMA DialogMoves ==
  ASSUME DialogHeap, NEW p \in DialogSlot, dialog_bufs' \in Nat, dialog_bufs' >= dialog_bufs,
         \A q \in DialogSlot : q # p => DialogHas(q)' = DialogHas(q),
         \A x \in DialogHas(p)' : x \in DialogHas(p) \/ (x \in Nat /\ x >= dialog_bufs /\ x < dialog_bufs'),
         dialog_heap' = (dialog_heap \ DialogHas(p)) \cup DialogHas(p)'
  PROVE  DialogHeap'
<1>1. dialog_bufs \in Nat
  BY DEF DialogHeap
<1>2. \A q \in DialogSlot : \A x \in DialogHas(q)' : x \in Nat /\ x < dialog_bufs'
  <2> TAKE q \in DialogSlot
  <2> TAKE x \in DialogHas(q)'
  <2>1. x \in DialogHas(q) \/ (x \in Nat /\ x < dialog_bufs')
    OBVIOUS
  <2>2. x \in DialogHas(q) => x \in Nat /\ x < dialog_bufs
    BY DEF DialogHeap
  <2> QED BY <1>1, <2>1, <2>2
<1>3. \A q, r \in DialogSlot : q # r => DialogHas(q)' \cap DialogHas(r)' = {}
  <2>1. \A q \in DialogSlot : q # p => DialogHas(q)' \cap DialogHas(p)' = {}
    <3> SUFFICES ASSUME NEW q \in DialogSlot, q # p, NEW x, x \in DialogHas(q), x \in DialogHas(p)'
                 PROVE  FALSE
      OBVIOUS
    <3>1. x \in Nat /\ x < dialog_bufs /\ x \notin DialogHas(p)
      BY DEF DialogHeap
    <3> QED BY <1>1, <3>1
  <2>2. \A q, r \in DialogSlot : q # p /\ r # p /\ q # r => DialogHas(q)' \cap DialogHas(r)' = {}
    BY DEF DialogHeap
  <2> QED BY <2>1, <2>2
<1>4. dialog_heap' = UNION {DialogHas(q)' : q \in DialogSlot}
  <2>1. dialog_heap = UNION {DialogHas(q) : q \in DialogSlot}
    BY DEF DialogHeap
  <2>2. \A q \in DialogSlot : q # p => DialogHas(q) \cap DialogHas(p) = {}
    BY DEF DialogHeap
  <2>3. \A x : x \in dialog_heap' <=> \E q \in DialogSlot : x \in DialogHas(q)'
    <3> TAKE x
    <3>1. ASSUME x \in dialog_heap' PROVE \E q \in DialogSlot : x \in DialogHas(q)'
      BY <2>1, <3>1
    <3>2. ASSUME NEW q \in DialogSlot, x \in DialogHas(q)' PROVE x \in dialog_heap'
      BY <2>1, <2>2, <3>2
    <3> QED BY <3>1, <3>2
  <2> QED BY <2>3
<1> QED BY <1>2, <1>3, <1>4 DEF DialogHeap

(* the same for a caller's dialog and for a callee's *)
LEMMA DialogCaller ==
  ASSUME DialogInv, NEW l \in Dialog!Legs, NEW d, dialog_uac' = [dialog_uac EXCEPT ![l] = d], dialog_uas' = dialog_uas,
         dialog_bufs' \in Nat, dialog_bufs' >= dialog_bufs, NEW own,
         \/ d = Dialog!None /\ own = {}
         \/ d # Dialog!None /\ own = Dialog!Own(d) /\ DialogSound(d),
         own \subseteq DialogHas(<<"uac", l>>) \cup (dialog_bufs .. dialog_bufs' - 1),
         dialog_heap' = (dialog_heap \ DialogHas(<<"uac", l>>)) \cup own
  PROVE  DialogTypes' /\ DialogHeap'
<1> DEFINE p == <<"uac", l>>
<1>1. DOMAIN dialog_uac = Dialog!Legs /\ dialog_uac'[l] = d /\ \A k \in Dialog!Legs : k # l => dialog_uac'[k] = dialog_uac[k]
  BY DEF DialogInv, DialogTypes
<1>2. DialogTypes'
  BY <1>1 DEF DialogInv, DialogTypes
<1>3. p \in DialogSlot
  BY DEF DialogSlot
<1>4. DialogHas(p)' = own
  BY <1>1 DEF DialogHas, DialogAt, Dialog!None, Dialog!Own
<1>5. \A q \in DialogSlot : q # p => DialogHas(q)' = DialogHas(q)
  <2> SUFFICES ASSUME NEW q \in DialogSlot, q # p PROVE DialogHas(q)' = DialogHas(q)
    OBVIOUS
  <2>1. \/ q[1] = "uac" /\ q[2] \in Dialog!Legs /\ q[2] # l
        \/ q[1] = "uas" /\ q[2] \in Branch
    BY DEF DialogSlot
  <2>2. DialogAt(q)' = DialogAt(q)
    BY <1>1, <2>1 DEF DialogAt
  <2> QED BY <2>2 DEF DialogHas, Dialog!None, Dialog!Own
<1> HIDE DEF p
<1>6. DialogHeap
  BY DEF DialogInv
<1>7. \A x \in own : x \in DialogHas(p) \/ (x \in Nat /\ x >= dialog_bufs /\ x < dialog_bufs')
  BY <1>6 DEF DialogHeap, p
<1>8. dialog_heap' = (dialog_heap \ DialogHas(p)) \cup own
  BY DEF p
<1>9. DialogHeap'
  BY <1>3, <1>4, <1>5, <1>6, <1>7, <1>8, DialogMoves
<1> QED BY <1>2, <1>9

(* One dialog of the callees changes. *)
LEMMA DialogCallee ==
  ASSUME DialogInv, NEW b \in Branch, NEW d, dialog_uas' = [dialog_uas EXCEPT ![b] = d], dialog_uac' = dialog_uac,
         dialog_bufs' \in Nat, dialog_bufs' >= dialog_bufs, NEW own,
         \/ d = Dialog!None /\ own = {}
         \/ d # Dialog!None /\ own = Dialog!Own(d) /\ DialogSound(d) /\ d.ltag = b,
         own \subseteq DialogHas(<<"uas", b>>) \cup (dialog_bufs .. dialog_bufs' - 1),
         dialog_heap' = (dialog_heap \ DialogHas(<<"uas", b>>)) \cup own
  PROVE  DialogTypes' /\ DialogHeap'
<1> DEFINE p == <<"uas", b>>
<1>1. DOMAIN dialog_uas = Branch /\ dialog_uas'[b] = d /\ \A k \in Branch : k # b => dialog_uas'[k] = dialog_uas[k]
  BY DEF DialogInv, DialogTypes
<1>2. DialogTypes'
  BY <1>1 DEF DialogInv, DialogTypes
<1>3. p \in DialogSlot
  BY DEF DialogSlot
<1>4. DialogHas(p)' = own
  BY <1>1 DEF DialogHas, DialogAt, Dialog!None, Dialog!Own
<1>5. \A q \in DialogSlot : q # p => DialogHas(q)' = DialogHas(q)
  <2> SUFFICES ASSUME NEW q \in DialogSlot, q # p PROVE DialogHas(q)' = DialogHas(q)
    OBVIOUS
  <2>1. \/ q[1] = "uac" /\ q[2] \in Dialog!Legs
        \/ q[1] = "uas" /\ q[2] \in Branch /\ q[2] # b
    BY DEF DialogSlot
  <2>2. DialogAt(q)' = DialogAt(q)
    BY <1>1, <2>1 DEF DialogAt
  <2> QED BY <2>2 DEF DialogHas, Dialog!None, Dialog!Own
<1> HIDE DEF p
<1>6. DialogHeap
  BY DEF DialogInv
<1>7. \A x \in own : x \in DialogHas(p) \/ (x \in Nat /\ x >= dialog_bufs /\ x < dialog_bufs')
  BY <1>6 DEF DialogHeap, p
<1>8. dialog_heap' = (dialog_heap \ DialogHas(p)) \cup own
  BY DEF p
<1>9. DialogHeap'
  BY <1>3, <1>4, <1>5, <1>6, <1>7, <1>8, DialogMoves
<1> QED BY <1>2, <1>9

(* a request that arrives leaves a sound dialog, in its old buffers but for
   a new uri *)
LEMMA DialogReceives ==
  ASSUME NEW d, DialogSound(d), NEW m, m.cseq \in Nat, NEW target \in BOOLEAN, d.mb # dialog_bufs
  PROVE  LET e == Dialog!Receives(d, m, target)
         IN  /\ DialogSound(e) /\ e # Dialog!None
             /\ Dialog!Own(e) = IF target THEN {d.mb, dialog_bufs} ELSE Dialog!Own(d)
             /\ e.ltag = d.ltag /\ e.lseq = d.lseq /\ e.rseq = m.cseq /\ e.half = d.half
<1> DEFINE e == Dialog!Receives(d, m, target)
           f == [d EXCEPT !.rseq = m.cseq]
           k == IF f.route.buf = f.uri THEN [buf |-> dialog_bufs, to |-> m.contact] ELSE f.route
<1>1. /\ DOMAIN f = DialogFields /\ f.rseq = m.cseq
      /\ f.ltag = d.ltag /\ f.lseq = d.lseq /\ f.half = d.half /\ f.mb = d.mb /\ f.uri = d.uri
      /\ f.contact = d.contact /\ f.route = d.route /\ f.rr = d.rr
  BY DEF DialogSound, DialogFields
<1>2. CASE ~target
  <2>1. e = f
    BY <1>2 DEF Dialog!Receives
  <2> HIDE DEF e, f
  <2>2. DialogSound(e) /\ Dialog!Own(e) = Dialog!Own(d)
    BY <1>1, <2>1 DEF DialogSound, Dialog!Own
  <2>3. e # Dialog!None
    BY <2>2, DialogNone DEF DialogSound
  <2> QED BY <1>1, <1>2, <2>1, <2>2, <2>3 DEF e
<1>3. CASE target
  <2>1. e = [f EXCEPT !.uri = dialog_bufs, !.contact = m.contact, !.route = k]
    BY <1>3 DEF Dialog!Receives, Dialog!Update
  <2> HIDE DEF e, f
  <2>2. /\ DOMAIN e = DialogFields /\ e.rseq = m.cseq
        /\ e.ltag = d.ltag /\ e.lseq = d.lseq /\ e.half = d.half /\ e.mb = d.mb /\ e.uri = dialog_bufs
        /\ e.contact = m.contact /\ e.route = k /\ e.rr = d.rr
    BY <1>1, <2>1 DEF DialogFields
  <2>3. k = IF d.rr = Dialog!NIL THEN [buf |-> dialog_bufs, to |-> m.contact] ELSE d.route
    BY <1>1 DEF DialogSound
  <2> HIDE DEF k
  <2>4. DialogSound(e)
    BY <2>2, <2>3 DEF DialogSound
  <2>5. Dialog!Own(e) = {d.mb, dialog_bufs}
    BY <2>2 DEF Dialog!Own
  <2>6. e # Dialog!None
    BY <2>2, DialogNone
  <2> QED BY <1>3, <2>2, <2>4, <2>5, <2>6 DEF e
<1> QED BY <1>2, <1>3

DialogRises ==
    /\ \A l \in Dialog!Legs : dialog_uac[l] # Dialog!None /\ dialog_uac'[l] # Dialog!None =>
          dialog_uac'[l].lseq >= dialog_uac[l].lseq
          /\ (dialog_uac'[l].half = dialog_uac[l].half => dialog_uac'[l].rseq >= dialog_uac[l].rseq)
    /\ \A b \in Branch : dialog_uas[b] # Dialog!None /\ dialog_uas'[b] # Dialog!None =>
          dialog_uas'[b].lseq >= dialog_uas[b].lseq /\ dialog_uas'[b].rseq >= dialog_uas[b].rseq

(* one place changes *)
LEMMA DialogCallerRises ==
  ASSUME DialogInv, NEW l \in Dialog!Legs, NEW d, dialog_uac' = [dialog_uac EXCEPT ![l] = d], dialog_uas' = dialog_uas,
         dialog_uac[l] # Dialog!None /\ d # Dialog!None =>
            d.lseq >= dialog_uac[l].lseq /\ (d.half = dialog_uac[l].half => d.rseq >= dialog_uac[l].rseq)
  PROVE  DialogRises
<1>1. DOMAIN dialog_uac = Dialog!Legs /\ dialog_uac'[l] = d /\ \A k \in Dialog!Legs : k # l => dialog_uac'[k] = dialog_uac[k]
  BY DEF DialogInv, DialogTypes
<1>2. \A k \in Dialog!Legs : dialog_uac[k] # Dialog!None => dialog_uac[k].lseq \in Nat /\ dialog_uac[k].rseq \in Nat
  BY DEF DialogInv, DialogTypes, DialogSound
<1>3. \A k \in Branch : dialog_uas[k] # Dialog!None => dialog_uas[k].lseq \in Nat /\ dialog_uas[k].rseq \in Nat
  BY DEF DialogInv, DialogTypes, DialogSound
<1> QED BY <1>1, <1>2, <1>3 DEF DialogRises

(* The numbers of one dialog of the callees rise. *)
LEMMA DialogCalleeRises ==
  ASSUME DialogInv, NEW b \in Branch, NEW d, dialog_uas' = [dialog_uas EXCEPT ![b] = d], dialog_uac' = dialog_uac,
         dialog_uas[b] # Dialog!None /\ d # Dialog!None => d.lseq >= dialog_uas[b].lseq /\ d.rseq >= dialog_uas[b].rseq
  PROVE  DialogRises
<1>1. DOMAIN dialog_uas = Branch /\ dialog_uas'[b] = d /\ \A k \in Branch : k # b => dialog_uas'[k] = dialog_uas[k]
  BY DEF DialogInv, DialogTypes
<1>2. \A k \in Dialog!Legs : dialog_uac[k] # Dialog!None => dialog_uac[k].lseq \in Nat /\ dialog_uac[k].rseq \in Nat
  BY DEF DialogInv, DialogTypes, DialogSound
<1>3. \A k \in Branch : dialog_uas[k] # Dialog!None => dialog_uas[k].lseq \in Nat /\ dialog_uas[k].rseq \in Nat
  BY DEF DialogInv, DialogTypes, DialogSound
<1> QED BY <1>1, <1>2, <1>3 DEF DialogRises

(* sipsess_connect(): the caller's half dialog. *)
LEMMA DialogInvite ==
  ASSUME DialogInv, NEW rr, Dialog!Invite(rr) PROVE DialogInv' /\ DialogRises
<1> DEFINE d == Dialog!Dialog(Dialog!CALLER, Dialog!NIL, 2, 0, rr, "registrar", dialog_bufs, TRUE)
<1>1. /\ dialog_uac["half"] = Dialog!None /\ dialog_bufs = 0 /\ dialog_bufs' = dialog_bufs + 2
      /\ dialog_heap' = (dialog_heap \ {}) \cup {dialog_bufs, dialog_bufs + 1} /\ dialog_uas' = dialog_uas
      /\ dialog_uac' = [dialog_uac EXCEPT !["half"] = d] /\ dialog_net' = {[kind |-> "invite", cseq |-> 1]}
  BY DEF Dialog!Invite, Dialog!Alloc
<1>2. /\ DOMAIN d = DialogFields /\ d.lseq = 2 /\ d.rseq = 0
      /\ d.mb = dialog_bufs /\ d.uri = dialog_bufs + 1
      /\ d.route = IF d.rr = Dialog!NIL THEN [buf |-> dialog_bufs + 1, to |-> d.contact]
                                  ELSE [buf |-> dialog_bufs, to |-> d.rr]
  BY DEF Dialog!Dialog, DialogFields
<1> HIDE DEF d
<1>9. DialogSound(d) /\ Dialog!Own(d) = {dialog_bufs, dialog_bufs + 1} /\ d # Dialog!None
  BY <1>1, <1>2, DialogMade
<1>3. "half" \in Dialog!Legs
  BY DEF Dialog!Legs
<1>4. DialogHas(<<"uac", "half">>) = {}
  BY <1>1 DEF DialogHas, DialogAt
<1>8. {dialog_bufs, dialog_bufs + 1} \subseteq dialog_bufs .. dialog_bufs' - 1 /\ dialog_bufs' \in Nat /\ dialog_bufs' >= dialog_bufs
  BY <1>1
<1>5. DialogTypes' /\ DialogHeap'
  BY <1>1, <1>3, <1>4, <1>8, <1>9, DialogCaller
<1>6. DialogRises
  BY <1>1, <1>3, DialogCallerRises
<1>7. DialogNet'
  BY <1>1 DEF DialogNet
<1> QED BY <1>5, <1>6, <1>7 DEF DialogInv

(* sip_dialog_accept(). *)
LEMMA DialogAccept ==
  ASSUME DialogInv, NEW b \in Branch, NEW rr, NEW c, Dialog!Accept(b, rr, c)
  PROVE  DialogInv' /\ DialogRises
<1> DEFINE d == Dialog!Dialog(b, Dialog!CALLER, 1, 1, rr, c, dialog_bufs, FALSE)
<1>0. dialog_bufs \in Nat
  BY DEF DialogInv, DialogHeap
<1>1. /\ dialog_uas[b] = Dialog!None /\ dialog_bufs' = dialog_bufs + 2
      /\ dialog_heap' = (dialog_heap \ {}) \cup {dialog_bufs, dialog_bufs + 1} /\ dialog_uac' = dialog_uac
      /\ dialog_uas' = [dialog_uas EXCEPT ![b] = d]
      /\ dialog_net' = dialog_net \cup {[kind |-> "answer", leg |-> b, rr |-> rr, contact |-> k] : k \in Contact}
  BY DEF Dialog!Accept, Dialog!Alloc
<1>2. /\ DOMAIN d = DialogFields /\ d.lseq = 1 /\ d.rseq = 1
      /\ d.mb = dialog_bufs /\ d.uri = dialog_bufs + 1 /\ d.ltag = b
      /\ d.route = IF d.rr = Dialog!NIL THEN [buf |-> dialog_bufs + 1, to |-> d.contact]
                                  ELSE [buf |-> dialog_bufs, to |-> d.rr]
  BY DEF Dialog!Dialog, DialogFields
<1> HIDE DEF d
<1>9. DialogSound(d) /\ Dialog!Own(d) = {dialog_bufs, dialog_bufs + 1} /\ d # Dialog!None
  BY <1>0, <1>2, DialogMade
<1>4. DialogHas(<<"uas", b>>) = {}
  BY <1>1 DEF DialogHas, DialogAt
<1>8. {dialog_bufs, dialog_bufs + 1} \subseteq dialog_bufs .. dialog_bufs' - 1 /\ dialog_bufs' \in Nat /\ dialog_bufs' >= dialog_bufs
  BY <1>0, <1>1
<1>3. d.ltag = b
  BY <1>2
<1>5. DialogTypes' /\ DialogHeap'
  BY <1>1, <1>3, <1>4, <1>8, <1>9, DialogCallee
<1>6. DialogRises
  BY <1>1, DialogCalleeRises
<1>7. DialogNet'
  BY <1>1 DEF DialogInv, DialogNet
<1> QED BY <1>5, <1>6, <1>7 DEF DialogInv

(* Nothing changes. *)
LEMMA DialogSame ==
  ASSUME DialogInv, UNCHANGED <<dialog_uac, dialog_uas, dialog_heap, dialog_bufs, dialog_net>> PROVE DialogInv' /\ DialogRises
<1>1. \A p \in DialogSlot : DialogHas(p)' = DialogHas(p)
  BY DEF DialogHas, DialogAt, Dialog!None, Dialog!Own
<1>2. DialogHeap'
  BY <1>1 DEF DialogInv, DialogHeap
<1>3. DialogTypes' /\ DialogNet'
  BY DEF DialogInv, DialogTypes, DialogNet
<1>4. DialogRises
  BY DEF DialogInv, DialogTypes, DialogRises, DialogSound
<1> QED BY <1>2, <1>3, <1>4 DEF DialogInv

(* sip_dialog_create() completes the half dialog, or fails. *)
LEMMA DialogCreate ==
  ASSUME DialogInv, NEW b \in Branch, NEW ok \in BOOLEAN, Dialog!Create(b, ok)
  PROVE  DialogInv' /\ DialogRises
<1> DEFINE old == dialog_uac["half"]
<1>0. dialog_bufs \in Nat /\ "half" \in Dialog!Legs
  BY DEF DialogInv, DialogHeap, Dialog!Legs
<1>1. PICK m \in dialog_net :
        /\ old # Dialog!None /\ old.half
        /\ IF ok
           THEN /\ Dialog!Alloc(Dialog!Own(old))
                /\ dialog_uac' = [dialog_uac EXCEPT !["half"] =
                              Dialog!Dialog(old.ltag, b, old.lseq, 0, m.rr, m.contact, dialog_bufs, FALSE)]
           ELSE UNCHANGED <<dialog_uac, dialog_heap, dialog_bufs>>
        /\ UNCHANGED <<dialog_uas, dialog_net>>
  BY DEF Dialog!Create
<1>2. CASE ~ok
  BY <1>1, <1>2, DialogSame
<1>3. CASE ok
  <2> DEFINE d == Dialog!Dialog(old.ltag, b, old.lseq, 0, m.rr, m.contact, dialog_bufs, FALSE)
  <2>1. /\ dialog_bufs' = dialog_bufs + 2 /\ dialog_heap' = (dialog_heap \ Dialog!Own(old)) \cup {dialog_bufs, dialog_bufs + 1}
        /\ dialog_uac' = [dialog_uac EXCEPT !["half"] = d] /\ dialog_uas' = dialog_uas /\ dialog_net' = dialog_net
    BY <1>1, <1>3 DEF Dialog!Alloc
  <2>2. old.lseq \in Nat
    BY <1>0, <1>1 DEF DialogInv, DialogTypes, DialogSound
  <2>3. /\ DOMAIN d = DialogFields /\ d.lseq = old.lseq /\ d.rseq = 0
        /\ d.mb = dialog_bufs /\ d.uri = dialog_bufs + 1 /\ ~d.half
        /\ d.route = IF d.rr = Dialog!NIL THEN [buf |-> dialog_bufs + 1, to |-> d.contact]
                                    ELSE [buf |-> dialog_bufs, to |-> d.rr]
    BY DEF Dialog!Dialog, DialogFields
  <2> HIDE DEF d
  <2>4. DialogSound(d) /\ Dialog!Own(d) = {dialog_bufs, dialog_bufs + 1} /\ d # Dialog!None
    BY <1>0, <2>2, <2>3, DialogMade
  <2>9. {dialog_bufs, dialog_bufs + 1} \subseteq dialog_bufs .. dialog_bufs' - 1 /\ dialog_bufs' \in Nat /\ dialog_bufs' >= dialog_bufs
    BY <1>0, <2>1
  <2>5. DialogHas(<<"uac", "half">>) = Dialog!Own(old)
    BY <1>1 DEF DialogHas, DialogAt
  <2>6. DialogTypes' /\ DialogHeap'
    BY <1>0, <2>1, <2>4, <2>5, <2>9, DialogCaller
  <2>7. DialogRises
    <3>1. d.lseq >= old.lseq
      BY <2>2, <2>3
    <3>2. d.half = old.half => d.rseq >= old.rseq
      BY <1>1, <2>3
    <3> QED BY <1>0, <2>1, <3>1, <3>2, DialogCallerRises
  <2>8. DialogNet'
    BY <2>1 DEF DialogInv, DialogNet
  <2> QED BY <2>6, <2>7, <2>8 DEF DialogInv
<1> QED BY <1>2, <1>3

(* sip_dialog_fork() copies the half dialog for another branch. *)
LEMMA DialogFork ==
  ASSUME DialogInv, NEW b \in Branch, Dialog!Fork(b)
  PROVE  DialogInv' /\ DialogRises
<1> DEFINE old == dialog_uac["half"]
<1>0. dialog_bufs \in Nat /\ "half" \in Dialog!Legs /\ b \in Dialog!Legs
  BY DEF DialogInv, DialogHeap, Dialog!Legs
<1>1. PICK m \in dialog_net :
        /\ old # Dialog!None /\ dialog_uac[b] = Dialog!None
        /\ Dialog!Alloc({})
        /\ dialog_uac' = [dialog_uac EXCEPT ![b] =
                      Dialog!Dialog(old.ltag, b, old.lseq, 0, m.rr, m.contact, dialog_bufs, FALSE)]
        /\ UNCHANGED <<dialog_uas, dialog_net>>
  BY DEF Dialog!Fork
<1> DEFINE d == Dialog!Dialog(old.ltag, b, old.lseq, 0, m.rr, m.contact, dialog_bufs, FALSE)
<1>2. /\ dialog_bufs' = dialog_bufs + 2 /\ dialog_heap' = (dialog_heap \ {}) \cup {dialog_bufs, dialog_bufs + 1}
      /\ dialog_uac' = [dialog_uac EXCEPT ![b] = d] /\ dialog_uas' = dialog_uas /\ dialog_net' = dialog_net
  BY <1>1 DEF Dialog!Alloc
<1>3. old.lseq \in Nat
  BY <1>0, <1>1 DEF DialogInv, DialogTypes, DialogSound
<1>4. /\ DOMAIN d = DialogFields /\ d.lseq = old.lseq /\ d.rseq = 0
      /\ d.mb = dialog_bufs /\ d.uri = dialog_bufs + 1
      /\ d.route = IF d.rr = Dialog!NIL THEN [buf |-> dialog_bufs + 1, to |-> d.contact]
                                  ELSE [buf |-> dialog_bufs, to |-> d.rr]
  BY DEF Dialog!Dialog, DialogFields
<1> HIDE DEF d
<1>5. DialogSound(d) /\ Dialog!Own(d) = {dialog_bufs, dialog_bufs + 1} /\ d # Dialog!None
  BY <1>0, <1>3, <1>4, DialogMade
<1>10. {dialog_bufs, dialog_bufs + 1} \subseteq dialog_bufs .. dialog_bufs' - 1 /\ dialog_bufs' \in Nat /\ dialog_bufs' >= dialog_bufs
  BY <1>0, <1>2
<1>6. DialogHas(<<"uac", b>>) = {}
  BY <1>1 DEF DialogHas, DialogAt
<1>7. DialogTypes' /\ DialogHeap'
  BY <1>0, <1>2, <1>5, <1>6, <1>10, DialogCaller
<1>8. DialogRises
  BY <1>0, <1>1, <1>2, DialogCallerRises
<1>9. DialogNet'
  BY <1>2 DEF DialogInv, DialogNet
<1> QED BY <1>7, <1>8, <1>9 DEF DialogInv

(* a dialog whose own number rises *)
LEMMA DialogNumber ==
  ASSUME NEW d, DialogSound(d)
  PROVE  LET e == [d EXCEPT !.lseq = @ + 1]
         IN  /\ DialogSound(e) /\ e # Dialog!None /\ Dialog!Own(e) = Dialog!Own(d)
             /\ e.ltag = d.ltag /\ e.lseq = d.lseq + 1 /\ e.rseq = d.rseq
<1> DEFINE e == [d EXCEPT !.lseq = @ + 1]
<1>1. /\ DOMAIN e = DialogFields /\ e.rseq = d.rseq
      /\ e.ltag = d.ltag /\ e.lseq = d.lseq + 1 /\ e.mb = d.mb /\ e.uri = d.uri
      /\ e.contact = d.contact /\ e.route = d.route /\ e.rr = d.rr
  BY DEF DialogSound, DialogFields
<1> HIDE DEF e
<1>2. DialogSound(e) /\ Dialog!Own(e) = Dialog!Own(d)
  BY <1>1 DEF DialogSound, Dialog!Own
<1>3. e # Dialog!None
  BY <1>1, DialogNone
<1> QED BY <1>1, <1>2, <1>3 DEF e

(* A dialog is sound and its buffers are allocated and its own. *)
LEMMA DialogOwned ==
  ASSUME DialogInv
  PROVE  /\ \A l \in Dialog!Legs : dialog_uac[l] # Dialog!None =>
               DialogSound(dialog_uac[l]) /\ DialogHas(<<"uac", l>>) = Dialog!Own(dialog_uac[l]) /\ Dialog!Own(dialog_uac[l]) \subseteq dialog_heap
               /\ \A x \in Dialog!Own(dialog_uac[l]) : x \in Nat /\ x < dialog_bufs
         /\ \A b \in Branch : dialog_uas[b] # Dialog!None =>
               DialogSound(dialog_uas[b]) /\ DialogHas(<<"uas", b>>) = Dialog!Own(dialog_uas[b]) /\ Dialog!Own(dialog_uas[b]) \subseteq dialog_heap
               /\ dialog_uas[b].ltag = b /\ \A x \in Dialog!Own(dialog_uas[b]) : x \in Nat /\ x < dialog_bufs
<1>1. \A l \in Dialog!Legs : <<"uac", l>> \in DialogSlot /\ DialogAt(<<"uac", l>>) = dialog_uac[l]
  BY DEF DialogSlot, DialogAt
<1>2. \A b \in Branch : <<"uas", b>> \in DialogSlot /\ DialogAt(<<"uas", b>>) = dialog_uas[b]
  BY DEF DialogSlot, DialogAt
<1>3. \A p \in DialogSlot : DialogHas(p) \subseteq dialog_heap
  BY DEF DialogInv, DialogHeap
<1>4. \A p \in DialogSlot : \A x \in DialogHas(p) : x \in Nat /\ x < dialog_bufs
  BY DEF DialogInv, DialogHeap
<1>5. \A l \in Dialog!Legs : dialog_uac[l] # Dialog!None => DialogHas(<<"uac", l>>) = Dialog!Own(dialog_uac[l]) /\ DialogSound(dialog_uac[l])
  BY <1>1 DEF DialogHas, DialogInv, DialogTypes
<1>6. \A b \in Branch : dialog_uas[b] # Dialog!None =>
        DialogHas(<<"uas", b>>) = Dialog!Own(dialog_uas[b]) /\ DialogSound(dialog_uas[b]) /\ dialog_uas[b].ltag = b
  BY <1>2 DEF DialogHas, DialogInv, DialogTypes
<1>7. \A l \in Dialog!Legs : dialog_uac[l] # Dialog!None => Dialog!Own(dialog_uac[l]) \subseteq dialog_heap /\ \A x \in Dialog!Own(dialog_uac[l]) : x \in Nat /\ x < dialog_bufs
  BY <1>1, <1>3, <1>4, <1>5
<1>8. \A b \in Branch : dialog_uas[b] # Dialog!None => Dialog!Own(dialog_uas[b]) \subseteq dialog_heap /\ \A x \in Dialog!Own(dialog_uas[b]) : x \in Nat /\ x < dialog_bufs
  BY <1>2, <1>3, <1>4, <1>6
<1> QED BY <1>5, <1>6, <1>7, <1>8

(* A request carries the tags and the number of its dialog. *)
LEMMA DialogSends ==
  ASSUME NEW d, DialogSound(d), NEW from, NEW c, from # Dialog!CALLER => d.ltag = from,
         DialogNet, dialog_net' = dialog_net \cup {Dialog!Request(d, from, c)}
  PROVE  DialogNet'
<1> DEFINE m == Dialog!Request(d, from, c)
<1>1. m.cseq = d.lseq /\ m.from = from /\ m.ltag = d.ltag
  BY DEF Dialog!Request
<1>2. d.lseq \in Nat
  BY DEF DialogSound
<1> HIDE DEF m
<1>3. dialog_net' = dialog_net \cup {m}
  BY DEF m
<1> QED BY <1>1, <1>2, <1>3 DEF DialogNet

(* The caller sends a request within the dialog. *)
LEMMA DialogCallerSends ==
  ASSUME DialogInv, NEW l \in Dialog!Legs, NEW c, Dialog!CallerSends(l, c)
  PROVE  DialogInv' /\ DialogRises
<1> DEFINE old == dialog_uac[l]
           d == [old EXCEPT !.lseq = @ + 1]
<1>0. dialog_bufs \in Nat /\ DOMAIN dialog_uac = Dialog!Legs
  BY DEF DialogInv, DialogHeap, DialogTypes
<1>1. /\ old # Dialog!None /\ dialog_net' = dialog_net \cup {Dialog!Request(old, Dialog!CALLER, c)}
      /\ dialog_uas' = dialog_uas /\ dialog_heap' = dialog_heap /\ dialog_bufs' = dialog_bufs
  BY DEF Dialog!CallerSends
<1>2. dialog_uac' = [dialog_uac EXCEPT ![l] = d]
  BY <1>0 DEF Dialog!CallerSends
<1>3. /\ DialogSound(old) /\ DialogHas(<<"uac", l>>) = Dialog!Own(old) /\ Dialog!Own(old) \subseteq dialog_heap
      /\ old.lseq \in Nat /\ old.rseq \in Nat
  BY <1>1, DialogOwned DEF DialogSound
<1>4. /\ DialogSound(d) /\ d # Dialog!None /\ Dialog!Own(d) = Dialog!Own(old)
      /\ d.lseq = old.lseq + 1 /\ d.rseq = old.rseq
  BY <1>3, DialogNumber
<1> HIDE DEF d, old
<1>8. /\ dialog_bufs' \in Nat /\ dialog_bufs' >= dialog_bufs
      /\ dialog_heap' = (dialog_heap \ Dialog!Own(old)) \cup Dialog!Own(d)
      /\ Dialog!Own(d) \subseteq Dialog!Own(old) \cup (dialog_bufs .. dialog_bufs' - 1)
  BY <1>0, <1>1, <1>3, <1>4
<1>5. DialogTypes' /\ DialogHeap'
  BY <1>1, <1>2, <1>3, <1>4, <1>8, DialogCaller
<1>6. DialogRises
  <2>1. d.lseq >= old.lseq /\ d.rseq >= old.rseq
    BY <1>3, <1>4
  <2> QED BY <1>1, <1>2, <2>1, DialogCallerRises DEF old
<1>7. DialogNet'
  BY <1>1, <1>3, DialogSends DEF DialogInv
<1> QED BY <1>5, <1>6, <1>7 DEF DialogInv

(* A callee sends a request within the dialog. *)
LEMMA DialogCalleeSends ==
  ASSUME DialogInv, NEW b \in Branch, NEW c, Dialog!CalleeSends(b, c)
  PROVE  DialogInv' /\ DialogRises
<1> DEFINE old == dialog_uas[b]
           d == [old EXCEPT !.lseq = @ + 1]
<1>0. dialog_bufs \in Nat /\ DOMAIN dialog_uas = Branch
  BY DEF DialogInv, DialogHeap, DialogTypes
<1>1. /\ old # Dialog!None /\ dialog_net' = dialog_net \cup {Dialog!Request(old, b, c)}
      /\ dialog_uac' = dialog_uac /\ dialog_heap' = dialog_heap /\ dialog_bufs' = dialog_bufs
  BY DEF Dialog!CalleeSends
<1>2. dialog_uas' = [dialog_uas EXCEPT ![b] = d]
  BY <1>0 DEF Dialog!CalleeSends
<1>3. /\ DialogSound(old) /\ DialogHas(<<"uas", b>>) = Dialog!Own(old) /\ Dialog!Own(old) \subseteq dialog_heap
      /\ old.lseq \in Nat /\ old.rseq \in Nat /\ old.ltag = b
  BY <1>1, DialogOwned DEF DialogSound
<1>4. /\ DialogSound(d) /\ d # Dialog!None /\ Dialog!Own(d) = Dialog!Own(old)
      /\ d.lseq = old.lseq + 1 /\ d.rseq = old.rseq /\ d.ltag = b
  BY <1>3, DialogNumber
<1> HIDE DEF d, old
<1>8. /\ dialog_bufs' \in Nat /\ dialog_bufs' >= dialog_bufs
      /\ dialog_heap' = (dialog_heap \ Dialog!Own(old)) \cup Dialog!Own(d)
      /\ Dialog!Own(d) \subseteq Dialog!Own(old) \cup (dialog_bufs .. dialog_bufs' - 1)
  BY <1>0, <1>1, <1>3, <1>4
<1>5. DialogTypes' /\ DialogHeap'
  BY <1>1, <1>2, <1>3, <1>4, <1>8, DialogCallee
<1>6. DialogRises
  <2>1. d.lseq >= old.lseq /\ d.rseq >= old.rseq
    BY <1>3, <1>4
  <2> QED BY <1>1, <1>2, <2>1, DialogCalleeRises DEF old
<1>7. DialogNet'
  BY <1>1, <1>3, DialogSends DEF DialogInv
<1> QED BY <1>5, <1>6, <1>7 DEF DialogInv

(* sip_dialog_rseq_valid() and sip_dialog_update(): a request takes the
   number up and perhaps the target over. *)
LEMMA DialogGets ==
  ASSUME DialogInv, NEW m \in dialog_net, m.kind = "request", NEW target \in BOOLEAN,
         NEW d, DialogSound(d), Dialog!Own(d) \subseteq dialog_heap, \A x \in Dialog!Own(d) : x \in Nat /\ x < dialog_bufs,
         Dialog!TakesBuf(d, target)
  PROVE  LET e == Dialog!Receives(d, m, target)
         IN  /\ DialogSound(e) /\ e # Dialog!None /\ m.cseq \in Nat
             /\ e.ltag = d.ltag /\ e.lseq = d.lseq /\ e.rseq = m.cseq
             /\ dialog_bufs' \in Nat /\ dialog_bufs' >= dialog_bufs
             /\ Dialog!Own(e) \subseteq Dialog!Own(d) \cup (dialog_bufs .. dialog_bufs' - 1)
             /\ dialog_heap' = (dialog_heap \ Dialog!Own(d)) \cup Dialog!Own(e)
<1> DEFINE e == Dialog!Receives(d, m, target)
<1>0. dialog_bufs \in Nat /\ m.cseq \in Nat
  BY DEF DialogInv, DialogHeap, DialogNet
<1>1. d.mb \in Dialog!Own(d) /\ d.uri \in Dialog!Own(d) /\ Dialog!Own(d) = {d.mb, d.uri} /\ d.mb # d.uri
  BY DEF Dialog!Own, DialogSound
<1>2. d.mb \in Nat /\ d.mb < dialog_bufs /\ d.mb # dialog_bufs /\ d.mb \in dialog_heap
  BY <1>0, <1>1
<1>3. /\ DialogSound(e) /\ e # Dialog!None
      /\ Dialog!Own(e) = IF target THEN {d.mb, dialog_bufs} ELSE Dialog!Own(d)
      /\ e.ltag = d.ltag /\ e.lseq = d.lseq /\ e.rseq = m.cseq
  BY <1>0, <1>2, DialogReceives
<1> HIDE DEF e
<1>4. CASE target
  <2>1. dialog_bufs' = dialog_bufs + 1 /\ dialog_heap' = (dialog_heap \ {d.uri}) \cup {dialog_bufs}
    BY <1>4 DEF Dialog!TakesBuf
  <2>2. dialog_heap' = (dialog_heap \ Dialog!Own(d)) \cup Dialog!Own(e)
    BY <1>1, <1>2, <1>3, <1>4, <2>1
  <2>3. Dialog!Own(e) \subseteq Dialog!Own(d) \cup (dialog_bufs .. dialog_bufs' - 1)
    BY <1>0, <1>1, <1>3, <1>4, <2>1
  <2> QED BY <1>0, <1>3, <2>1, <2>2, <2>3 DEF e
<1>5. CASE ~target
  <2>1. dialog_bufs' = dialog_bufs /\ dialog_heap' = dialog_heap
    BY <1>5 DEF Dialog!TakesBuf
  <2>2. dialog_heap' = (dialog_heap \ Dialog!Own(d)) \cup Dialog!Own(e)
    BY <1>3, <1>5, <2>1
  <2> QED BY <1>0, <1>3, <1>5, <2>1, <2>2 DEF e
<1> QED BY <1>4, <1>5

(* A request reaches the caller. *)
LEMMA DialogCallerGets ==
  ASSUME DialogInv, NEW l \in Dialog!Legs, NEW m \in dialog_net, NEW target \in BOOLEAN, Dialog!CallerGets(l, m, target)
  PROVE  DialogInv' /\ DialogRises
<1> DEFINE old == dialog_uac[l]
           d == Dialog!Receives(old, m, target)
<1>0. DOMAIN dialog_uac = Dialog!Legs
  BY DEF DialogInv, DialogTypes
<1>1. /\ m.kind = "request" /\ old # Dialog!None /\ m.cseq >= old.rseq
      /\ Dialog!TakesBuf(old, target) /\ dialog_uas' = dialog_uas /\ dialog_net' = dialog_net
  BY DEF Dialog!CallerGets, Dialog!Cmp, Dialog!RseqValid
<1>2. dialog_uac' = [dialog_uac EXCEPT ![l] = d]
  BY <1>0 DEF Dialog!CallerGets
<1>3. /\ DialogSound(old) /\ DialogHas(<<"uac", l>>) = Dialog!Own(old) /\ Dialog!Own(old) \subseteq dialog_heap
      /\ old.lseq \in Nat /\ old.rseq \in Nat /\ \A x \in Dialog!Own(old) : x \in Nat /\ x < dialog_bufs
  BY <1>1, DialogOwned DEF DialogSound
<1> HIDE DEF old
<1>4. /\ DialogSound(d) /\ d # Dialog!None
      /\ d.lseq = old.lseq /\ d.rseq = m.cseq
      /\ dialog_bufs' \in Nat /\ dialog_bufs' >= dialog_bufs
      /\ Dialog!Own(d) \subseteq Dialog!Own(old) \cup (dialog_bufs .. dialog_bufs' - 1)
      /\ dialog_heap' = (dialog_heap \ Dialog!Own(old)) \cup Dialog!Own(d)
  BY <1>1, <1>3, DialogGets
<1> HIDE DEF d
<1>5. DialogTypes' /\ DialogHeap'
  BY <1>1, <1>2, <1>3, <1>4, DialogCaller
<1>6. DialogRises
  <2>1. d.lseq >= old.lseq /\ d.rseq >= old.rseq
    BY <1>1, <1>3, <1>4
  <2> QED BY <1>1, <1>2, <2>1, DialogCallerRises DEF old
<1>7. DialogNet'
  BY <1>1 DEF DialogInv, DialogNet
<1> QED BY <1>5, <1>6, <1>7 DEF DialogInv

(* A request reaches a callee. *)
LEMMA DialogCalleeGets ==
  ASSUME DialogInv, NEW b \in Branch, NEW m \in dialog_net, NEW target \in BOOLEAN, Dialog!CalleeGets(b, m, target)
  PROVE  DialogInv' /\ DialogRises
<1> DEFINE old == dialog_uas[b]
           d == Dialog!Receives(old, m, target)
<1>0. DOMAIN dialog_uas = Branch
  BY DEF DialogInv, DialogTypes
<1>1. /\ m.kind = "request" /\ old # Dialog!None /\ m.cseq >= old.rseq
      /\ Dialog!TakesBuf(old, target) /\ dialog_uac' = dialog_uac /\ dialog_net' = dialog_net
  BY DEF Dialog!CalleeGets, Dialog!Cmp, Dialog!RseqValid
<1>2. dialog_uas' = [dialog_uas EXCEPT ![b] = d]
  BY <1>0 DEF Dialog!CalleeGets
<1>3. /\ DialogSound(old) /\ DialogHas(<<"uas", b>>) = Dialog!Own(old) /\ Dialog!Own(old) \subseteq dialog_heap
      /\ old.lseq \in Nat /\ old.rseq \in Nat /\ \A x \in Dialog!Own(old) : x \in Nat /\ x < dialog_bufs
      /\ old.ltag = b
  BY <1>1, DialogOwned DEF DialogSound
<1> HIDE DEF old
<1>4. /\ DialogSound(d) /\ d # Dialog!None /\ d.ltag = b
      /\ d.lseq = old.lseq /\ d.rseq = m.cseq
      /\ dialog_bufs' \in Nat /\ dialog_bufs' >= dialog_bufs
      /\ Dialog!Own(d) \subseteq Dialog!Own(old) \cup (dialog_bufs .. dialog_bufs' - 1)
      /\ dialog_heap' = (dialog_heap \ Dialog!Own(old)) \cup Dialog!Own(d)
  BY <1>1, <1>3, DialogGets
<1> HIDE DEF d
<1>5. DialogTypes' /\ DialogHeap'
  BY <1>1, <1>2, <1>3, <1>4, DialogCallee
<1>6. DialogRises
  <2>1. d.lseq >= old.lseq /\ d.rseq >= old.rseq
    BY <1>1, <1>3, <1>4
  <2> QED BY <1>1, <1>2, <2>1, DialogCalleeRises DEF old
<1>7. DialogNet'
  BY <1>1 DEF DialogInv, DialogNet
<1> QED BY <1>5, <1>6, <1>7 DEF DialogInv

(* The caller releases a dialog. *)
LEMMA DialogCallerFrees ==
  ASSUME DialogInv, NEW l \in Dialog!Legs, Dialog!CallerFrees(l)
  PROVE  DialogInv' /\ DialogRises
<1>1. /\ dialog_uac[l] # Dialog!None /\ dialog_uac' = [dialog_uac EXCEPT ![l] = Dialog!None] /\ dialog_heap' = dialog_heap \ Dialog!Own(dialog_uac[l])
      /\ UNCHANGED <<dialog_uas, dialog_net, dialog_bufs>> /\ dialog_bufs \in Nat
  BY DEF Dialog!CallerFrees, DialogInv, DialogHeap
<1>2. DialogHas(<<"uac", l>>) = Dialog!Own(dialog_uac[l])
  BY <1>1, DialogOwned
<1>6. dialog_bufs' \in Nat /\ dialog_bufs' >= dialog_bufs /\ dialog_heap' = (dialog_heap \ DialogHas(<<"uac", l>>)) \cup {}
  BY <1>1, <1>2
<1>3. DialogTypes' /\ DialogHeap'
  BY <1>1, <1>6, DialogCaller
<1>4. DialogRises
  BY <1>1, DialogCallerRises
<1>5. DialogNet'
  BY <1>1 DEF DialogInv, DialogNet
<1> QED BY <1>3, <1>4, <1>5 DEF DialogInv

(* A callee releases a dialog. *)
LEMMA DialogCalleeFrees ==
  ASSUME DialogInv, NEW b \in Branch, Dialog!CalleeFrees(b)
  PROVE  DialogInv' /\ DialogRises
<1>1. /\ dialog_uas[b] # Dialog!None /\ dialog_uas' = [dialog_uas EXCEPT ![b] = Dialog!None] /\ dialog_heap' = dialog_heap \ Dialog!Own(dialog_uas[b])
      /\ dialog_net' \subseteq dialog_net /\ UNCHANGED <<dialog_uac, dialog_bufs>> /\ dialog_bufs \in Nat
  BY DEF Dialog!CalleeFrees, DialogInv, DialogHeap
<1>2. DialogHas(<<"uas", b>>) = Dialog!Own(dialog_uas[b])
  BY <1>1, DialogOwned
<1>6. dialog_bufs' \in Nat /\ dialog_bufs' >= dialog_bufs /\ dialog_heap' = (dialog_heap \ DialogHas(<<"uas", b>>)) \cup {}
  BY <1>1, <1>2
<1>3. DialogTypes' /\ DialogHeap'
  BY <1>1, <1>6, DialogCallee
<1>4. DialogRises
  BY <1>1, DialogCalleeRises
<1>5. DialogNet'
  BY <1>1 DEF DialogInv, DialogNet
<1> QED BY <1>3, <1>4, <1>5 DEF DialogInv

(* Every step of the dialogs keeps their invariant, and their numbers rise. *)
LEMMA DialogStep == ASSUME DialogInv, [Dialog!Next]_dialog PROVE DialogInv' /\ DialogRises
<1>1. CASE \E rr \in {Dialog!NIL, "proxy"} : Dialog!Invite(rr)
  BY <1>1, DialogInvite
<1>2. CASE \E b \in Branch, rr \in {Dialog!NIL, "proxy"}, c \in Contact : Dialog!Accept(b, rr, c)
  BY <1>2, DialogAccept
<1>3. CASE \E b \in Branch, ok \in BOOLEAN : Dialog!Create(b, ok)
  BY <1>3, DialogCreate
<1>4. CASE \E b \in Branch : Dialog!Fork(b) \/ Dialog!CalleeFrees(b)
  BY <1>4, DialogFork, DialogCalleeFrees
<1>5. CASE \E l \in Dialog!Legs : Dialog!CallerFrees(l)
  BY <1>5, DialogCallerFrees
<1>6. CASE \E l \in Dialog!Legs, c \in Contact : Dialog!CallerSends(l, c)
  BY <1>6, DialogCallerSends
<1>7. CASE \E b \in Branch, c \in Contact : Dialog!CalleeSends(b, c)
  BY <1>7, DialogCalleeSends
<1>8. CASE \E m \in dialog_net, t \in BOOLEAN :
          \/ \E l \in Dialog!Legs : Dialog!CallerGets(l, m, t)
          \/ \E b \in Branch : Dialog!CalleeGets(b, m, t)
  BY <1>8, DialogCallerGets, DialogCalleeGets
<1>9. CASE UNCHANGED dialog
  BY <1>9, DialogSame DEF dialog
<1> QED BY <1>1, <1>2, <1>3, <1>4, <1>5, <1>6, <1>7, <1>8, <1>9 DEF Dialog!Next

(* what the invariant says of the properties *)
LEMMA DialogProperties == ASSUME DialogInv PROVE Dialog!RouteAlive /\ Dialog!RouteRight /\ Dialog!ForksApart
<1>1. \A d \in Dialog!Dialogs : DialogSound(d)
  BY DEF Dialog!Dialogs, DialogInv, DialogTypes
<1>2. Dialog!RouteRight /\ \A d \in Dialog!Dialogs : d.route.buf \in Dialog!Own(d)
  BY <1>1 DEF Dialog!RouteRight, DialogSound, Dialog!Own
<1>3. Dialog!ForksApart
  BY DEF Dialog!ForksApart, Dialog!Cmp, DialogInv, DialogNet
<1>4. dialog_heap = UNION {Dialog!Own(d) : d \in Dialog!Dialogs}
  <2>1. ASSUME NEW x \in dialog_heap PROVE \E d \in Dialog!Dialogs : x \in Dialog!Own(d)
    <3>1. PICK p \in DialogSlot : x \in DialogHas(p)
      BY DEF DialogInv, DialogHeap
    <3>2. DialogAt(p) # Dialog!None /\ x \in Dialog!Own(DialogAt(p))
      BY <3>1 DEF DialogHas
    <3>3. DialogAt(p) \in Dialog!Dialogs
      BY <3>2 DEF DialogSlot, DialogAt, Dialog!Dialogs
    <3> QED BY <3>2, <3>3
  <2>2. ASSUME NEW d \in Dialog!Dialogs PROVE Dialog!Own(d) \subseteq dialog_heap
    BY DialogOwned DEF Dialog!Dialogs
  <2> QED BY <2>1, <2>2
<1> QED BY <1>2, <1>3, <1>4 DEF Dialog!RouteAlive

-------------------------------------------------------------------------------
(* SipAuth: credentials. *)

AuthEntry == [realm : Realm \cup {"none"}, nonce : Nat, nc : Nat]

(* The list rs and the number n of nonces go with the credentials sent so
   far: a nonce is that of one entry, was issued, and was sent with smaller
   counts than the entry's only. *)
AuthFresh(rs, n) ==
    /\ n \in Nat
    /\ rs \in Seq(AuthEntry)
    /\ \A i \in DOMAIN rs : rs[i].nonce < n
    /\ \A i, j \in DOMAIN rs : rs[i].nonce = rs[j].nonce => i = j
    /\ \A u \in auth_used : u[1] < n
    /\ \A i \in DOMAIN rs : \A u \in auth_used : u[1] = rs[i].nonce => u[2] < rs[i].nc

AuthInv == auth_used \subseteq Nat \X Nat /\ AuthFresh(auth_realml, auth_nonces)

(* The least of a set of naturals is one of them. *)
LEMMA MinIn == ASSUME NEW S, S \subseteq Nat, S # {} PROVE Auth!Min(S) \in S
<1>1. PICK x \in S : \A y \in S : ~(<<y, x>> \in Below)
  BY BelowWellFounded, WFMin
<1>2. \A y \in S : x <= y
  <2> TAKE y \in S
  <2>1. <<y, x>> \in Nat \X Nat /\ x \in Nat /\ y \in Nat
    OBVIOUS
  <2>2. ~(y < x)
    BY <1>1, <2>1 DEF Below
  <2> QED BY <2>1, <2>2
<1> QED BY <1>2 DEF Auth!Min

(* The authentication state begins in the invariant. *)
LEMMA AuthInit == Auth!Init => AuthInv
BY DEF Auth!Init, AuthInv, AuthFresh

(* A realm that is new gets the next nonce. *)
LEMMA AuthAppends ==
  ASSUME NEW rs, NEW n, AuthFresh(rs, n), NEW realm \in Realm \cup {"none"},
         auth_used \subseteq Nat \X Nat
  PROVE  AuthFresh(Append(rs, [realm |-> realm, nonce |-> n, nc |-> 1]), n + 1)
<1> DEFINE new == [realm |-> realm, nonce |-> n, nc |-> 1]
           r == Append(rs, new)
<1>1. n \in Nat /\ rs \in Seq(AuthEntry)
  BY DEF AuthFresh
<1>2. new \in AuthEntry
  BY <1>1 DEF AuthEntry
<1>3. r \in Seq(AuthEntry) /\ DOMAIN r = 1 .. Len(rs) + 1 /\ DOMAIN rs = 1 .. Len(rs) /\ Len(rs) \in Nat
  BY <1>1, <1>2
<1>4. \A i \in DOMAIN r : r[i] = IF i \in DOMAIN rs THEN rs[i] ELSE new
  BY <1>1, <1>2, <1>3
<1>5. \A i \in DOMAIN r \ DOMAIN rs : i = Len(rs) + 1
  BY <1>3
<1>6. \A i \in DOMAIN rs : rs[i] \in AuthEntry
  BY <1>1, <1>3
<1>7. new.nonce = n /\ new.nc = 1
  OBVIOUS
<1> HIDE DEF r, new
<1>8. \A i \in DOMAIN r : r[i].nonce < n + 1
  BY <1>1, <1>4, <1>6, <1>7 DEF AuthFresh, AuthEntry
<1>9. \A i, j \in DOMAIN r : r[i].nonce = r[j].nonce => i = j
  BY <1>1, <1>4, <1>5, <1>6, <1>7 DEF AuthFresh, AuthEntry
<1>10. \A u \in auth_used : u[1] \in Nat /\ u[1] < n
  BY DEF AuthFresh
<1>11. \A i \in DOMAIN r : \A u \in auth_used : u[1] = r[i].nonce => u[2] < r[i].nc
  BY <1>1, <1>4, <1>7, <1>10 DEF AuthFresh
<1>12. \A u \in auth_used : u[1] < n + 1
  BY <1>10, <1>1
<1>13. AuthFresh(r, n + 1)
  BY <1>1, <1>3, <1>8, <1>9, <1>11, <1>12 DEF AuthFresh
<1> QED BY <1>13 DEF r, new

(* A stale nonce is replaced by the next. *)
LEMMA AuthReplaces ==
  ASSUME NEW rs, NEW n, AuthFresh(rs, n), NEW realm \in Realm \cup {"none"},
         NEW k \in DOMAIN rs, auth_used \subseteq Nat \X Nat
  PROVE  AuthFresh([rs EXCEPT ![k] = [realm |-> realm, nonce |-> n, nc |-> 1]], n + 1)
<1> DEFINE new == [realm |-> realm, nonce |-> n, nc |-> 1]
           r == [rs EXCEPT ![k] = new]
<1>1. n \in Nat /\ rs \in Seq(AuthEntry)
  BY DEF AuthFresh
<1>2. new \in AuthEntry
  BY <1>1 DEF AuthEntry
<1>3. r \in Seq(AuthEntry) /\ DOMAIN r = DOMAIN rs
  BY <1>1, <1>2
<1>4. \A i \in DOMAIN r : r[i] = IF i # k THEN rs[i] ELSE new
  BY <1>1, <1>2, <1>3
<1>5. \A i \in DOMAIN rs : rs[i] \in AuthEntry
  BY <1>1, <1>3
<1>6. /\ \A i \in DOMAIN rs : rs[i].nonce \in Nat /\ rs[i].nonce < n
      /\ \A i, j \in DOMAIN rs : rs[i].nonce = rs[j].nonce => i = j
  BY <1>5 DEF AuthFresh, AuthEntry
<1>7. new.nonce = n /\ new.nc = 1
  OBVIOUS
<1> HIDE DEF r, new
<1>8. \A i \in DOMAIN r : r[i].nonce < n + 1
  BY <1>1, <1>3, <1>4, <1>6, <1>7
<1>9. \A i, j \in DOMAIN r : r[i].nonce = r[j].nonce => i = j
  BY <1>1, <1>3, <1>4, <1>6, <1>7
<1>10. \A u \in auth_used : u[1] \in Nat /\ u[1] < n
  BY DEF AuthFresh
<1>11. \A i \in DOMAIN r : \A u \in auth_used : u[1] = r[i].nonce => u[2] < r[i].nc
  BY <1>1, <1>3, <1>4, <1>7, <1>10 DEF AuthFresh
<1>12. \A u \in auth_used : u[1] < n + 1
  BY <1>10, <1>1
<1>13. AuthFresh(r, n + 1)
  BY <1>1, <1>3, <1>8, <1>9, <1>11, <1>12 DEF AuthFresh
<1> QED BY <1>13 DEF r, new

(* A realm whose credentials were refused leaves the list. *)
LEMMA AuthRemoves ==
  ASSUME NEW rs, NEW n, AuthFresh(rs, n), NEW k \in DOMAIN rs
  PROVE  AuthFresh(Auth!RemoveAt(rs, k), n)
<1> DEFINE r == Auth!RemoveAt(rs, k)
           f(i) == IF i < k THEN i ELSE i + 1
<1>1. n \in Nat /\ rs \in Seq(AuthEntry)
  BY DEF AuthFresh
<1>2. DOMAIN rs = 1 .. Len(rs) /\ Len(rs) \in Nat /\ k \in 1 .. Len(rs)
  BY <1>1
<1>3. SubSeq(rs, 1, k - 1) \in Seq(AuthEntry) /\ Len(SubSeq(rs, 1, k - 1)) = k - 1
  BY <1>1, <1>2
<1>4. /\ SubSeq(rs, k + 1, Len(rs)) \in Seq(AuthEntry)
      /\ Len(SubSeq(rs, k + 1, Len(rs))) = Len(rs) - k
  BY <1>1, <1>2
<1>5. \A i \in 1 .. k - 1 : SubSeq(rs, 1, k - 1)[i] = rs[i]
  BY <1>1, <1>2
<1>6. \A i \in 1 .. Len(rs) - k : SubSeq(rs, k + 1, Len(rs))[i] = rs[k + i]
  BY <1>1, <1>2
<1>7. r \in Seq(AuthEntry) /\ DOMAIN r = 1 .. Len(rs) - 1
  BY <1>2, <1>3, <1>4 DEF Auth!RemoveAt
<1>8. \A i \in 1 .. Len(rs) - 1 : r[i] = rs[f(i)] /\ f(i) \in DOMAIN rs
  <2> DEFINE p == SubSeq(rs, 1, k - 1)
             q == SubSeq(rs, k + 1, Len(rs))
  <2> TAKE i \in 1 .. Len(rs) - 1
  <2>1. r = p \o q
    BY DEF Auth!RemoveAt
  <2> HIDE DEF p, q, r
  <2>2. CASE i < k
    <3>1. i \in 1 .. k - 1 /\ i \in DOMAIN rs
      BY <2>2, <1>2
    <3>2. r[i] = p[i]
      BY <2>1, <1>2, <1>3, <1>4, <3>1 DEF p, q
    <3> QED BY <3>1, <3>2, <1>5, <2>2 DEF p
  <2>3. CASE ~(i < k)
    <3>1. i - (k - 1) \in 1 .. Len(rs) - k /\ i + 1 \in DOMAIN rs
      BY <2>3, <1>2
    <3>2. p \in Seq(AuthEntry) /\ q \in Seq(AuthEntry) /\ Len(p) = k - 1 /\ Len(q) = Len(rs) - k
      BY <1>3, <1>4 DEF p, q
    <3>4. i \in 1 .. Len(p) + Len(q) /\ ~(i <= Len(p)) /\ i - Len(p) = i - (k - 1)
      BY <1>2, <2>3, <3>2
    <3>5. r[i] = q[i - (k - 1)]
      BY <2>1, <3>2, <3>4
    <3>3. k + (i - (k - 1)) = i + 1
      BY <1>2
    <3> QED BY <3>1, <3>3, <3>5, <1>6, <2>3 DEF q
  <2> QED BY <2>2, <2>3
<1>9. \A i, j \in 1 .. Len(rs) - 1 : f(i) = f(j) => i = j
  BY <1>2
<1> HIDE DEF r, f
<1>10. /\ \A i \in DOMAIN rs : rs[i].nonce < n
       /\ \A i, j \in DOMAIN rs : rs[i].nonce = rs[j].nonce => i = j
       /\ \A u \in auth_used : u[1] < n
       /\ \A i \in DOMAIN rs : \A u \in auth_used : u[1] = rs[i].nonce => u[2] < rs[i].nc
  BY DEF AuthFresh
<1>11. /\ \A i \in DOMAIN r : r[i].nonce < n
       /\ \A i, j \in DOMAIN r : r[i].nonce = r[j].nonce => i = j
       /\ \A i \in DOMAIN r : \A u \in auth_used : u[1] = r[i].nonce => u[2] < r[i].nc
  BY <1>7, <1>8, <1>9, <1>10
<1>12. AuthFresh(r, n)
  BY <1>1, <1>7, <1>10, <1>11 DEF AuthFresh
<1> QED BY <1>12 DEF r

(* one header of a challenge leaves the list and the nonces in order *)
LEMMA AuthHandlerKeeps ==
  ASSUME NEW st, AuthFresh(st.rs, st.n), st = [rs |-> st.rs, err |-> st.err, n |-> st.n],
         NEW h, h.realm \in Realm \cup {"none"}, auth_used \subseteq Nat \X Nat
  PROVE  LET nx == Auth!AuthHandler(st, h)
         IN  AuthFresh(nx.rs, nx.n) /\ nx = [rs |-> nx.rs, err |-> nx.err, n |-> nx.n]
<1> DEFINE nx == Auth!AuthHandler(st, h)
           hits == Auth!Finds(st.rs, h.realm)
           new == [realm |-> h.realm, nonce |-> st.n, nc |-> 1]
<1>1. CASE st.err \/ (hits = {} /\ h.realm \notin Known)
  <2>1. nx.rs = st.rs /\ nx.n = st.n /\ nx = [rs |-> nx.rs, err |-> nx.err, n |-> nx.n]
    BY <1>1 DEF Auth!AuthHandler
  <2> QED BY <2>1
<1>2. CASE ~st.err /\ hits = {} /\ h.realm \in Known
  <2>1. nx = [rs |-> Append(st.rs, new), err |-> st.err, n |-> st.n + 1]
    BY <1>2 DEF Auth!AuthHandler
  <2> QED BY <2>1, AuthAppends
<1>3. CASE ~st.err /\ hits # {}
  <2>1. hits \subseteq DOMAIN st.rs /\ DOMAIN st.rs \subseteq Nat
    BY DEF Auth!Finds, AuthFresh
  <2>2. Auth!Min(hits) \in DOMAIN st.rs
    BY <2>1, <1>3, MinIn
  <2>3. CASE h.stale
    <3>1. nx = [rs |-> [st.rs EXCEPT ![Auth!Min(hits)] = new], err |-> st.err, n |-> st.n + 1]
      BY <1>3, <2>3 DEF Auth!AuthHandler
    <3> QED BY <3>1, <2>2, AuthReplaces
  <2>4. CASE ~h.stale
    <3>1. nx = [rs |-> Auth!RemoveAt(st.rs, Auth!Min(hits)), err |-> TRUE, n |-> st.n]
      BY <1>3, <2>4 DEF Auth!AuthHandler
    <3> QED BY <3>1, <2>2, AuthRemoves
  <2> QED BY <2>3, <2>4
<1> QED BY <1>1, <1>2, <1>3

(* sip_auth_authenticate() keeps the invariant, with one challenge or two. *)
LEMMA AuthChallenge ==
  ASSUME AuthInv, NEW h \in Auth!Header, NEW k \in Auth!Header \cup {Auth!NoHeader}, Auth!Challenge(h, k)
  PROVE  AuthInv'
<1> DEFINE st == [rs |-> auth_realml, err |-> FALSE, n |-> auth_nonces]
           one == Auth!AuthHandler(st, h)
           two == Auth!AuthHandler(one, k)
<1>1. h.realm \in Realm \cup {"none"} /\ k.realm \in Realm \cup {"none"}
  BY DEF Auth!Header, Auth!NoHeader
<1>2. auth_used \subseteq Nat \X Nat /\ auth_used' = auth_used
  BY DEF AuthInv, Auth!Challenge
<1>3. /\ st.rs = auth_realml /\ st.n = auth_nonces
      /\ st = [rs |-> st.rs, err |-> st.err, n |-> st.n]
  OBVIOUS
<1>4. AuthFresh(st.rs, st.n)
  BY <1>3 DEF AuthInv
<1> HIDE DEF st
<1>5. AuthFresh(one.rs, one.n) /\ one = [rs |-> one.rs, err |-> one.err, n |-> one.n]
  BY <1>1, <1>2, <1>3, <1>4, AuthHandlerKeeps
<1> HIDE DEF one
<1>6. AuthFresh(two.rs, two.n)
  BY <1>1, <1>2, <1>5, AuthHandlerKeeps
<1>7. \/ auth_realml' = one.rs /\ auth_nonces' = one.n
      \/ auth_realml' = two.rs /\ auth_nonces' = two.n
  BY DEF Auth!Challenge, st, one
<1> HIDE DEF two
<1>8. AuthFresh(auth_realml', auth_nonces')
  BY <1>5, <1>6, <1>7
<1>9. AuthFresh(auth_realml, auth_nonces)' 
  BY <1>8, <1>2 DEF AuthFresh
<1> QED BY <1>2, <1>9 DEF AuthInv

(* sip_auth_encode() counts a use of every nonce: what it sends was not sent
   before. *)
LEMMA AuthEncode ==
  ASSUME AuthInv, Auth!Encode
  PROVE  AuthInv' /\ auth_last' \cap auth_used = {}
<1> DEFINE sent == {<<auth_realml[i].nonce, auth_realml[i].nc>> : i \in DOMAIN auth_realml}
<1>1. /\ auth_last' = sent /\ auth_used' = auth_used \cup sent /\ auth_nonces' = auth_nonces
      /\ auth_realml' = [i \in DOMAIN auth_realml |-> [auth_realml[i] EXCEPT !.nc = @ + 1]]
  BY DEF Auth!Encode
<1>2. auth_realml \in Seq(AuthEntry) /\ auth_used \subseteq Nat \X Nat /\ auth_nonces \in Nat
  BY DEF AuthInv, AuthFresh
<1>3. DOMAIN auth_realml = 1 .. Len(auth_realml) /\ Len(auth_realml) \in Nat
  BY <1>2
<1>4. \A i \in DOMAIN auth_realml : auth_realml[i] \in AuthEntry
  BY <1>2, <1>3
<1>5. \A i \in DOMAIN auth_realml : /\ auth_realml[i].nonce \in Nat /\ auth_realml[i].nc \in Nat
                                    /\ auth_realml[i].realm \in Realm \cup {"none"}
                                    /\ auth_realml[i] = [realm |-> auth_realml[i].realm,
                                                    nonce |-> auth_realml[i].nonce, nc |-> auth_realml[i].nc]
  BY <1>4 DEF AuthEntry
<1>6. \A u \in sent : \E i \in DOMAIN auth_realml : u[1] = auth_realml[i].nonce /\ u[2] = auth_realml[i].nc
  OBVIOUS
<1>7. \A i \in DOMAIN auth_realml : \A u \in auth_used : u[1] = auth_realml[i].nonce => u[2] < auth_realml[i].nc
  BY DEF AuthInv, AuthFresh
<1>8. auth_last' \cap auth_used = {}
  BY <1>1, <1>5, <1>6, <1>7
<1>9. auth_used' \subseteq Nat \X Nat
  BY <1>1, <1>2, <1>5
<1>10. /\ DOMAIN auth_realml' = DOMAIN auth_realml
       /\ \A i \in DOMAIN auth_realml :
             /\ auth_realml'[i] \in AuthEntry /\ auth_realml'[i].nonce = auth_realml[i].nonce
             /\ auth_realml'[i].nc = auth_realml[i].nc + 1
  BY <1>1, <1>5 DEF AuthEntry
<1>11. auth_realml' \in Seq(AuthEntry)
  <2>1. auth_realml' \in [1 .. Len(auth_realml) -> AuthEntry]
    BY <1>1, <1>3, <1>10
  <2> QED BY <2>1, <1>3
<1> HIDE DEF sent
<1>12. \A u \in auth_used' : u[1] < auth_nonces
  BY <1>1, <1>6 DEF AuthInv, AuthFresh
<1>13. \A i \in DOMAIN auth_realml : \A u \in auth_used' : u[1] = auth_realml[i].nonce => u[2] < auth_realml[i].nc + 1
  <2> TAKE i \in DOMAIN auth_realml
  <2> TAKE u \in auth_used'
  <2>1. CASE u \in auth_used
    BY <2>1, <1>7, <1>5, <1>2
  <2>2. CASE u \in sent
    <3>1. PICK j \in DOMAIN auth_realml : u[1] = auth_realml[j].nonce /\ u[2] = auth_realml[j].nc
      BY <1>6, <2>2
    <3>2. u[1] = auth_realml[i].nonce => i = j
      BY <3>1 DEF AuthInv, AuthFresh
    <3> QED BY <3>1, <3>2, <1>5
  <2> QED BY <2>1, <2>2, <1>1
<1>14. /\ \A i \in DOMAIN auth_realml : auth_realml[i].nonce < auth_nonces
       /\ \A i, j \in DOMAIN auth_realml : auth_realml[i].nonce = auth_realml[j].nonce => i = j
  BY DEF AuthInv, AuthFresh
<1>15. /\ \A i \in DOMAIN auth_realml' : auth_realml'[i].nonce < auth_nonces'
       /\ \A i, j \in DOMAIN auth_realml' : auth_realml'[i].nonce = auth_realml'[j].nonce => i = j
       /\ \A i \in DOMAIN auth_realml' : \A u \in auth_used' : u[1] = auth_realml'[i].nonce => u[2] < auth_realml'[i].nc
       /\ \A u \in auth_used' : u[1] < auth_nonces'
  <2>1. auth_nonces' = auth_nonces
    BY <1>1
  <2> QED BY <2>1, <1>10, <1>12, <1>13, <1>14
<1>16. AuthFresh(auth_realml, auth_nonces)'
  BY <1>1, <1>2, <1>11, <1>15 DEF AuthFresh
<1> QED BY <1>8, <1>9, <1>16 DEF AuthInv

(* Every step keeps the invariant, and credentials that are sent are new. *)
LEMMA AuthStep ==
  ASSUME AuthInv, [Auth!Next]_auth
  PROVE  AuthInv' /\ (auth_req = "ready" /\ auth_req' = "sent" => auth_last' \cap auth_used = {})
<1>1. CASE Auth!Encode
  BY <1>1, AuthEncode
<1>2. CASE Auth!Answered
  BY <1>2 DEF Auth!Answered, AuthInv, AuthFresh
<1>3. CASE Auth!Again
  <2>1. auth_realml' = auth_realml \/ auth_realml' = <<>>
    BY <1>3 DEF Auth!Again
  <2>2. auth_used' = auth_used /\ auth_nonces' = auth_nonces /\ auth_req' = "ready"
    BY <1>3 DEF Auth!Again
  <2>3. CASE auth_realml' = auth_realml
    BY <2>2, <2>3 DEF AuthInv, AuthFresh
  <2>4. CASE auth_realml' = <<>>
    <3>1. DOMAIN auth_realml' = {} /\ auth_realml' \in Seq(AuthEntry)
      BY <2>4
    <3>2. /\ auth_used \subseteq Nat \X Nat /\ auth_nonces \in Nat
          /\ \A u \in auth_used : u[1] < auth_nonces
      BY DEF AuthInv, AuthFresh
    <3>3. AuthFresh(auth_realml, auth_nonces)'
      BY <2>2, <3>1, <3>2 DEF AuthFresh
    <3> QED BY <2>2, <3>2, <3>3 DEF AuthInv, AuthFresh
  <2> QED BY <2>1, <2>2, <2>3, <2>4
<1>4. CASE \E h \in Auth!Header, k \in Auth!Header \cup {Auth!NoHeader} : Auth!Challenge(h, k)
  <2>1. PICK h \in Auth!Header, k \in Auth!Header \cup {Auth!NoHeader} : Auth!Challenge(h, k)
    BY <1>4
  <2>2. AuthInv'
    BY <2>1, AuthChallenge
  <2>3. auth_req # "ready"
    BY <2>1 DEF Auth!Challenge
  <2> QED BY <2>2, <2>3
<1>5. CASE UNCHANGED auth
  BY <1>5 DEF auth, AuthInv, AuthFresh
<1> QED BY <1>1, <1>2, <1>3, <1>4, <1>5 DEF Auth!Next

-------------------------------------------------------------------------------
(* The components together: a step of the composition is a step of one of
   them, and the others stay as they are. *)
ExchangesInv ==
    /\ DnsInv /\ ClientInv /\ ServerInv /\ FloorInv
    /\ DigitsInv /\ DialogInv /\ AuthInv /\ MediaInv

(* Each component begins in its invariant. *)
LEMMA ExchangesInit == Init => ExchangesInv
<1> SUFFICES ASSUME Init PROVE ExchangesInv
  OBVIOUS
<1>1. /\ Dns!Init /\ Client!Init /\ Server!Init /\ Floor!Init
      /\ Digits!Init /\ Dialog!Init /\ Auth!Init /\ Media!Init
  BY DEF Init
<1> QED BY <1>1, DnsInit, ClientInit, ServerInit, FloorInit, DigitsInit, DialogInit,
        AuthInit, MediaInit
        DEF ExchangesInv

(* A step of the composition, seen by each component. *)
LEMMA ExchangesSteps ==
  ASSUME [Next]_vars
  PROVE  /\ [Dns!Next]_dns /\ [Client!Next]_client /\ [Server!Next]_server
         /\ [Floor!Next]_floor /\ [Digits!Next]_digits /\ [Dialog!Next]_dialog
         /\ [Auth!Next]_auth /\ [Media!Next]_media
<1>1. [Dns!Next]_dns
  BY DEF Next, Only, vars
<1>2. [Client!Next]_client
  BY DEF Next, Only, vars
<1>3. [Server!Next]_server
  BY DEF Next, Only, vars
<1>4. [Floor!Next]_floor
  BY DEF Next, Only, vars
<1>5. [Digits!Next]_digits
  BY DEF Next, Only, vars
<1>6. [Dialog!Next]_dialog
  BY DEF Next, Only, vars
<1>7. [Auth!Next]_auth
  BY DEF Next, Only, vars
<1>8. [Media!Next]_media
  BY DEF Next, Only, vars
<1> QED BY <1>1, <1>2, <1>3, <1>4, <1>5, <1>6, <1>7, <1>8

(* Every step keeps the invariants of all components. *)
LEMMA ExchangesStep ==
  ASSUME ExchangesInv, [Next]_vars
  PROVE  /\ ExchangesInv' /\ DialogRises /\ MediaKeeps
         /\ (auth_req = "ready" /\ auth_req' = "sent" => auth_last' \cap auth_used = {})
<1>1. DnsInv'
  BY ExchangesSteps, DnsStep DEF ExchangesInv
<1>2. ClientInv'
  BY ExchangesSteps, ClientStep DEF ExchangesInv
<1>3. ServerInv'
  BY ExchangesSteps, ServerStep DEF ExchangesInv
<1>4. FloorInv'
  BY ExchangesSteps, FloorStep DEF ExchangesInv
<1>5. DigitsInv'
  BY ExchangesSteps, DigitsStep DEF ExchangesInv
<1>6. DialogInv' /\ DialogRises
  BY ExchangesSteps, DialogStep DEF ExchangesInv
<1>7. AuthInv' /\ (auth_req = "ready" /\ auth_req' = "sent" => auth_last' \cap auth_used = {})
  BY ExchangesSteps, AuthStep DEF ExchangesInv
<1>8. MediaInv' /\ MediaKeeps
  BY ExchangesSteps, MediaStep DEF ExchangesInv
<1> QED BY <1>1, <1>2, <1>3, <1>4, <1>5, <1>6, <1>7, <1>8 DEF ExchangesInv

(* The inductive invariant of the exchanges: of each component, what its
   parts owe each other between two handlers. *)
THEOREM Invariance == Spec => []ExchangesInv
<1>1. Init => ExchangesInv
  BY ExchangesInit
<1>2. ExchangesInv /\ [Next]_vars => ExchangesInv'
  BY ExchangesStep
<1> QED BY <1>1, <1>2, PTL DEF Spec

(* Who waits for an answer hears once, and of its own request. *)
LEMMA HearOnce == ExchangesInv => UsersHearOnce
<1> SUFFICES ASSUME ExchangesInv PROVE UsersHearOnce
  OBVIOUS
<1>1. Dns!HandlerOnce /\ Dns!QueriesWatched
  BY DnsProperties DEF ExchangesInv
<1>2. Client!AnsweredOnce /\ Client!RequestWatched
  BY DEF ExchangesInv, ClientInv
<1>3. Server!RequestsWhole /\ Server!ConnectionsListed
  BY ServerProperties DEF ExchangesInv
<1>4. Floor!AnswersMatch /\ Floor!RequestsHeld
  BY DEF ExchangesInv, FloorInv
<1>5. Digits!DigitsOnce
  BY DigitsProperties DEF ExchangesInv
<1> QED BY <1>1, <1>2, <1>3, <1>4, <1>5 DEF UsersHearOnce

(* Whatever the values of the constants: who waits hears once and of its own
   request, for any number of queries, servers and transactions, any bodies and
   digits, and any network that loses fewer packets in a row than telev sends;
   the dialogs of a forked request keep apart, for any number of branches and
   contacts; and the two ends of a session agree after any sequence of edits,
   offers, refusals and failures, with any formats. *)
THEOREM Agreement == Spec => []ExchangesAgree
<1>1. ExchangesInv => DialogsApart
  BY DialogProperties DEF ExchangesInv, DialogsApart
<1>2. ExchangesInv => LinesAgree
  BY MediaProperties DEF ExchangesInv, LinesAgree
<1>3. ExchangesInv => ExchangesAgree
  BY HearOnce, <1>1, <1>2 DEF ExchangesAgree
<1> QED BY <1>3, Invariance, PTL

(* The sequence numbers of a dialog never fall, no nonce count is sent twice,
   and no line of a session moves, whatever is repeated, overtaken, challenged
   or refused. *)
THEOREM Forward == Spec => MovesForward
<1> DEFINE Fresh == auth_req = "ready" /\ auth_req' = "sent" => auth_last' \cap auth_used = {}
           Kept == \A x \in Agent : \A k \in DOMAIN media_sess[x].medial :
                      /\ k \in DOMAIN media_sess'[x].medial
                      /\ media_sess'[x].medial[k].name = media_sess[x].medial[k].name
<1>1. ExchangesInv /\ [Next]_vars => [DialogRises]_dialog
  BY ExchangesStep
<1>2. ExchangesInv /\ [Next]_vars => [Fresh]_auth
  BY ExchangesStep
<1>3. ExchangesInv /\ [Next]_vars => [Kept]_media
  BY ExchangesStep DEF MediaKeeps, MediaPlaced
<1>4. Spec => [][DialogRises]_dialog
  BY <1>1, Invariance, PTL DEF Spec
<1>5. Spec => [][Fresh]_auth
  BY <1>2, Invariance, PTL DEF Spec
<1>6. Spec => [][Kept]_media
  BY <1>3, Invariance, PTL DEF Spec
<1>7. [][DialogRises]_dialog => Dialog!NumbersRise
  BY PTL DEF Dialog!NumbersRise, DialogRises, dialog, Dialog!vars
<1>8. [][Fresh]_auth => Auth!CredentialsFresh
  BY PTL DEF Auth!CredentialsFresh, auth, Auth!vars
<1>9. [][Kept]_media => Media!PlacesKept
  BY PTL DEF Media!PlacesKept, media, Media!vars
<1> QED BY <1>4, <1>5, <1>6, <1>7, <1>8, <1>9, PTL DEF MovesForward, NumbersForward, LinesKept

===============================================================================

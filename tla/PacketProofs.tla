---------------------------- MODULE PacketProofs -----------------------------
(* Theorems about the inputs of MCFormats: the invariants of its run, for   *)
(* every value of its bounds, from theorems about inputs of any kind.       *)
EXTENDS MCFormats, HeaderProofs, FiniteSetTheorems

-----------------------------------------------------------------------------
(* The checksum.                                                            *)

LEMMA FunctionIsSequence ==
    ASSUME NEW S, NEW n \in Nat, NEW f \in [1..n -> S]
    PROVE  f \in Seq(S) /\ Len(f) = n
OBVIOUS

LEMMA ListIsSequence ==
    ASSUME NEW S, NEW n \in Nat, NEW list \in ListsOf(S, n)
    PROVE  list \in Seq(S) /\ Len(list) \in 0..n
<1>1. PICK k \in 0..n : list \in [1..k -> S]
  BY DEF ListsOf
<1> QED BY <1>1

(* A receiver accepts every message sent with the checksum whose words need *)
(* one carry at most, whatever its length and its bytes.                    *)
THEOREM ChecksumHolds == Spec => []ChecksumVerifies
<1>1. Init => ChecksumVerifies
  <2> SUFFICES ASSUME Init, subject = "checksum", Carry(Sum16(content)) < 65536
               PROVE  Verifies(content)
    BY DEF ChecksumVerifies
  <2>1. content \in ListsOf({0, 1, 128, 255}, MaxBytes)
    BY DEF Init, PacketInit
  <2>2. content \in Seq(Byte) /\ Len(content) < 65536
    <3>1. MaxBytes \in Nat /\ MaxBytes < 65536
      BY BoundsAssumption
    <3>2. content \in Seq({0, 1, 128, 255}) /\ Len(content) \in 0..MaxBytes
      BY <2>1, <3>1, ListIsSequence
    <3>3. {0, 1, 128, 255} \subseteq Byte
      BY DEF Byte
    <3> QED BY <3>1, <3>2, <3>3
  <2> QED BY <2>2, ChecksumIsAccepted DEF Verifies
<1>2. ChecksumVerifies /\ [Next]_<<subject, content, cut>> => ChecksumVerifies'
  BY DEF ChecksumVerifies, Next, Verifies, Carry
<1> QED BY <1>1, <1>2, PTL DEF Spec

-----------------------------------------------------------------------------
(* The card the program runs on.                                            *)

LEMMA Greatest ==
    ASSUME NEW n \in Nat, NEW T, T \subseteq 1..n, T # {}
    PROVE  Max(T) \in T /\ \A j \in T : j <= Max(T)
<1> DEFINE U == {k \in Nat : \E j \in T : k = n - j}
<1>1. U \subseteq Nat /\ U # {}
  <2>1. PICK j \in T : TRUE
    OBVIOUS
  <2>2. n - j \in Nat
    BY <2>1
  <2> QED BY <2>1, <2>2
<1>2. PICK k \in U : \A i \in U : k <= i
  <2> HIDE DEF U
  <2> QED BY <1>1, LeastNumber
<1>3. PICK m \in T : k = n - m
  OBVIOUS
<1>4. ASSUME NEW j \in T PROVE m >= j
  <2>1. j \in 1..n /\ m \in 1..n /\ n - j \in U
    OBVIOUS
  <2> HIDE DEF U
  <2>2. k <= n - j
    BY <1>2, <2>1
  <2> QED BY <1>3, <2>1, <2>2
<1>5. Max(T) \in T /\ \A j \in T : Max(T) >= j
  BY <1>4 DEF Max
<1>6. \A j \in T : j \in 1..n
  OBVIOUS
<1> QED BY <1>5, <1>6

LEMMA Least ==
    ASSUME NEW T, T \subseteq Nat, T # {}
    PROVE  Min(T) \in T /\ \A j \in T : Min(T) <= j
<1>1. \E m \in T : \A j \in T : m <= j
  BY LeastNumber
<1> QED BY <1>1 DEF Min

(* A socket address, which a card may lack: four bytes of IPv4, sixteen of  *)
(* IPv6.                                                                    *)
SocketAddress ==
    {None} \cup { a \in [family : Nat, bytes : Seq(Byte)] :
                    /\ a.family = AF_INET => Len(a.bytes) = 4
                    /\ a.family = AF_INET6 => Len(a.bytes) = 16 }
CardAddresses == [addr : SocketAddress, netmask : SocketAddress]
IsIPv4(a) == a.addr # None /\ a.addr.family = AF_INET

Entry == [address : Seq(Byte), subnet : Seq(Byte)]
Both(a) == [address |-> getAddressByteArray(a.addr), subnet |-> getAddressByteArray(a.netmask)]
Usable(a) == getAddressByteArray(a.addr) # None

LEMMA UsableAddress ==
    ASSUME NEW a \in CardAddresses
    PROVE  /\ Both(a) \in Entry
           /\ Both(a).address = getAddressByteArray(a.addr)
           /\ IsIPv4(a) => Usable(a) /\ Both(a).address = a.addr.bytes
           /\ Usable(a) => (Len(Both(a).address) = 4 <=> IsIPv4(a))
<1>1. \A x \in SocketAddress : getAddressByteArray(x) \in Seq(Byte)
  BY DEF SocketAddress, getAddressByteArray, None
<1>2. a.addr \in SocketAddress /\ a.netmask \in SocketAddress
  BY DEF CardAddresses
<1>3. Both(a) \in Entry /\ Both(a).address = getAddressByteArray(a.addr)
  BY <1>1, <1>2 DEF Both, Entry
<1>4. ASSUME a.addr # None
      PROVE  /\ a.addr.bytes \in Seq(Byte)
             /\ a.addr.family = AF_INET => Len(a.addr.bytes) = 4
             /\ a.addr.family = AF_INET6 => Len(a.addr.bytes) = 16
  BY <1>2, <1>4 DEF SocketAddress
<1>5. AF_INET # AF_INET6
  BY DEF AF_INET, AF_INET6
<1>6. Len(None) = 0
  BY DEF None
<1>7. getAddressByteArray(a.addr) =
        IF a.addr # None /\ a.addr.family \in {AF_INET, AF_INET6} THEN a.addr.bytes ELSE None
  BY DEF getAddressByteArray
<1>8. ASSUME IsIPv4(a) PROVE Usable(a) /\ Both(a).address = a.addr.bytes
  <2>1. getAddressByteArray(a.addr) = a.addr.bytes /\ Len(a.addr.bytes) = 4
    BY <1>4, <1>7, <1>8 DEF IsIPv4
  <2>2. a.addr.bytes # None
    <3>1. SUFFICES ASSUME a.addr.bytes = None PROVE FALSE
      OBVIOUS
    <3>2. Len(None) = 4
      BY <2>1, <3>1, Zenon
    <3> QED BY <1>6, <3>2
  <2> QED BY <1>3, <2>1, <2>2 DEF Usable
<1>9. ASSUME Usable(a) PROVE Len(Both(a).address) = 4 <=> IsIPv4(a)
  <2>1. a.addr # None /\ a.addr.family \in {AF_INET, AF_INET6} /\ Both(a).address = a.addr.bytes
    BY <1>3, <1>7, <1>9 DEF Usable
  <2>2. CASE a.addr.family = AF_INET
    BY <1>4, <2>1, <2>2 DEF IsIPv4
  <2>3. CASE a.addr.family = AF_INET6
    <3>1. Len(a.addr.bytes) = 16
      BY <1>4, <2>1, <2>3
    <3>2. Len(Both(a).address) = 16
      BY <2>1, <3>1, Zenon
    <3> QED BY <1>5, <2>3, <3>2 DEF IsIPv4
  <2> QED BY <2>1, <2>2, <2>3
<1> QED BY <1>3, <1>8, <1>9

(* The list of addresses_of from each address on.                           *)
OwnEntry(a) == IF Usable(a) THEN <<Both(a)>> ELSE <<>>
ListStep(l, from, k) == IF k > Len(l) THEN <<>> ELSE OwnEntry(l[k]) \o from[k + 1]
ListFrom(l) == CHOOSE from : from = [k \in 1..(Len(l) + 1) |-> ListStep(l, from, k)]

LEMMA ListEquation ==
    ASSUME NEW d, d.addresses \in Seq(CardAddresses)
    PROVE  /\ \A k \in 1..(Len(d.addresses) + 1) :
                ListFrom(d.addresses)[k] = ListStep(d.addresses, ListFrom(d.addresses), k)
           /\ addresses_of(d) = ListFrom(d.addresses)[1]
<1> DEFINE l == d.addresses
           n == Len(l) + 1
           R == Seq(Entry)
           F == [1..n -> R]
           G == [k \in 1..n |-> [f \in F |-> ListStep(l, f, k)]]
<1>1. n \in Nat /\ Len(l) \in Nat
  OBVIOUS
<1>2. ASSUME NEW k \in 1..n, NEW f \in F PROVE ListStep(l, f, k) \in R
  <2>1. CASE k > Len(l)
    BY <2>1 DEF ListStep
  <2>2. CASE ~(k > Len(l))
    <3>1. k \in 1..Len(l) /\ k + 1 \in 1..n
      BY <1>1, <2>2
    <3>2. l[k] \in CardAddresses /\ f[k + 1] \in R
      BY <3>1
    <3>3. OwnEntry(l[k]) \in R
      BY <3>2, UsableAddress DEF OwnEntry
    <3> QED BY <2>2, <3>2, <3>3 DEF ListStep
  <2> QED BY <2>1, <2>2
<1>3. G \in [1..n -> [F -> R]] /\ \A f \in F, k \in 1..n : G[k][f] = ListStep(l, f, k)
  BY <1>2
<1> HIDE DEF G, n
<1>4. ASSUME NEW k \in 1..n, NEW f \in F, NEW g \in F, \A q \in 1..n : q > k => f[q] = g[q]
      PROVE  G[k][f] = G[k][g]
  <2>1. CASE k > Len(l)
    BY <1>3, <2>1 DEF ListStep
  <2>2. CASE ~(k > Len(l))
    <3>1. k + 1 \in 1..n /\ k + 1 > k
      BY <1>1, <2>2 DEF n
    <3> QED BY <1>3, <1>4, <3>1 DEF ListStep
  <2> QED BY <2>1, <2>2
<1>5. HasSolution(n, R, G)
  <2>1. Backwards(n, R, G)
    <3>1. <<>> \in R
      OBVIOUS
    <3> QED BY <1>1, <1>3, <1>4, <3>1 DEF Backwards
  <2> QED BY <2>1, RecursionFromEnd
<1>6. PICK f \in F : \A k \in 1..n : f[k] = ListStep(l, f, k)
  BY <1>3, <1>5 DEF HasSolution
<1>7. f = [k \in 1..(Len(l) + 1) |-> ListStep(l, f, k)]
  BY <1>6 DEF n
<1>8. ListFrom(l) = [k \in 1..(Len(l) + 1) |-> ListStep(l, ListFrom(l), k)]
  BY <1>7 DEF ListFrom
<1>9. addresses_of(d) = ListFrom(l)[1]
  BY DEF addresses_of, ListFrom, ListStep, OwnEntry, Usable, Both
<1> QED BY <1>8, <1>9

LEMMA Prepended ==
    ASSUME NEW S, NEW x \in S, NEW u \in Seq(S), NEW t, t = <<x>> \o u
    PROVE  /\ t \in Seq(S) /\ Len(t) = Len(u) + 1 /\ Len(u) \in Nat
           /\ t[1] = x
           /\ \A i \in 1..Len(u) : t[i + 1] = u[i]
OBVIOUS

(* A list of entries that stands for the addresses from k on: each entry is *)
(* an address with its mask, and the first IPv4 entry is the first IPv4     *)
(* address.                                                                 *)
StandsFor(t, l, k) ==
    /\ t \in Seq(Entry)
    /\ \A i \in 1..Len(t) : \E n \in k..Len(l) : Usable(l[n]) /\ t[i] = Both(l[n])
    /\ \A n \in k..Len(l) :
         IsIPv4(l[n]) /\ (\A m \in k..(n - 1) : ~IsIPv4(l[m])) =>
           \E i \in 1..Len(t) : /\ t[i].address = l[n].addr.bytes
                                /\ Len(t[i].address) = 4
                                /\ \A j \in 1..(i - 1) : Len(t[j].address) # 4

LEMMA StandsForMore ==
    ASSUME NEW l \in Seq(CardAddresses), NEW k \in 1..Len(l), NEW u, StandsFor(u, l, k + 1)
    PROVE  StandsFor(OwnEntry(l[k]) \o u, l, k)
<1> DEFINE t == OwnEntry(l[k]) \o u
           x == Both(l[k])
<1>1. u \in Seq(Entry) /\ l[k] \in CardAddresses /\ k \in Nat /\ Len(l) \in Nat /\ k <= Len(l)
  BY DEF StandsFor
<1>2. /\ \A i \in 1..Len(u) : \E n \in (k + 1)..Len(l) : Usable(l[n]) /\ u[i] = Both(l[n])
      /\ \A n \in (k + 1)..Len(l) :
           IsIPv4(l[n]) /\ (\A m \in (k + 1)..(n - 1) : ~IsIPv4(l[m])) =>
             \E i \in 1..Len(u) : /\ u[i].address = l[n].addr.bytes
                                  /\ Len(u[i].address) = 4
                                  /\ \A j \in 1..(i - 1) : Len(u[j].address) # 4
  BY DEF StandsFor
<1>3. /\ x \in Entry
      /\ IsIPv4(l[k]) => Usable(l[k]) /\ x.address = l[k].addr.bytes
      /\ Usable(l[k]) => (Len(x.address) = 4 <=> IsIPv4(l[k]))
  BY <1>1, UsableAddress
<1>4. ASSUME NEW n \in k..Len(l), IsIPv4(l[n]), \A m \in k..(n - 1) : ~IsIPv4(l[m]), n # k
      PROVE  /\ ~IsIPv4(l[k])
             /\ \E i \in 1..Len(u) : /\ u[i].address = l[n].addr.bytes
                                     /\ Len(u[i].address) = 4
                                     /\ \A j \in 1..(i - 1) : Len(u[j].address) # 4
  <2>1. n \in (k + 1)..Len(l) /\ \A m \in (k + 1)..(n - 1) : m \in k..(n - 1)
    BY <1>1, <1>4
  <2>2. k \in k..(n - 1)
    BY <1>1, <1>4
  <2> QED BY <1>2, <1>4, <2>1, <2>2
<1>5. CASE ~Usable(l[k])
  <2>1. t = u
    BY <1>1, <1>5 DEF OwnEntry
  <2>2. \A n \in (k + 1)..Len(l) : n \in k..Len(l)
    BY <1>1
  <2>3. ~IsIPv4(l[k])
    BY <1>3, <1>5
  <2>4. \A i \in 1..Len(u) : \E n \in k..Len(l) : Usable(l[n]) /\ u[i] = Both(l[n])
    BY <1>2, <2>2
  <2>5. \A n \in k..Len(l) :
           IsIPv4(l[n]) /\ (\A m \in k..(n - 1) : ~IsIPv4(l[m])) =>
             \E i \in 1..Len(u) : /\ u[i].address = l[n].addr.bytes
                                  /\ Len(u[i].address) = 4
                                  /\ \A j \in 1..(i - 1) : Len(u[j].address) # 4
    BY <1>4, <2>3
  <2>6. StandsFor(u, l, k)
    BY <1>1, <2>4, <2>5, Zenon DEF StandsFor
  <2> QED BY <2>1, <2>6
<1>6. CASE Usable(l[k])
  <2>1. t = <<x>> \o u
    BY <1>6 DEF OwnEntry
  <2> HIDE DEF t, x
  <2>2. /\ t \in Seq(Entry) /\ Len(t) = Len(u) + 1 /\ Len(u) \in Nat /\ t[1] = x
        /\ \A i \in 1..Len(u) : t[i + 1] = u[i]
    BY <1>1, <1>3, <2>1, Prepended
  <2>3. ASSUME NEW i \in 1..Len(t)
        PROVE  \E n \in k..Len(l) : Usable(l[n]) /\ t[i] = Both(l[n])
    <3>1. CASE i = 1
      BY <1>1, <1>6, <2>2, <3>1 DEF x
    <3>2. CASE i # 1
      <4>1. i - 1 \in 1..Len(u) /\ (i - 1) + 1 = i
        BY <2>2, <3>2
      <4>2. PICK n \in (k + 1)..Len(l) : Usable(l[n]) /\ u[i - 1] = Both(l[n])
        BY <1>2, <4>1
      <4>3. n \in k..Len(l) /\ t[i] = u[i - 1]
        BY <1>1, <2>2, <4>1
      <4> QED BY <4>2, <4>3
    <3> QED BY <3>1, <3>2
  <2>4. ASSUME NEW n \in k..Len(l), IsIPv4(l[n]), \A m \in k..(n - 1) : ~IsIPv4(l[m])
        PROVE  \E i \in 1..Len(t) : /\ t[i].address = l[n].addr.bytes
                                    /\ Len(t[i].address) = 4
                                    /\ \A j \in 1..(i - 1) : Len(t[j].address) # 4
    <3>1. CASE n = k
      <4>1. t[1].address = l[n].addr.bytes /\ Len(t[1].address) = 4
        BY <1>3, <1>6, <2>2, <2>4, <3>1
      <4>2. 1 \in 1..Len(t) /\ \A j \in 1..(1 - 1) : Len(t[j].address) # 4
        BY <2>2
      <4> QED BY <4>1, <4>2
    <3>2. CASE n # k
      <4>1. ~IsIPv4(l[k])
        BY <1>4, <2>4, <3>2
      <4>2. PICK i \in 1..Len(u) : /\ u[i].address = l[n].addr.bytes
                                   /\ Len(u[i].address) = 4
                                   /\ \A j \in 1..(i - 1) : Len(u[j].address) # 4
        BY <1>4, <2>4, <3>2
      <4>3. i + 1 \in 1..Len(t) /\ t[i + 1] = u[i]
        BY <2>2
      <4>4. ASSUME NEW j \in 1..((i + 1) - 1) PROVE Len(t[j].address) # 4
        <5>1. CASE j = 1
          BY <1>3, <1>6, <2>2, <4>1, <5>1
        <5>2. CASE j # 1
          <6>1. j - 1 \in 1..(i - 1) /\ j - 1 \in 1..Len(u) /\ (j - 1) + 1 = j
            BY <2>2, <5>2
          <6>2. t[j] = u[j - 1]
            BY <2>2, <6>1
          <6> QED BY <4>2, <6>1, <6>2
        <5> QED BY <5>1, <5>2
      <4> QED BY <4>2, <4>3, <4>4
    <3> QED BY <3>1, <3>2
  <2> QED BY <2>2, <2>3, <2>4, Zenon DEF StandsFor, t
<1> QED BY <1>5, <1>6

LEMMA AddressesStandFor ==
    ASSUME NEW d, d.addresses \in Seq(CardAddresses)
    PROVE  StandsFor(addresses_of(d), d.addresses, 1)
<1> DEFINE l == d.addresses
           n == Len(l) + 1
           S == {k \in 1..n : StandsFor(ListFrom(l)[k], l, k)}
<1>1. n \in Nat /\ Len(l) \in Nat /\ 1 \in 1..n
  OBVIOUS
<1>2. ASSUME NEW k \in 1..n, \A q \in 1..n : q > k => q \in S PROVE k \in S
  <2>1. ListFrom(l)[k] = ListStep(l, ListFrom(l), k)
    BY ListEquation
  <2>2. CASE k > Len(l)
    <3>1. ListFrom(l)[k] = <<>>
      BY <2>1, <2>2 DEF ListStep
    <3>2. StandsFor(<<>>, l, k)
      BY <1>1, <2>2 DEF StandsFor
    <3> QED BY <3>1, <3>2
  <2>3. CASE ~(k > Len(l))
    <3>1. k \in 1..Len(l) /\ k + 1 \in 1..n /\ k + 1 > k
      BY <1>1, <2>3
    <3>2. ListFrom(l)[k] = OwnEntry(l[k]) \o ListFrom(l)[k + 1]
      BY <2>1, <2>3 DEF ListStep
    <3>3. StandsFor(ListFrom(l)[k + 1], l, k + 1)
      BY <1>2, <3>1
    <3> QED BY <3>1, <3>2, <3>3, StandsForMore
  <2> QED BY <2>2, <2>3
<1>3. \A k \in 1..n : k \in S
  <2> HIDE DEF S, n
  <2> QED BY <1>1, <1>2, InductionFromEnd
<1> QED BY <1>1, <1>3, ListEquation

HasIPv4(d) == \E n \in DOMAIN d.addresses : IsIPv4(d.addresses[n])

IsFirstIPv4(d, n) ==
    /\ n \in DOMAIN d.addresses /\ IsIPv4(d.addresses[n])
    /\ \A m \in 1..(n - 1) : ~IsIPv4(d.addresses[m])

LEMMA FirstInet4 ==
    ASSUME NEW d, d.addresses \in Seq(CardAddresses),
           NEW device, device.addresses = addresses_of(d)
    PROVE  /\ Inet4(device) # {} <=> HasIPv4(d)
           /\ Inet4(device) # {} =>
                \E n \in DOMAIN d.addresses :
                  /\ IsFirstIPv4(d, n)
                  /\ device.addresses[Min(Inet4(device))].address = d.addresses[n].addr.bytes
<1> DEFINE l == d.addresses
           t == addresses_of(d)
           I == {i \in 1..Len(t) : Len(t[i].address) = 4}
<1>1. /\ t \in Seq(Entry)
      /\ \A i \in 1..Len(t) : \E n \in 1..Len(l) : Usable(l[n]) /\ t[i] = Both(l[n])
      /\ \A n \in 1..Len(l) :
           IsIPv4(l[n]) /\ (\A m \in 1..(n - 1) : ~IsIPv4(l[m])) =>
             \E i \in 1..Len(t) : /\ t[i].address = l[n].addr.bytes
                                  /\ Len(t[i].address) = 4
                                  /\ \A j \in 1..(i - 1) : Len(t[j].address) # 4
  BY AddressesStandFor DEF StandsFor
<1>2. DOMAIN t = 1..Len(t) /\ Len(t) \in Nat /\ DOMAIN l = 1..Len(l) /\ Len(l) \in Nat
  BY <1>1
<1>3. Inet4(device) = I
  BY <1>2 DEF Inet4
<1> HIDE DEF t
<1>4. ASSUME I # {} PROVE HasIPv4(d)
  <2>1. PICK i \in 1..Len(t) : Len(t[i].address) = 4
    BY <1>4
  <2>2. PICK n \in 1..Len(l) : Usable(l[n]) /\ t[i] = Both(l[n])
    BY <1>1
  <2>3. IsIPv4(l[n])
    <3>1. l[n] \in CardAddresses /\ Len(Both(l[n]).address) = 4
      BY <2>1, <2>2
    <3> QED BY <2>2, <3>1, UsableAddress
  <2> QED BY <1>2, <2>3 DEF HasIPv4
<1>5. ASSUME HasIPv4(d)
      PROVE  \E n \in DOMAIN l : IsFirstIPv4(d, n) /\ I # {} /\ t[Min(I)].address = l[n].addr.bytes
  <2> DEFINE N == {n \in 1..Len(l) : IsIPv4(l[n])}
  <2>1. N # {} /\ N \subseteq Nat
    BY <1>2, <1>5 DEF HasIPv4
  <2>2. PICK n \in N : \A m \in N : n <= m
    <3> HIDE DEF N
    <3> QED BY <2>1, LeastNumber
  <2>3. n \in 1..Len(l) /\ IsIPv4(l[n]) /\ \A m \in 1..(n - 1) : ~IsIPv4(l[m])
    <3>1. ASSUME NEW m \in 1..(n - 1) PROVE ~IsIPv4(l[m])
      <4>1. n \in 1..Len(l) /\ m \in 1..Len(l) /\ m \in Nat /\ n \in Nat /\ ~(n <= m)
        BY <1>2
      <4> QED BY <2>2, <4>1
    <3> QED BY <3>1
  <2>4. PICK i \in 1..Len(t) : /\ t[i].address = l[n].addr.bytes
                               /\ Len(t[i].address) = 4
                               /\ \A j \in 1..(i - 1) : Len(t[j].address) # 4
    BY <1>1, <2>3
  <2>5. i \in I /\ I \subseteq Nat
    BY <1>2, <2>4
  <2>6. Min(I) \in I /\ Min(I) <= i
    <3> HIDE DEF I
    <3> QED BY <2>5, Least
  <2>7. Min(I) = i
    <3> DEFINE m == Min(I)
    <3>1. m \in 1..Len(t) /\ Len(t[m].address) = 4 /\ m <= i
      BY <2>6
    <3> HIDE DEF m
    <3>2. ~(m \in 1..(i - 1))
      BY <2>4, <3>1
    <3>3. m = i
      BY <1>2, <3>1, <3>2
    <3> QED BY <3>3 DEF m
  <2>8. IsFirstIPv4(d, n)
    BY <1>2, <2>3 DEF IsFirstIPv4
  <2>9. n \in DOMAIN l /\ I # {} /\ t[Min(I)].address = l[n].addr.bytes
    <3> HIDE DEF I
    <3> QED BY <1>2, <2>3, <2>4, <2>5, <2>7
  <2> HIDE DEF I, N
  <2> QED BY <2>8, <2>9
<1> HIDE DEF I
<1>6. Inet4(device) # {} <=> HasIPv4(d)
  BY <1>3, <1>4, <1>5
<1>7. ASSUME Inet4(device) # {}
      PROVE  \E n \in DOMAIN d.addresses :
               /\ IsFirstIPv4(d, n)
               /\ device.addresses[Min(Inet4(device))].address = d.addresses[n].addr.bytes
  <2>1. PICK n \in DOMAIN l : IsFirstIPv4(d, n) /\ t[Min(I)].address = l[n].addr.bytes
    BY <1>5, <1>6, <1>7
  <2> QED BY <1>3, <2>1 DEF t
<1> QED BY <1>6, <1>7

(* The link address of the last adapter whose name has the same end.  It is *)
(* that of the adapter of the name itself, or none, if no other has the     *)
(* same end.                                                                *)
IsMacOf(mac, guid, adapters) ==
    IF \E k \in DOMAIN adapters : same_end(adapters[k].guid, guid)
    THEN \E k \in DOMAIN adapters :
           /\ same_end(adapters[k].guid, guid) /\ mac = adapters[k].mac
           /\ \A i \in DOMAIN adapters : same_end(adapters[i].guid, guid) => i <= k
    ELSE mac = NoMac

Unlike(guid, adapters) ==
    \A k \in DOMAIN adapters : same_end(adapters[k].guid, guid) => adapters[k].guid = guid

IsOwnMac(mac, guid, adapters) ==
    IF \E k \in DOMAIN adapters : adapters[k].guid = guid
    THEN \E k \in DOMAIN adapters : adapters[k].guid = guid /\ mac = adapters[k].mac
    ELSE mac = NoMac

LEMMA OwnMac ==
    ASSUME NEW mac, NEW guid, NEW adapters, IsMacOf(mac, guid, adapters), Unlike(guid, adapters)
    PROVE  IsOwnMac(mac, guid, adapters)
<1>1. \A k \in DOMAIN adapters : adapters[k].guid = guid => same_end(adapters[k].guid, guid)
  BY DEF same_end
<1> QED BY <1>1 DEF IsMacOf, Unlike, IsOwnMac

LEMMA LastAdapter ==
    ASSUME NEW A, NEW adapters \in Seq(A), NEW d, NEW j
    PROVE  IsMacOf(mac_of(d, j, adapters), d.guid, adapters)
<1> DEFINE same == {k \in DOMAIN adapters : same_end(adapters[k].guid, d.guid)}
<1>1. mac_of(d, j, adapters) = IF same = {} THEN NoMac ELSE adapters[Max(same)].mac
  BY DEF mac_of
<1>2. same \subseteq 1..Len(adapters) /\ Len(adapters) \in Nat
  OBVIOUS
<1>3. CASE same = {}
  BY <1>1, <1>3 DEF IsMacOf
<1>4. CASE same # {}
  <2>1. Max(same) \in same /\ \A i \in same : i <= Max(same)
    <3> HIDE DEF same
    <3> QED BY <1>2, <1>4, Greatest
  <2> QED BY <1>1, <1>4, <2>1 DEF IsMacOf
<1> QED BY <1>3, <1>4

Cards(G) == [guid : G, addresses : Seq(CardAddresses)]

(* The device main opens stands for the card at j.                          *)
IsDeviceOf(device, alldevs, adapters, j) ==
    /\ device # None
    /\ device.name = alldevs[j].guid
    /\ IsMacOf(device.mac_address, alldevs[j].guid, adapters)
    /\ device.addresses = addresses_of(alldevs[j])

LEMMA DeviceRecord ==
    ASSUME NEW name, NEW mac, NEW list, NEW device,
           device = [name |-> name, mac_address |-> mac, addresses |-> list]
    PROVE  /\ device.name = name /\ device.mac_address = mac /\ device.addresses = list
           /\ device # None
<1>1. DOMAIN device = {"name", "mac_address", "addresses"}
  OBVIOUS
<1>2. DOMAIN None = {}
  BY DEF None
<1>3. device # None
  BY <1>1, <1>2
<1> QED BY <1>3

LEMMA ChosenCard ==
    ASSUME NEW G, NEW alldevs \in Seq(Cards(G)), NEW A, NEW adapters \in Seq(A),
           NEW device, device = chosen(getDeviceList(alldevs, adapters))
    PROVE  \/ device = None /\ \A j \in DOMAIN alldevs : ~HasIPv4(alldevs[j])
           \/ \E j \in DOMAIN alldevs :
                /\ HasIPv4(alldevs[j])
                /\ \A i \in DOMAIN alldevs : HasIPv4(alldevs[i]) => i <= j
                /\ IsDeviceOf(device, alldevs, adapters, j)
<1> DEFINE devices == getDeviceList(alldevs, adapters)
           usable == {j \in DOMAIN devices : Inet4(devices[j]) # {}}
<1>1. device = IF usable = {} THEN None ELSE devices[Max(usable)]
  BY DEF chosen
<1>2. DOMAIN devices = DOMAIN alldevs /\ DOMAIN alldevs = 1..Len(alldevs) /\ Len(alldevs) \in Nat
  BY DEF getDeviceList
<1>3. ASSUME NEW j \in DOMAIN alldevs
      PROVE  devices[j] = [name |-> alldevs[j].guid,
                           mac_address |-> mac_of(alldevs[j], j, adapters),
                           addresses |-> addresses_of(alldevs[j])]
  BY DEF getDeviceList
<1> HIDE DEF devices
<1>4. ASSUME NEW j \in DOMAIN alldevs
      PROVE  /\ devices[j].name = alldevs[j].guid
             /\ devices[j].mac_address = mac_of(alldevs[j], j, adapters)
             /\ devices[j].addresses = addresses_of(alldevs[j])
             /\ devices[j] # None
  <2> DEFINE dev == devices[j]
             name == alldevs[j].guid
             mac == mac_of(alldevs[j], j, adapters)
             list == addresses_of(alldevs[j])
  <2>1. dev = [name |-> name, mac_address |-> mac, addresses |-> list]
    BY <1>3
  <2> HIDE DEF dev, name, mac, list
  <2>2. dev.name = name /\ dev.mac_address = mac /\ dev.addresses = list /\ dev # None
    BY <2>1, DeviceRecord
  <2> QED BY <2>2 DEF dev, name, mac, list
<1>5. ASSUME NEW j \in DOMAIN alldevs
      PROVE  j \in usable <=> HasIPv4(alldevs[j])
  <2>1. alldevs[j].addresses \in Seq(CardAddresses)
    <3>1. alldevs[j] \in Cards(G)
      BY <1>2
    <3> QED BY <3>1 DEF Cards
  <2>2. devices[j].addresses = addresses_of(alldevs[j])
    BY <1>4
  <2>3. Inet4(devices[j]) # {} <=> HasIPv4(alldevs[j])
    BY <2>1, <2>2, FirstInet4
  <2> QED BY <1>2, <2>3
<1>6. usable \subseteq DOMAIN alldevs
  BY <1>2
<1> HIDE DEF usable
<1>7. CASE usable = {}
  BY <1>1, <1>5, <1>7
<1>8. CASE usable # {}
  <2> DEFINE j == Max(usable)
  <2>1. j \in usable /\ \A i \in usable : i <= j
    BY <1>2, <1>6, <1>8, Greatest
  <2>2. device = devices[j]
    BY <1>1, <1>8
  <2> HIDE DEF j
  <2>3. j \in DOMAIN alldevs
    BY <1>6, <2>1
  <2>4. IsMacOf(mac_of(alldevs[j], j, adapters), alldevs[j].guid, adapters)
    BY LastAdapter
  <2>5. IsDeviceOf(device, alldevs, adapters, j)
    BY <1>4, <2>2, <2>3, <2>4 DEF IsDeviceOf
  <2>6. HasIPv4(alldevs[j]) /\ \A i \in DOMAIN alldevs : HasIPv4(alldevs[i]) => i <= j
    BY <1>5, <2>1, <2>3
  <2> QED BY <2>3, <2>5, <2>6
<1> QED BY <1>7, <1>8

(* Whatever cards there are, with whatever addresses, and in whatever order *)
(* libpcap and the IP helper list them: main finds no card only when none   *)
(* has an IPv4 address; otherwise it takes the last one that has, and the   *)
(* stack gets its first IPv4 address and the link address of the last       *)
(* adapter whose name has the same end: of the one of the same name, unless *)
(* that of another differs in the first eight digits of the GUID only.      *)
THEOREM RightCard ==
    ASSUME NEW G, NEW alldevs \in Seq(Cards(G)), NEW A, NEW adapters \in Seq(A),
           NEW device, device = chosen(getDeviceList(alldevs, adapters))
    PROVE  IF \A j \in DOMAIN alldevs : ~HasIPv4(alldevs[j]) THEN device = None
           ELSE \E j \in DOMAIN alldevs :
                  /\ device # None
                  /\ HasIPv4(alldevs[j])
                  /\ \A i \in DOMAIN alldevs : HasIPv4(alldevs[i]) => i <= j
                  /\ initWithOpenDevice(device).device = alldevs[j].guid
                  /\ IsMacOf(initWithOpenDevice(device).macAddress, alldevs[j].guid, adapters)
                  /\ Unlike(alldevs[j].guid, adapters) =>
                       IsOwnMac(initWithOpenDevice(device).macAddress, alldevs[j].guid, adapters)
                  /\ \E n \in DOMAIN alldevs[j].addresses :
                       /\ IsFirstIPv4(alldevs[j], n)
                       /\ initWithOpenDevice(device).ipAddress = alldevs[j].addresses[n].addr.bytes
<1>1. CASE \A j \in DOMAIN alldevs : ~HasIPv4(alldevs[j])
  BY <1>1, ChosenCard
<1>2. CASE ~\A j \in DOMAIN alldevs : ~HasIPv4(alldevs[j])
  <2>1. PICK j \in DOMAIN alldevs :
          /\ HasIPv4(alldevs[j])
          /\ \A i \in DOMAIN alldevs : HasIPv4(alldevs[i]) => i <= j
          /\ IsDeviceOf(device, alldevs, adapters, j)
    BY <1>2, ChosenCard
  <2>2. /\ initWithOpenDevice(device).device = device.name
        /\ initWithOpenDevice(device).macAddress = device.mac_address
        /\ initWithOpenDevice(device).ipAddress = device.addresses[Min(Inet4(device))].address
    BY DEF initWithOpenDevice
  <2>3. alldevs[j].addresses \in Seq(CardAddresses)
    <3>1. alldevs[j] \in Cards(G)
      OBVIOUS
    <3> QED BY <3>1 DEF Cards
  <2>4. PICK n \in DOMAIN alldevs[j].addresses :
          /\ IsFirstIPv4(alldevs[j], n)
          /\ device.addresses[Min(Inet4(device))].address = alldevs[j].addresses[n].addr.bytes
    BY <2>1, <2>3, FirstInet4 DEF IsDeviceOf
  <2>5. /\ device # None /\ initWithOpenDevice(device).device = alldevs[j].guid
        /\ IsMacOf(initWithOpenDevice(device).macAddress, alldevs[j].guid, adapters)
        /\ Unlike(alldevs[j].guid, adapters) =>
             IsOwnMac(initWithOpenDevice(device).macAddress, alldevs[j].guid, adapters)
    BY <2>1, <2>2, OwnMac DEF IsDeviceOf
  <2>6. initWithOpenDevice(device).ipAddress = alldevs[j].addresses[n].addr.bytes
    BY <2>2, <2>4
  <2> QED BY <1>2, <2>1, <2>4, <2>5, <2>6
<1> QED BY <1>1, <1>2

(* The names of the cards of the run.                                       *)
Guids == {Guid(c) : c \in CardIds}

(* The orders in which the cards, or all of them but one, are listed.       *)
LEMMA Orders ==
    /\ SetToSeqs(CardIds) = {f \in [1..3 -> CardIds] : \A i, j \in 1..3 : i # j => f[i] # f[j]}
    /\ SetToSeqs({1, 3}) = {f \in [1..2 -> {1, 3}] : \A i, j \in 1..2 : i # j => f[i] # f[j]}
    /\ SetToSeqs({1, 2}) = {f \in [1..2 -> {1, 2}] : \A i, j \in 1..2 : i # j => f[i] # f[j]}
<1>1. Cardinality(CardIds) = 3
  <2>1. Cardinality(1..3) = IF 1 > 3 THEN 0 ELSE 3 - 1 + 1
    <3>1. 1 \in Int /\ 3 \in Int
      OBVIOUS
    <3> QED BY <3>1, FS_Interval, Zenon
  <2> QED BY <2>1 DEF CardIds
<1>2. Cardinality({1, 3}) = 2
  <2>1. Cardinality({1}) = 1 /\ IsFiniteSet({1})
    BY FS_Singleton
  <2>2. Cardinality({1} \cup {3}) = 2
    BY <2>1, FS_AddElement
  <2>3. {1} \cup {3} = {1, 3}
    OBVIOUS
  <2> QED BY <2>2, <2>3
<1>3. Cardinality({1, 2}) = 2
  <2>1. Cardinality({1}) = 1 /\ IsFiniteSet({1})
    BY FS_Singleton
  <2>2. Cardinality({1} \cup {2}) = 2
    BY <2>1, FS_AddElement
  <2>3. {1} \cup {2} = {1, 2}
    OBVIOUS
  <2> QED BY <2>2, <2>3
<1> QED BY <1>1, <1>2, <1>3 DEF SetToSeqs

LEMMA SomeBytes ==
    ASSUME NEW n \in Nat
    PROVE  Some(n) \in Seq(Byte) /\ Len(Some(n)) = n
<1>1. \A k \in 1..n : (73 * k) % 256 \in Byte
  BY DEF Byte
<1>2. Some(n) \in [1..n -> Byte]
  BY <1>1 DEF Some
<1> QED BY <1>2, FunctionIsSequence

LEMMA AddressOfRun ==
    ASSUME NEW g \in CardIds, NEW family \in {AF_INET, AF_INET6, 6}
    PROVE  /\ CardAddress(g, family) \in CardAddresses
           /\ CardAddress(g, family).addr # None
           /\ CardAddress(g, family).addr.family = family
           /\ Usable(CardAddress(g, family)) =>
                Len(Both(CardAddress(g, family)).address) = Len(Both(CardAddress(g, family)).subnet)
<1> DEFINE bytes == IF family = AF_INET THEN <<192, 168, g, 1>> ELSE Some(16)
           mask == IF family = AF_INET THEN <<255, 255, g, 0>> ELSE Some(16)
           addr == [family |-> family, bytes |-> bytes]
           netmask == [family |-> family, bytes |-> mask]
           a == CardAddress(g, family)
<1>1. a = [addr |-> addr, netmask |-> netmask]
  BY DEF CardAddress
<1>2. family \in Nat /\ AF_INET # AF_INET6
  BY DEF AF_INET, AF_INET6
<1>3. /\ bytes \in Seq(Byte) /\ mask \in Seq(Byte)
      /\ Len(bytes) = IF family = AF_INET THEN 4 ELSE 16
      /\ Len(mask) = IF family = AF_INET THEN 4 ELSE 16
  <2>1. g \in Byte /\ 192 \in Byte /\ 168 \in Byte /\ 255 \in Byte /\ 0 \in Byte /\ 1 \in Byte
    BY DEF CardIds, Byte
  <2>2. Some(16) \in Seq(Byte) /\ Len(Some(16)) = 16
    <3>1. 16 \in Nat
      OBVIOUS
    <3> QED BY <3>1, SomeBytes, Zenon
  <2>3. CASE family = AF_INET
    BY <2>1, <2>3
  <2>4. CASE family # AF_INET
    BY <2>2, <2>4
  <2> QED BY <2>3, <2>4
<1> HIDE DEF bytes, mask
<1>4. addr \in SocketAddress /\ netmask \in SocketAddress
  BY <1>2, <1>3 DEF SocketAddress
<1>5. addr # None
  <2>1. DOMAIN addr = {"family", "bytes"} /\ DOMAIN None = {}
    BY DEF None
  <2> HIDE DEF addr
  <2> QED BY <2>1
<1>6. netmask # None
  <2>1. DOMAIN netmask = {"family", "bytes"} /\ DOMAIN None = {}
    BY DEF None
  <2> HIDE DEF netmask
  <2> QED BY <2>1
<1>7. addr.family = family /\ netmask.family = family /\ addr.bytes = bytes /\ netmask.bytes = mask
  OBVIOUS
<1>8. a.addr = addr /\ a.netmask = netmask
  BY <1>1
<1> HIDE DEF addr, netmask, a
<1>9. a \in CardAddresses
  BY <1>1, <1>4 DEF CardAddresses
<1>10. ASSUME Usable(a) PROVE Len(Both(a).address) = Len(Both(a).subnet)
  <2>1. family \in {AF_INET, AF_INET6}
    BY <1>7, <1>8, <1>10 DEF Usable, getAddressByteArray
  <2>2. getAddressByteArray(a.addr) = bytes /\ getAddressByteArray(a.netmask) = mask
    BY <1>5, <1>6, <1>7, <1>8, <2>1 DEF getAddressByteArray
  <2>3. Both(a).address = bytes /\ Both(a).subnet = mask
    BY <2>2 DEF Both
  <2> QED BY <1>3, <2>3
<1> QED BY <1>5, <1>7, <1>8, <1>9, <1>10 DEF a

(* The cards of the run: their names are different.                         *)
LEMMA CardsOfRun ==
    ASSUME NEW alldevs \in CardLists
    PROVE  /\ alldevs \in Seq(Cards(Guids)) /\ DOMAIN alldevs = 1..3
           /\ \A i, j \in 1..3 : alldevs[i].guid = alldevs[j].guid => i = j
           /\ \A j \in 1..3 : \A n \in DOMAIN alldevs[j].addresses :
                LET a == alldevs[j].addresses[n]
                IN  /\ a.addr # None
                    /\ Usable(a) => Len(Both(a).address) = Len(Both(a).subnet)
<1>1. PICK order \in SetToSeqs(CardIds), families \in [CardIds -> Families] :
        alldevs = [k \in DOMAIN order |->
                     [guid |-> Guid(order[k]),
                      addresses |-> [n \in DOMAIN families[k] |-> CardAddress(order[k], families[k][n])]]]
  BY DEF CardLists
<1>2. /\ order \in [1..3 -> CardIds] /\ DOMAIN order = 1..3
      /\ \A i, j \in 1..3 : i # j => order[i] # order[j]
  BY Orders
<1>3. ASSUME NEW k \in 1..3
      PROVE  families[k] \in Seq({AF_INET, AF_INET6, 6})
  <2>1. families[k] \in Families
    BY DEF CardIds
  <2>2. /\ <<AF_INET6>> \in Seq({AF_INET, AF_INET6, 6}) /\ <<AF_INET>> \in Seq({AF_INET, AF_INET6, 6})
        /\ <<AF_INET6, AF_INET>> \in Seq({AF_INET, AF_INET6, 6})
        /\ <<6, AF_INET>> \in Seq({AF_INET, AF_INET6, 6})
        /\ <<>> \in Seq({AF_INET, AF_INET6, 6})
    OBVIOUS
  <2> QED BY <2>1, <2>2, Zenon DEF Families
<1>4. ASSUME NEW k \in 1..3
      PROVE  /\ alldevs[k].guid = Guid(order[k]) /\ alldevs[k].guid \in Guids
             /\ alldevs[k].addresses \in Seq(CardAddresses)
             /\ alldevs[k] = [guid |-> alldevs[k].guid, addresses |-> alldevs[k].addresses]
             /\ \A n \in DOMAIN alldevs[k].addresses :
                  LET a == alldevs[k].addresses[n]
                  IN  /\ a.addr # None
                      /\ Usable(a) => Len(Both(a).address) = Len(Both(a).subnet)
  <2> DEFINE fam == families[k]
             g == order[k]
             list == [n \in DOMAIN fam |-> CardAddress(g, fam[n])]
  <2>1. alldevs[k] = [guid |-> Guid(g), addresses |-> list]
    BY <1>1, <1>2
  <2>2. fam \in Seq({AF_INET, AF_INET6, 6}) /\ g \in CardIds
    BY <1>2, <1>3
  <2> HIDE DEF fam, g
  <2>3. ASSUME NEW n \in DOMAIN fam
        PROVE  /\ list[n] \in CardAddresses /\ list[n].addr # None
               /\ Usable(list[n]) => Len(Both(list[n]).address) = Len(Both(list[n]).subnet)
    <3>1. fam[n] \in {AF_INET, AF_INET6, 6} /\ list[n] = CardAddress(g, fam[n])
      BY <2>2
    <3> QED BY <2>2, <3>1, AddressOfRun
  <2>4. list \in Seq(CardAddresses) /\ DOMAIN list = DOMAIN fam
    <3>1. DOMAIN fam = 1..Len(fam) /\ Len(fam) \in Nat
      BY <2>2
    <3> QED BY <2>3, <3>1
  <2> HIDE DEF list
  <2>5. alldevs[k].guid = Guid(g) /\ alldevs[k].addresses = list /\ Guid(g) \in Guids
    BY <2>1, <2>2 DEF Guids
  <2> QED BY <2>1, <2>3, <2>4, <2>5 DEF g
<1>5. alldevs \in Seq(Cards(Guids)) /\ DOMAIN alldevs = 1..3
  <2>1. \A k \in 1..3 : alldevs[k] \in Cards(Guids)
    BY <1>2, <1>4 DEF Cards
  <2>2. DOMAIN alldevs = 1..3 /\ alldevs = [k \in DOMAIN alldevs |-> alldevs[k]]
    BY <1>1, <1>2
  <2>3. alldevs \in [1..3 -> Cards(Guids)]
    BY <2>1, <2>2
  <2> QED BY <2>2, <2>3, FunctionIsSequence
<1>6. \A i, j \in 1..3 : alldevs[i].guid = alldevs[j].guid => i = j
  <2>1. \A c, d : Guid(c) = Guid(d) => c = d
    <3>1. \A c : Guid(c).first = c
      BY DEF Guid
    <3> QED BY <3>1
  <2> QED BY <1>2, <1>4, <2>1
<1> QED BY <1>4, <1>5, <1>6

LEMMA ListOfAdapters ==
    ASSUME NEW n \in Nat, NEW order \in [1..n -> CardIds], NEW adapters,
           adapters = [k \in DOMAIN order |->
                         [guid |-> Guid(order[k]), mac |-> <<2, 0, 0, 0, 0, order[k]>>]]
    PROVE  adapters \in Seq([guid : Guids, mac : Seq(Nat)])
<1> DEFINE A == [guid : Guids, mac : Seq(Nat)]
<1>1. DOMAIN adapters = 1..n /\ adapters = [k \in DOMAIN adapters |-> adapters[k]]
  OBVIOUS
<1>2. ASSUME NEW k \in 1..n PROVE adapters[k] \in A
  <2> DEFINE g == order[k]
  <2>1. adapters[k] = [guid |-> Guid(g), mac |-> <<2, 0, 0, 0, 0, g>>] /\ g \in CardIds
    OBVIOUS
  <2> HIDE DEF g
  <2>2. <<2, 0, 0, 0, 0, g>> \in Seq(Nat)
    BY <2>1 DEF CardIds
  <2>3. Guid(g) \in Guids
    BY <2>1 DEF Guids
  <2> QED BY <2>1, <2>2, <2>3
<1>3. adapters \in [1..n -> A]
  <2> HIDE DEF A
  <2> QED BY <1>1, <1>2
<1> QED
  <2> HIDE DEF A
  <2>1. adapters \in Seq(A)
    BY <1>3, FunctionIsSequence
  <2> QED BY <2>1 DEF A

(* The adapters of the run: all of them, or all but one.                    *)
LEMMA AdaptersOfRun ==
    ASSUME NEW adapters \in AdapterLists
    PROVE  adapters \in Seq([guid : Guids, mac : Seq(Nat)])
<1>1. PICK order \in SetToSeqs(CardIds) \cup SetToSeqs({1, 3}) \cup SetToSeqs({1, 2}) :
        adapters = [k \in DOMAIN order |->
                      [guid |-> Guid(order[k]), mac |-> <<2, 0, 0, 0, 0, order[k]>>]]
  BY DEF AdapterLists
<1>2. CASE order \in SetToSeqs(CardIds)
  <2>1. 3 \in Nat /\ order \in [1..3 -> CardIds]
    BY <1>2, Orders
  <2> QED BY <1>1, <2>1, ListOfAdapters, Zenon
<1>3. CASE order \in SetToSeqs({1, 3}) \cup SetToSeqs({1, 2})
  <2>1. order \in [1..2 -> {1, 3}] \/ order \in [1..2 -> {1, 2}]
    BY <1>3, Orders
  <2>2. 2 \in Nat /\ order \in [1..2 -> CardIds]
    BY <2>1 DEF CardIds
  <2> QED BY <1>1, <2>2, ListOfAdapters, Zenon
<1> QED BY <1>1, <1>2, <1>3

LEMMA ElementOf ==
    ASSUME NEW S, NEW s \in Seq(S), NEW i \in DOMAIN s
    PROVE  s[i] \in S
OBVIOUS

(* The card of the run whose name the layer has is the one main chose, so   *)
(* the addresses the stack writes into its packets are those of that card,  *)
(* in whatever order cards and adapters are listed: the link address unless *)
(* another adapter has a name with the same end.                            *)
THEOREM OnItsCard == Spec => []StackIsOnItsCard
<1>1. Init => StackIsOnItsCard
  <2> SUFFICES ASSUME Init, subject = "cards" PROVE StackIsOnItsCard
    BY DEF StackIsOnItsCard
  <2> DEFINE alldevs == content.alldevs
             adapters == content.adapters
             device == chosen(getDeviceList(alldevs, adapters))
             layer == initWithOpenDevice(device)
             card(guid) == CHOOSE k \in DOMAIN alldevs : alldevs[k].guid = guid
  <2>1. alldevs \in CardLists /\ adapters \in AdapterLists
    BY DEF Init, PacketInit
  <2>2. /\ alldevs \in Seq(Cards(Guids)) /\ DOMAIN alldevs = 1..3
        /\ \A i, j \in 1..3 : alldevs[i].guid = alldevs[j].guid => i = j
        /\ \A j \in 1..3 : \A n \in DOMAIN alldevs[j].addresses :
             LET a == alldevs[j].addresses[n]
             IN  /\ a.addr # None
                 /\ Usable(a) => Len(Both(a).address) = Len(Both(a).subnet)
    BY <2>1, CardsOfRun
  <2>3. adapters \in Seq([guid : Guids, mac : Seq(Nat)])
    BY <2>1, AdaptersOfRun
  <2> HIDE DEF alldevs, adapters
  <2>4. \/ device = None /\ \A j \in DOMAIN alldevs : ~HasIPv4(alldevs[j])
        \/ \E j \in DOMAIN alldevs :
             /\ HasIPv4(alldevs[j])
             /\ \A i \in DOMAIN alldevs : HasIPv4(alldevs[i]) => i <= j
             /\ IsDeviceOf(device, alldevs, adapters, j)
    BY <2>2, <2>3, ChosenCard
  <2> HIDE DEF device
  <2>5. CASE device = None /\ \A j \in DOMAIN alldevs : ~HasIPv4(alldevs[j])
    <3>1. ASSUME NEW k \in DOMAIN alldevs, NEW n \in DOMAIN alldevs[k].addresses
          PROVE  alldevs[k].addresses[n].addr.family # AF_INET
      BY <2>2, <2>5 DEF HasIPv4, IsIPv4
    <3> QED BY <2>5, <3>1 DEF StackIsOnItsCard, device, alldevs, adapters
  <2>6. ASSUME NEW j \in DOMAIN alldevs, HasIPv4(alldevs[j]),
               IsDeviceOf(device, alldevs, adapters, j)
        PROVE  StackIsOnItsCard
    <3> DEFINE own == alldevs[card(layer.device)]
    <3>1. /\ layer.device = device.name /\ layer.macAddress = device.mac_address
          /\ layer.ipAddress = device.addresses[Min(Inet4(device))].address
      BY DEF initWithOpenDevice
    <3>2. /\ device # None /\ device.name = alldevs[j].guid
          /\ IsMacOf(device.mac_address, alldevs[j].guid, adapters)
          /\ device.addresses = addresses_of(alldevs[j])
      BY <2>6 DEF IsDeviceOf
    <3> HIDE DEF layer
    <3>3. card(layer.device) = j
      BY <2>2, <3>1, <3>2
    <3>4. own = alldevs[j]
      BY <3>3
    <3> HIDE DEF own
    <3>5. alldevs[j].addresses \in Seq(CardAddresses) /\ alldevs[j].guid \in Guids
      <4>1. alldevs[j] \in Cards(Guids)
        <5>1. alldevs \in Seq(Cards(Guids))
          BY <2>2
        <5> QED BY <5>1, ElementOf
      <4> QED BY <4>1 DEF Cards
    <3>6. \E n \in DOMAIN own.addresses :
            own.addresses[n].addr = [family |-> AF_INET, bytes |-> layer.ipAddress]
      <4>1. PICK n \in DOMAIN alldevs[j].addresses :
              /\ IsFirstIPv4(alldevs[j], n)
              /\ device.addresses[Min(Inet4(device))].address = alldevs[j].addresses[n].addr.bytes
        BY <2>6, <3>2, <3>5, FirstInet4
      <4> DEFINE a == alldevs[j].addresses[n]
      <4>2. a \in CardAddresses /\ a.addr # None /\ a.addr.family = AF_INET
        BY <3>5, <4>1 DEF IsFirstIPv4, IsIPv4
      <4> HIDE DEF a
      <4>3. a.addr = [family |-> a.addr.family, bytes |-> a.addr.bytes]
        BY <4>2 DEF CardAddresses, SocketAddress
      <4>4. a.addr = [family |-> AF_INET, bytes |-> layer.ipAddress]
        BY <3>1, <4>1, <4>2, <4>3 DEF a
      <4> QED BY <3>4, <4>4 DEF a
    <3> DEFINE listed == {k \in DOMAIN adapters : adapters[k].guid = own.guid}
               alike == {k \in DOMAIN adapters : adapters[k].guid.rest = own.guid.rest}
    <3>7. ASSUME alike = listed
          PROVE  IF listed = {} THEN layer.macAddress = NoMac
                 ELSE \E k \in listed : layer.macAddress = adapters[k].mac
      <4>1. Unlike(own.guid, adapters)
        BY <3>7 DEF Unlike, same_end
      <4>2. IsOwnMac(layer.macAddress, own.guid, adapters)
        BY <3>1, <3>2, <3>4, <4>1, OwnMac
      <4> QED BY <4>2 DEF IsOwnMac
    <3> HIDE DEF listed, alike
    <3>8. ASSUME NEW i \in DOMAIN device.addresses
           PROVE  Len(device.addresses[i].address) = Len(device.addresses[i].subnet)
      <4>1. PICK n \in 1..Len(alldevs[j].addresses) :
              /\ Usable(alldevs[j].addresses[n])
              /\ device.addresses[i] = Both(alldevs[j].addresses[n])
        <5>1. StandsFor(device.addresses, alldevs[j].addresses, 1)
          BY <3>2, <3>5, AddressesStandFor
        <5>2. i \in 1..Len(device.addresses)
          BY <5>1 DEF StandsFor
        <5> QED BY <5>1, <5>2 DEF StandsFor
      <4>2. n \in DOMAIN alldevs[j].addresses
        BY <3>5
      <4> QED BY <2>2, <4>1, <4>2
    <3> QED BY <3>2, <3>6, <3>7, <3>8
            DEF StackIsOnItsCard, device, layer, own, alldevs, adapters, listed, alike
  <2> QED BY <2>4, <2>5, <2>6
<1>2. StackIsOnItsCard /\ [Next]_<<subject, content, cut>> => StackIsOnItsCard'
  BY DEF StackIsOnItsCard, Next
<1> QED BY <1>1, <1>2, PTL DEF Spec

-----------------------------------------------------------------------------
(* Checksums on the wire.  The sum of a message is that of its parts, as    *)
(* long as the first has an even number of bytes.                           *)

Even(n) == n % 2 = 0

(* The sum of joined messages, the first of which ends with a whole word.   *)
LEMMA SumJoined ==
    ASSUME NEW x \in Seq(Byte), NEW y \in Seq(Byte), Even(Len(x))
    PROVE  x \o y \in Seq(Byte) /\ Len(x \o y) = Len(x) + Len(y) /\ Sum16(x \o y) = Sum16(x) + Sum16(y)
<1>0. PICK lx \in Nat, ly \in Nat : lx = Len(x) /\ ly = Len(y)
  OBVIOUS
<1> DEFINE z == x \o y
           n == lx + ly + 1
           sx == SumFrom(x)
           sy == SumFrom(y)
           sz == SumFrom(z)
           joined(k) == IF k <= lx THEN sx[k] + sy[1] ELSE sy[k - lx]
           S == {k \in 1..n : sz[k] = joined(k)}
<1>1. /\ z \in Seq(Byte) /\ Len(z) = lx + ly
      /\ \A i \in 1..lx : z[i] = x[i]
      /\ \A i \in 1..ly : z[lx + i] = y[i]
  <2>1. Concatenation(x, y, z)
    BY Joining
  <2> QED BY <1>0, <2>1 DEF Concatenation
<1> HIDE DEF z
<1>2. /\ \A k \in 1..(lx + 1) : sx[k] = SumStep(x, sx, k) /\ sx[k] \in Nat
      /\ \A k \in 1..(ly + 1) : sy[k] = SumStep(y, sy, k) /\ sy[k] \in Nat
      /\ \A k \in 1..n : sz[k] = SumStep(z, sz, k) /\ sz[k] \in Nat
      /\ Sum16(x) = sx[1] /\ Sum16(y) = sy[1] /\ Sum16(z) = sz[1]
  BY <1>0, <1>1, SumEquation, SumRange DEF Positions
<1>3. \A k \in 1..lx : Term(z, k) = Term(x, k)
  BY <1>1 DEF Term
<1>4. \A i \in 1..ly : Term(z, lx + i) = Term(y, i)
  <2> SUFFICES ASSUME NEW i \in 1..ly PROVE Term(z, lx + i) = Term(y, i)
    OBVIOUS
  <2>1. PICK m \in Nat : lx = 2 * m
    BY <1>0 DEF Even
  <2>2. (2 * m + i) % 2 = i % 2
    OBVIOUS
  <2> QED BY <1>1, <2>1, <2>2 DEF Term
<1>5. /\ \A k \in 1..lx : Term(x, k) \in Nat
      /\ \A k \in 1..ly : Term(y, k) \in Nat
  BY <1>0, TermRange
<1> HIDE DEF sx, sy, sz
<1>6. ASSUME NEW k \in 1..n, \A q \in 1..n : q > k => q \in S PROVE k \in S
  <2>1. sz[k] = SumStep(z, sz, k)
    BY <1>2
  <2>2. CASE k > lx + ly
    <3>1. k = lx + ly + 1 /\ k - lx = ly + 1 /\ ~(k <= lx)
      BY <1>1, <2>2
    <3>2. sz[k] = 0
      BY <1>1, <2>1, <2>2 DEF SumStep
    <3>3. sy[ly + 1] = 0
      <4>1. ly + 1 \in 1..(ly + 1) /\ ly + 1 > Len(y)
        BY <1>0
      <4>2. sy[ly + 1] = SumStep(y, sy, ly + 1)
        BY <1>2, <4>1
      <4> QED BY <4>1, <4>2 DEF SumStep
    <3> QED BY <3>1, <3>2, <3>3
  <2>3. CASE ~(k > lx + ly) /\ k > lx
    <3>1. /\ k - lx \in 1..ly /\ k + 1 \in 1..n /\ k + 1 > k
          /\ k + 1 - lx = (k - lx) + 1 /\ lx + (k - lx) = k
          /\ ~(k + 1 <= lx) /\ ~(k <= lx)
      BY <1>1, <2>3
    <3>2. sz[k] = Term(z, k) + sz[k + 1]
      BY <1>1, <2>1, <2>3 DEF SumStep
    <3>3. sz[k + 1] = joined(k + 1)
      BY <1>6, <3>1
    <3>4. sz[k + 1] = sy[(k - lx) + 1]
      BY <3>1, <3>3
    <3>5. Term(z, k) = Term(y, k - lx)
      BY <1>4, <3>1
    <3>6. sy[k - lx] = Term(y, k - lx) + sy[(k - lx) + 1]
      <4>1. k - lx \in 1..(ly + 1) /\ ~(k - lx > ly)
        BY <1>1, <3>1
      <4> QED BY <1>0, <1>2, <4>1 DEF SumStep
    <3> QED BY <3>1, <3>2, <3>4, <3>5, <3>6
  <2>4. CASE k <= lx
    <3>1. k \in 1..lx /\ k + 1 \in 1..n /\ k + 1 > k /\ k \in 1..(lx + 1)
      BY <1>1, <2>4
    <3>2. sz[k] = Term(z, k) + sz[k + 1] /\ sx[k] = Term(x, k) + sx[k + 1]
      BY <1>0, <1>1, <1>2, <2>1, <2>4, <3>1 DEF SumStep
    <3>3. sz[k + 1] = sx[k + 1] + sy[1]
      <4>1. sz[k + 1] = joined(k + 1)
        BY <1>6, <3>1
      <4>2. CASE k + 1 <= lx
        BY <4>1, <4>2
      <4>3. CASE ~(k + 1 <= lx)
        <5>1. k + 1 = lx + 1 /\ k + 1 - lx = 1
          BY <1>1, <2>4, <4>3
        <5>2. sx[lx + 1] = 0
          <6>1. lx + 1 \in 1..(lx + 1) /\ lx + 1 > Len(x)
            BY <1>0
          <6>2. sx[lx + 1] = SumStep(x, sx, lx + 1)
            BY <1>2, <6>1
          <6> QED BY <6>1, <6>2 DEF SumStep
        <5>3. sy[1] \in Nat
          BY <1>1, <1>2
        <5>4. sz[k + 1] = sy[1]
          BY <4>1, <4>3, <5>1
        <5> QED BY <5>1, <5>2, <5>3, <5>4
      <4> QED BY <4>2, <4>3
    <3>4. Term(x, k) \in Nat /\ sx[k + 1] \in Nat /\ sy[1] \in Nat /\ Term(z, k) = Term(x, k)
      BY <1>1, <1>2, <1>3, <1>5, <3>1
    <3>5. sz[k] = sx[k] + sy[1]
      BY <3>2, <3>3, <3>4
    <3> QED BY <2>4, <3>5
  <2> QED BY <1>1, <2>2, <2>3, <2>4
<1>7. n \in Nat /\ 1 \in 1..n
  BY <1>1
<1>8. \A k \in 1..n : k \in S
  <2> HIDE DEF S, n
  <2> QED BY <1>6, <1>7, InductionFromEnd
<1>9. sz[1] = sx[1] + sy[1]
  <2>1. sz[1] = joined(1)
    BY <1>7, <1>8
  <2>2. CASE 1 <= lx
    BY <2>1, <2>2
  <2>3. CASE ~(1 <= lx)
    <3>1. lx = 0 /\ 1 - lx = 1
      BY <1>1, <2>3
    <3>2. sx[1] = 0 /\ sy[1] \in Nat
      BY <1>0, <1>1, <1>2, <3>1 DEF SumStep
    <3> QED BY <2>1, <2>3, <3>1, <3>2
  <2> QED BY <2>2, <2>3
<1> QED BY <1>0, <1>1, <1>2, <1>9 DEF z

LEMMA SumOfWord ==
    ASSUME NEW a \in Byte, NEW b \in Byte
    PROVE  /\ <<a, b>> \in Seq(Byte) /\ Len(<<a, b>>) = 2
           /\ Sum16(<<a, b>>) = 256 * a + b
<1> DEFINE w == <<a, b>>
           s == SumFrom(w)
<1>1. w \in Seq(Byte) /\ Len(w) = 2 /\ w[1] = a /\ w[2] = b
  OBVIOUS
<1> HIDE DEF w
<1>2. /\ \A k \in 1..3 : s[k] = SumStep(w, s, k)
      /\ Sum16(w) = s[1]
  BY <1>1, SumEquation DEF Positions
<1>3. a \in Nat /\ b \in Nat
  BY ByteRange
<1> HIDE DEF s
<1>4. Term(w, 1) = 256 * a /\ Term(w, 2) = b
  BY <1>1, <1>3 DEF Term
<1>5. s[1] = Term(w, 1) + s[2] /\ s[2] = Term(w, 2) + s[3] /\ s[3] = 0
  BY <1>1, <1>2 DEF SumStep
<1> QED BY <1>1, <1>2, <1>3, <1>4, <1>5 DEF w

LEMMA SumOfNothing ==
    ASSUME NEW b \in Seq(Byte), Len(b) = 0
    PROVE  Sum16(b) = 0
<1>1. 1 \in Positions(b) /\ 1 > Len(b)
  BY DEF Positions
<1>2. Sum16(b) = SumStep(b, SumFrom(b), 1)
  BY <1>1, SumEquation
<1> QED BY <1>1, <1>2 DEF SumStep

-----------------------------------------------------------------------------
(* A little-endian host adds up the words of a message with their bytes     *)
(* exchanged: what it gets is, modulo 65535, the sum of the words of the    *)
(* network times 256.                                                       *)

(* What Jpcap adds up of the words of b, as the host reads them.            *)
WordStep(b, sum, k) == IF k >= Len(b) THEN 0 ELSE host16(b, k - 1) + sum[k + 2]
WordsFrom(b) == CHOOSE sum : sum = [k \in Positions(b) |-> WordStep(b, sum, k)]

LEMMA HostWord ==
    ASSUME NEW b \in Seq(Byte), NEW k \in Nat, k >= 1, k < Len(b)
    PROVE  host16(b, k - 1) = b[k] + 256 * b[k + 1] /\ host16(b, k - 1) \in Nat
           /\ b[k] \in Nat /\ b[k + 1] \in Nat /\ b[k] <= 255 /\ b[k + 1] <= 255
<1>1. k \in 1..Len(b) /\ k + 1 \in 1..Len(b) /\ k - 1 + 1 = k
  OBVIOUS
<1>2. b[k] \in Byte /\ b[k + 1] \in Byte
  BY <1>1
<1>3. b[k] \in Nat /\ b[k + 1] \in Nat /\ b[k] <= 255 /\ b[k + 1] <= 255
  BY <1>2, ByteRange, Zenon
<1>4. host16(b, k - 1) = b[k] + 256 * b[k + 1]
  BY <1>1 DEF host16, At
<1> QED BY <1>3, <1>4

LEMMA WordEquation ==
    ASSUME NEW b \in Seq(Byte)
    PROVE  /\ \A k \in Positions(b) : WordsFrom(b)[k] = WordStep(b, WordsFrom(b), k)
           /\ word_sum(b) = WordsFrom(b)[1]
<1> DEFINE n == Len(b) + 1
           F == [1..n -> Nat]
           G == [k \in 1..n |-> [f \in F |-> WordStep(b, f, k)]]
<1>1. n \in Nat /\ 1..n = Positions(b) /\ Len(b) \in Nat
  BY DEF Positions
<1>2. ASSUME NEW k \in 1..n, NEW f \in F PROVE WordStep(b, f, k) \in Nat
  <2>1. CASE k >= Len(b)
    BY <2>1 DEF WordStep
  <2>2. CASE ~(k >= Len(b))
    <3>1. k \in Nat /\ k >= 1 /\ k < Len(b) /\ k + 2 \in 1..n
      BY <1>1, <2>2
    <3>2. host16(b, k - 1) \in Nat /\ f[k + 2] \in Nat
      BY <3>1, HostWord
    <3> QED BY <2>2, <3>2 DEF WordStep
  <2> QED BY <2>1, <2>2
<1>3. G \in [1..n -> [F -> Nat]] /\ \A f \in F, k \in 1..n : G[k][f] = WordStep(b, f, k)
  BY <1>2
<1> HIDE DEF G, n
<1>4. ASSUME NEW k \in 1..n, NEW f \in F, NEW g \in F, \A q \in 1..n : q > k => f[q] = g[q]
      PROVE  G[k][f] = G[k][g]
  <2>1. CASE k >= Len(b)
    BY <1>3, <2>1 DEF WordStep
  <2>2. CASE ~(k >= Len(b))
    <3>1. k + 2 \in 1..n /\ k + 2 > k
      BY <1>1, <2>2 DEF n
    <3> QED BY <1>3, <1>4, <3>1 DEF WordStep
  <2> QED BY <2>1, <2>2
<1>5. HasSolution(n, Nat, G)
  <2>1. Backwards(n, Nat, G)
    BY <1>1, <1>3, <1>4 DEF Backwards
  <2> QED BY <2>1, RecursionFromEnd
<1>6. PICK f \in F : \A k \in 1..n : f[k] = WordStep(b, f, k)
  BY <1>3, <1>5 DEF HasSolution
<1>7. f = [k \in Positions(b) |-> WordStep(b, f, k)]
  BY <1>1, <1>6
<1>8. WordsFrom(b) = [k \in Positions(b) |-> WordStep(b, WordsFrom(b), k)]
  BY <1>7 DEF WordsFrom
<1>9. word_sum(b) = WordsFrom(b)[1]
  BY DEF word_sum, WordsFrom, WordStep, Positions
<1> QED BY <1>8, <1>9

(* A sum s of words as the host reads them stands for a sum t of words in   *)
(* network order: exchanging the bytes multiplies by 256, in one's          *)
(* complement.                                                              *)
OffBy(host, net, q) == 256 * host = net + 65535 * q
Exchanged(host, net) == host \in Nat /\ net \in Nat /\ \E q \in Nat : OffBy(host, net, q)

LEMMA ExchangedBoth ==
    ASSUME NEW s, NEW t, NEW u, NEW v, Exchanged(s, t), Exchanged(u, v)
    PROVE  Exchanged(s + u, t + v)
<1>1. s \in Nat /\ t \in Nat /\ u \in Nat /\ v \in Nat
  BY DEF Exchanged
<1>2. PICK q \in Nat : OffBy(s, t, q)
  BY DEF Exchanged
<1>3. PICK r \in Nat : OffBy(u, v, r)
  BY DEF Exchanged
<1>4. q + r \in Nat /\ OffBy(s + u, t + v, q + r)
  BY <1>1, <1>2, <1>3 DEF OffBy
<1>5. s + u \in Nat /\ t + v \in Nat
  BY <1>1
<1> QED BY <1>4, <1>5 DEF Exchanged

LEMMA ExchangedWord ==
    ASSUME NEW a \in Nat, NEW b \in Nat
    PROVE  Exchanged(a + 256 * b, 256 * a + b)
<1>1. OffBy(a + 256 * b, 256 * a + b, b)
  BY DEF OffBy
<1> QED BY <1>1 DEF Exchanged

(* An odd byte at the end counts for itself.                                *)
OddByte(b) == IF Len(b) % 2 = 1 THEN b[Len(b)] ELSE 0

WordsBelow(sum, n) == sum \in Nat /\ sum <= 65535 * n

LEMMA SumsExchanged ==
    ASSUME NEW b \in Seq(Byte)
    PROVE  /\ Exchanged(word_sum(b) + OddByte(b), Sum16(b))
           /\ WordsBelow(word_sum(b), Len(b)) /\ OddByte(b) \in Byte
<1>0. PICK l \in Nat : l = Len(b)
  OBVIOUS
<1> DEFINE n == l + 1
           s == SumFrom(b)
           w == WordsFrom(b)
           odd == OddByte(b)
           Good(k) == /\ w[k] \in Nat
                      /\ w[k] <= 65535 * (n - k)
                      /\ k % 2 = 1 => Exchanged(w[k] + odd, s[k])
           S == {k \in 1..n : Good(k)}
<1>1. n \in Nat /\ 1..n = Positions(b) /\ 1 \in 1..n
  BY <1>0 DEF Positions
<1>2. /\ \A k \in 1..n : s[k] = SumStep(b, s, k) /\ s[k] \in Nat
      /\ \A k \in 1..n : w[k] = WordStep(b, w, k)
      /\ Sum16(b) = s[1] /\ word_sum(b) = w[1]
  BY <1>1, SumEquation, SumRange, WordEquation
<1>3. odd \in Byte /\ odd \in Nat
  <2>1. CASE l % 2 = 1
    <3>1. l \in 1..Len(b) /\ odd = b[l]
      BY <1>0, <2>1 DEF OddByte
    <3>2. odd \in Byte
      BY <3>1
    <3> QED BY <3>2, ByteRange
  <2>2. CASE ~(l % 2 = 1)
    BY <1>0, <2>2 DEF OddByte, Byte
  <2> QED BY <2>1, <2>2
<1>4. (l % 2 = 1 => odd = b[l]) /\ (l % 2 # 1 => odd = 0)
  BY <1>0 DEF OddByte
<1> HIDE DEF s, w, odd
<1>5. ASSUME NEW k \in 1..n, \A q \in 1..n : q > k => q \in S PROVE k \in S
  <2>1. s[k] = SumStep(b, s, k) /\ w[k] = WordStep(b, w, k)
    BY <1>2
  <2>2. CASE k = l + 1
    <3>1. s[k] = 0 /\ w[k] = 0
      <4>1. k > Len(b) /\ k >= Len(b)
        BY <1>0, <2>2
      <4> QED BY <2>1, <4>1 DEF SumStep, WordStep
    <3>2. k % 2 = 1 => odd = 0
      <4>1. (l + 1) % 2 = 1 => l % 2 # 1
        OBVIOUS
      <4> QED BY <1>4, <2>2, <4>1
    <3>3. k % 2 = 1 => Exchanged(w[k] + odd, s[k])
      <4>1. Exchanged(0 + 256 * 0, 256 * 0 + 0)
        BY ExchangedWord
      <4>2. Exchanged(0, 0)
        BY <4>1
      <4>3. 0 + 0 = 0
        OBVIOUS
      <4> QED BY <3>1, <3>2, <4>2, <4>3
    <3> QED BY <2>2, <3>1, <3>3
  <2>3. CASE k = l
    <3>1. k \in 1..Len(b) /\ k + 1 \in 1..n
      BY <1>0, <2>3
    <3>2. w[k] = 0
      BY <1>0, <2>1, <2>3 DEF WordStep
    <3>3. s[k] = Term(b, k)
      <4>1. s[k] = Term(b, k) + s[k + 1]
        BY <1>0, <2>1, <2>3, <3>1 DEF SumStep
      <4>2. s[k + 1] = 0
        <5>1. s[k + 1] = SumStep(b, s, k + 1)
          BY <1>2, <3>1
        <5>2. k + 1 > Len(b)
          BY <1>0, <2>3
        <5> QED BY <5>1, <5>2 DEF SumStep
      <4>3. Term(b, k) \in Nat
        BY <3>1, TermRange
      <4> QED BY <4>1, <4>2, <4>3
    <3>4. k % 2 = 1 => Exchanged(w[k] + odd, s[k])
      <4> SUFFICES ASSUME k % 2 = 1 PROVE Exchanged(w[k] + odd, s[k])
        OBVIOUS
      <4>1. odd = b[k] /\ s[k] = 256 * odd
        BY <1>3, <1>4, <2>3, <3>3 DEF Term
      <4>2. Exchanged(odd + 256 * 0, 256 * odd + 0)
        <5>1. 0 \in Nat
          OBVIOUS
        <5> QED BY <1>3, <5>1, ExchangedWord, Zenon
      <4>3. w[k] + odd = odd + 256 * 0 /\ s[k] = 256 * odd + 0
        BY <1>3, <3>2, <4>1
      <4> QED BY <4>2, <4>3
    <3> QED BY <2>3, <3>2, <3>4
  <2>4. CASE k < l
    <3>1. /\ k \in Nat /\ k >= 1 /\ k < Len(b) /\ k \in 1..Len(b) /\ k + 1 \in 1..Len(b)
          /\ k + 1 \in 1..n /\ k + 2 \in 1..n /\ k + 2 > k
      BY <1>0, <2>4
    <3> DEFINE x == b[k]
               y == b[k + 1]
    <3>2. host16(b, k - 1) = x + 256 * y /\ x \in Nat /\ y \in Nat /\ x <= 255 /\ y <= 255
      BY <3>1, HostWord
    <3>3. w[k] = (x + 256 * y) + w[k + 2]
      BY <2>1, <3>1, <3>2 DEF WordStep
    <3>4. s[k] = Term(b, k) + (Term(b, k + 1) + s[k + 2])
      <4>1. s[k] = Term(b, k) + s[k + 1]
        BY <2>1, <3>1 DEF SumStep
      <4>2. s[k + 1] = SumStep(b, s, k + 1)
        BY <1>2, <3>1
      <4>3. k + 1 + 1 = k + 2 /\ ~(k + 1 > Len(b))
        BY <3>1
      <4> QED BY <4>1, <4>2, <4>3 DEF SumStep
    <3>5. Good(k + 2)
      BY <1>5, <3>1
    <3> DEFINE v == w[k + 2]
               u == s[k + 2]
    <3>6. u \in Nat /\ v \in Nat /\ v <= 65535 * (n - (k + 2))
      BY <1>2, <3>1, <3>5
    <3>7. k % 2 = 1 => Exchanged(w[k] + odd, s[k])
      <4> SUFFICES ASSUME k % 2 = 1 PROVE Exchanged(w[k] + odd, s[k])
        OBVIOUS
      <4>1. (k + 1) % 2 = 0 /\ (k + 2) % 2 = 1
        BY <3>1
      <4>2. Term(b, k) = x * 256 /\ Term(b, k + 1) = y
        BY <4>1 DEF Term
      <4>3. Exchanged(v + odd, u)
        BY <3>5, <4>1
      <4> HIDE DEF v, u, x, y
      <4>4. Exchanged(x + 256 * y, 256 * x + y)
        BY <3>2, ExchangedWord
      <4>5. Exchanged((x + 256 * y) + (v + odd), (256 * x + y) + u)
        BY <4>3, <4>4, ExchangedBoth
      <4>6. w[k] + odd = (x + 256 * y) + (v + odd)
        <5>1. w[k] = (x + 256 * y) + v
          BY <3>3 DEF v, x, y
        <5> QED BY <1>3, <3>2, <3>6, <5>1
      <4>7. s[k] = (256 * x + y) + u
        <5>1. s[k] = Term(b, k) + (Term(b, k + 1) + u)
          BY <3>4 DEF u
        <5> QED BY <3>2, <3>6, <4>2, <5>1
      <4> QED BY <4>5, <4>6, <4>7
    <3>8. w[k] \in Nat /\ w[k] <= 65535 * (n - k)
      <4>1. w[k] = (x + 256 * y) + v
        BY <3>3
      <4> HIDE DEF v, u, x, y
      <4>2. w[k] \in Nat /\ w[k] <= 65535 + v
        BY <3>2, <3>6, <4>1
      <4>3. 65535 + 65535 * (n - (k + 2)) <= 65535 * (n - k)
        BY <1>1
      <4> QED BY <1>1, <3>6, <4>2, <4>3
    <3> QED BY <3>7, <3>8
  <2> QED BY <2>2, <2>3, <2>4
<1>6. \A k \in 1..n : k \in S
  <2> HIDE DEF S, n
  <2> QED BY <1>1, <1>5, InductionFromEnd
<1>7. Good(1)
  BY <1>1, <1>6
<1>8. WordsBelow(w[1], l)
  BY <1>7 DEF WordsBelow
<1>9. Exchanged(w[1] + odd, s[1]) /\ w[1] \in Nat
  BY <1>7
<1> QED BY <1>0, <1>2, <1>3, <1>8, <1>9 DEF odd

-----------------------------------------------------------------------------
(* Folded twice, complemented and stored in the order of the host, the sum  *)
(* is the word that makes the message add up to 0.                          *)

LEMMA FoldedTwice ==
    ASSUME NEW s \in Nat, s < 65536 * 65536
    PROVE  \E f, r \in Nat : f < 65536 /\ fold_sum(s) = 65535 - f /\ s = f + 65535 * r
<1>1. PICK h \in Nat, l \in Nat : h < 65536 /\ l < 65536 /\ s = Halves(h, l)
  BY HalvesOf
<1>2. Carry(s) = l + h
  BY <1>1, CarryOf
<1>3. PICK g \in Nat, k \in Nat : g < 65536 /\ k < 65536 /\ l + h = Halves(g, k)
  <2>1. l + h \in Nat /\ l + h < 65536 * 65536
    BY <1>1
  <2> QED BY <2>1, HalvesOf
<1>4. g <= 1 /\ (g = 1 => k <= 65534)
  BY <1>1, <1>3 DEF Halves
<1>5. g + k \in Nat /\ g + k < 65536 /\ (g + k) % 65536 = g + k
  BY <1>3, <1>4
<1>6. Halves(g, k) \div 65536 = g /\ Halves(g, k) % 65536 = k
  <2>1. Halves(g, k) \div 65536 = g
    BY <1>3 DEF Halves
  <2> QED BY <1>3, <2>1, CarryOf
<1>7. fold_sum(s) = 65535 - (g + k)
  <2>1. fold_sum(s) = 65535 - (((Carry(s) \div 65536) + (Carry(s) % 65536)) % 65536)
    BY DEF fold_sum, Carry
  <2> QED BY <1>2, <1>3, <1>5, <1>6, <2>1
<1> DEFINE f == g + k
           r == h + g
<1>8. r \in Nat /\ s = f + 65535 * r
  BY <1>1, <1>3 DEF Halves
<1>9. f \in Nat /\ f < 65536 /\ fold_sum(s) = 65535 - f
  BY <1>5, <1>7
<1> HIDE DEF f, r
<1> QED BY <1>8, <1>9

LEMMA Multiple ==
    ASSUME NEW n \in Nat, NEW k \in Int, n = 65535 * k
    PROVE  n % 65535 = 0
OBVIOUS

LEMMA HostBytes ==
    ASSUME NEW c \in Nat, c < 65536
    PROVE  \E x, y \in Byte : host_bytes(c) = <<x, y>> /\ c = 256 * y + x
<1> DEFINE x == c % 256
           y == (c % 65536) \div 256
<1>1. c % 65536 = c
  OBVIOUS
<1>2. x \in Byte /\ y \in Byte /\ c = 256 * y + x
  BY <1>1 DEF Byte
<1>3. host_bytes(c) = <<x, y>>
  BY DEF host_bytes
<1> QED BY <1>2, <1>3

(* The complement of a sum, stored as the host stores it, fills it up in    *)
(* network order.                                                           *)
Fills(word, net) ==
    \E x, y \in Byte : /\ word = <<x, y>>
                       /\ (net + (256 * x + y)) % 65535 = 0

TwoWords(sum) == sum < 65536 * 65536

LEMMA ComplementFills ==
    ASSUME NEW s, NEW t, Exchanged(s, t), TwoWords(s)
    PROVE  /\ Fills(host_bytes(fold_sum(s)), t)
           /\ fold_sum(s) = 0 => Fills(<<255, 255>>, t)
<1>1. s \in Nat /\ t \in Nat /\ s < 65536 * 65536
  BY DEF Exchanged, TwoWords
<1>2. PICK q \in Nat : OffBy(s, t, q)
  BY DEF Exchanged
<1>3. PICK f \in Nat, r \in Nat : f < 65536 /\ fold_sum(s) = 65535 - f /\ s = f + 65535 * r
  BY <1>1, FoldedTwice
<1> DEFINE c == 65535 - f
<1>4. c \in Nat /\ c < 65536
  BY <1>3
<1>5. PICK x \in Byte, y \in Byte : host_bytes(c) = <<x, y>> /\ c = 256 * y + x
  <2> HIDE DEF c
  <2> QED BY <1>4, HostBytes
<1>6. x \in Nat /\ y \in Nat /\ x <= 255 /\ y <= 255
  <2>1. x \in Byte /\ y \in Byte
    BY <1>5
  <2> QED BY <2>1, ByteRange
<1>7. t + (256 * x + y) = 65535 * (256 + 256 * r - q - y)
  <2>1. 256 * s = t + 65535 * q
    BY <1>2 DEF OffBy
  <2>2. 256 * x + y = 256 * c - 65535 * y
    BY <1>5, <1>6
  <2>3. 256 * s + 256 * c = 65535 * (256 + 256 * r)
    BY <1>3, <1>4
  <2> QED BY <1>1, <1>4, <1>6, <2>1, <2>2, <2>3
<1>8. (t + (256 * x + y)) % 65535 = 0
  <2>1. t + (256 * x + y) \in Nat /\ 256 + 256 * r - q - y \in Int
    BY <1>1, <1>6
  <2> QED BY <1>7, <2>1, Multiple
<1>9. Fills(host_bytes(c), t)
  BY <1>5, <1>8 DEF Fills
<1>10. ASSUME c = 0 PROVE Fills(<<255, 255>>, t)
  <2>1. x = 0 /\ y = 0
    BY <1>5, <1>6, <1>10
  <2>2. t = 65535 * (256 + 256 * r - q - y)
    BY <1>1, <1>7, <2>1
  <2>3. t + (256 * 255 + 255) = 65535 * (257 + 256 * r - q - y)
    BY <1>1, <1>6, <2>2
  <2>4. (t + (256 * 255 + 255)) % 65535 = 0
    <3>1. t + (256 * 255 + 255) \in Nat /\ 257 + 256 * r - q - y \in Int
      BY <1>1, <1>6
    <3> QED BY <2>3, <3>1, Multiple
  <2>5. 255 \in Byte
    BY DEF Byte
  <2> QED BY <2>4, <2>5 DEF Fills
<1> QED BY <1>3, <1>4, <1>9, <1>10

-----------------------------------------------------------------------------
(* A message with its checksum between two parts of it.                     *)

LEMMA SumBetween ==
    ASSUME NEW a \in Seq(Byte), NEW b \in Seq(Byte), NEW x \in Byte, NEW y \in Byte,
           Even(Len(a))
    PROVE  /\ a \o <<x, y>> \o b \in Seq(Byte)
           /\ Len(a \o <<x, y>> \o b) = Len(a) + 2 + Len(b)
           /\ Sum16(a \o <<x, y>> \o b) = (Sum16(a) + Sum16(b)) + (256 * x + y)
<1> DEFINE w == <<x, y>>
<1>1. w \in Seq(Byte) /\ Len(w) = 2 /\ Sum16(w) = 256 * x + y
  BY SumOfWord
<1> HIDE DEF w
<1>2. a \o w \in Seq(Byte) /\ Len(a \o w) = Len(a) + 2 /\ Sum16(a \o w) = Sum16(a) + (256 * x + y)
  <2>1. /\ a \o w \in Seq(Byte) /\ Len(a \o w) = Len(a) + Len(w)
        /\ Sum16(a \o w) = Sum16(a) + Sum16(w)
    BY <1>1, SumJoined, Zenon
  <2> QED BY <1>1, <2>1, Zenon
<1>3. Even(Len(a \o w))
  <2>1. PICK m \in Nat : m = Len(a)
    OBVIOUS
  <2>2. m % 2 = 0 => (m + 2) % 2 = 0
    OBVIOUS
  <2>3. Even(m + 2)
    BY <2>1, <2>2 DEF Even
  <2> QED BY <1>2, <2>1, <2>3
<1> DEFINE f == a \o w
<1>4. /\ f \o b \in Seq(Byte) /\ Len(f \o b) = Len(f) + Len(b)
      /\ Sum16(f \o b) = Sum16(f) + Sum16(b)
  <2> HIDE DEF f
  <2>1. f \in Seq(Byte) /\ Even(Len(f))
    BY <1>2, <1>3 DEF f
  <2> QED BY <2>1, SumJoined
<1>5. Sum16(a) \in Nat /\ Sum16(b) \in Nat /\ x \in Nat /\ y \in Nat /\ Len(a) \in Nat /\ Len(b) \in Nat
  <2>1. Sum16(a) \in Nat /\ Sum16(b) \in Nat
    BY SumRange
  <2>2. x \in Nat /\ y \in Nat
    BY ByteRange
  <2> QED BY <2>1, <2>2
<1>6. Sum16(f) + Sum16(b) = (Sum16(a) + Sum16(b)) + (256 * x + y)
  <2>1. Sum16(f) = Sum16(a) + (256 * x + y)
    BY <1>2
  <2> HIDE DEF f
  <2> QED BY <1>5, <2>1
<1> QED BY <1>2, <1>4, <1>6 DEF w, f

(* Of the sum over a message whose checksum is still zero.                  *)
LEMMA SumWithout ==
    ASSUME NEW a \in Seq(Byte), NEW b \in Seq(Byte), Even(Len(a))
    PROVE  /\ a \o <<0, 0>> \o b \in Seq(Byte)
           /\ Len(a \o <<0, 0>> \o b) = Len(a) + 2 + Len(b)
           /\ Sum16(a \o <<0, 0>> \o b) = Sum16(a) + Sum16(b)
<1>1. PICK z \in Byte : z = 0
  BY DEF Byte
<1>2. /\ a \o <<z, z>> \o b \in Seq(Byte)
      /\ Len(a \o <<z, z>> \o b) = Len(a) + 2 + Len(b)
      /\ Sum16(a \o <<z, z>> \o b) = (Sum16(a) + Sum16(b)) + (256 * z + z)
  BY <1>1, SumBetween
<1>3. Sum16(a) \in Nat /\ Sum16(b) \in Nat
  BY SumRange
<1>4. (Sum16(a) + Sum16(b)) + (256 * z + z) = Sum16(a) + Sum16(b)
  BY <1>1, <1>3
<1> QED BY <1>1, <1>2, <1>4

-----------------------------------------------------------------------------
(* What in_cksum and in_cksum2 yield, over a message and over a pseudo      *)
(* header and a message.                                                    *)

(* What is behind an IP header has at most 65515 bytes.                      *)
MessageLength(n) == n \in Nat /\ n <= 65515

(* What is between the parts of a message makes its words, and those of the *)
(* pseudo header before it, add up.                                         *)
LEMMA FilledAddsUp ==
    ASSUME NEW a \in Seq(Byte), NEW b \in Seq(Byte), Even(Len(a)),
           NEW w, Fills(w, Sum16(a) + Sum16(b))
    PROVE  /\ a \o w \o b \in Seq(Byte)
           /\ Len(a \o w \o b) = Len(a) + 2 + Len(b)
           /\ AddsUp(a \o w \o b)
<1>1. PICK x \in Byte, y \in Byte :
        w = <<x, y>> /\ (Sum16(a) + Sum16(b) + (256 * x + y)) % 65535 = 0
  BY DEF Fills
<1>2. /\ a \o <<x, y>> \o b \in Seq(Byte)
      /\ Len(a \o <<x, y>> \o b) = Len(a) + 2 + Len(b)
      /\ Sum16(a \o <<x, y>> \o b) = (Sum16(a) + Sum16(b)) + (256 * x + y)
  BY SumBetween
<1>3. AddsUp(a \o <<x, y>> \o b)
  BY <1>1, <1>2 DEF AddsUp
<1> QED BY <1>1, <1>2, <1>3

LEMMA FilledBehindAddsUp ==
    ASSUME NEW p \in Seq(Byte), NEW a \in Seq(Byte), NEW b \in Seq(Byte),
           Even(Len(p)), Even(Len(a)),
           NEW w, Fills(w, Sum16(p) + (Sum16(a) + Sum16(b)))
    PROVE  /\ a \o w \o b \in Seq(Byte)
           /\ Len(a \o w \o b) = Len(a) + 2 + Len(b)
           /\ AddsUp(p \o (a \o w \o b))
<1>1. PICK x \in Byte, y \in Byte :
        w = <<x, y>> /\ (Sum16(p) + (Sum16(a) + Sum16(b)) + (256 * x + y)) % 65535 = 0
  BY DEF Fills
<1> DEFINE m == a \o <<x, y>> \o b
<1>2. /\ m \in Seq(Byte) /\ Len(m) = Len(a) + 2 + Len(b)
      /\ Sum16(m) = (Sum16(a) + Sum16(b)) + (256 * x + y)
  BY SumBetween
<1> HIDE DEF m
<1>3. Sum16(p \o m) = Sum16(p) + Sum16(m)
  BY <1>2, SumJoined
<1>4. Sum16(p \o m) = Sum16(p) + (Sum16(a) + Sum16(b)) + (256 * x + y)
  <2>1. Sum16(p) \in Nat /\ Sum16(a) \in Nat /\ Sum16(b) \in Nat
    BY SumRange
  <2>2. x \in Nat /\ y \in Nat
    BY ByteRange
  <2> QED BY <1>2, <1>3, <2>1, <2>2
<1>5. AddsUp(p \o m)
  BY <1>1, <1>4 DEF AddsUp
<1> QED BY <1>1, <1>2, <1>5 DEF m

LEMMA Parity ==
    ASSUME NEW i \in Nat, NEW j \in Nat, Even(i), Even(j)
    PROVE  Even(i + j) /\ Even(i + 2 + j)
BY DEF Even

(* The checksum of IP headers and ICMP messages.                            *)
LEMMA ChecksumFills ==
    ASSUME NEW a \in Seq(Byte), NEW b \in Seq(Byte), NEW junk,
           Even(Len(a)), Even(Len(b)), MessageLength(Len(a) + 2 + Len(b))
    PROVE  Fills(host_bytes(in_cksum(a \o <<0, 0>> \o b, junk)), Sum16(a) + Sum16(b))
<1> DEFINE z == a \o <<0, 0>> \o b
<1>1. z \in Seq(Byte) /\ Len(z) = Len(a) + 2 + Len(b) /\ Sum16(z) = Sum16(a) + Sum16(b)
  BY SumWithout
<1> HIDE DEF z
<1>2. PICK i \in Nat, j \in Nat : i = Len(a) /\ j = Len(b)
  OBVIOUS
<1>3. Even(Len(z)) /\ MessageLength(Len(z))
  BY <1>1, <1>2, Parity
<1>4. in_cksum(z, junk) = fold_sum(word_sum(z) + 0) /\ OddByte(z) = 0
  BY <1>3 DEF in_cksum, OddByte, Even
<1>5. Exchanged(word_sum(z) + 0, Sum16(z)) /\ WordsBelow(word_sum(z), Len(z))
  BY <1>1, <1>4, SumsExchanged
<1>6. TwoWords(word_sum(z) + 0)
  <2>1. PICK n \in Nat : n = Len(z)
    BY <1>1
  <2> QED BY <1>3, <1>5, <2>1 DEF TwoWords, WordsBelow, MessageLength
<1>7. Fills(host_bytes(fold_sum(word_sum(z) + 0)), Sum16(z))
  BY <1>5, <1>6, ComplementFills
<1> QED BY <1>1, <1>4, <1>7 DEF z

LEMMA Htons ==
    ASSUME NEW n \in Int
    PROVE  /\ htons(n) \in Seq(Byte) /\ Len(htons(n)) = 2
           /\ htons(n)[1] \in Byte /\ htons(n)[2] \in Byte
           /\ 256 * htons(n)[1] + htons(n)[2] = n % 65536
           /\ htons(n) = <<htons(n)[1], htons(n)[2]>>
           /\ Sum16(htons(n)) = n % 65536
<1> DEFINE x == (n % 65536) \div 256
           y == n % 256
<1>1. htons(n) = <<x, y>>
  BY DEF htons
<1>2. x \in Byte /\ y \in Byte /\ 256 * x + y = n % 65536
  <2>1. n % 65536 \in Nat /\ n % 65536 < 65536 /\ (n % 65536) % 256 = n % 256
    OBVIOUS
  <2> DEFINE m == n % 65536
  <2>2. m \in Nat /\ m < 65536 /\ x = m \div 256 /\ y = m % 256
    BY <2>1
  <2> HIDE DEF m, x, y
  <2> QED BY <2>2 DEF Byte, m
<1> HIDE DEF x, y
<1>3. Sum16(<<x, y>>) = 256 * x + y
  BY <1>2, SumOfWord
<1> QED BY <1>1, <1>2, <1>3

LEMMA SwapExchanges ==
    ASSUME NEW n, MessageLength(n)
    PROVE  Exchanged(swap(n), n) /\ WordsBelow(swap(n), 1)
<1>0. n \in Nat /\ n <= 65515
  BY DEF MessageLength
<1> DEFINE x == n \div 256
           y == n % 256
<1>1. x \in Nat /\ y \in Nat /\ x < 256 /\ y < 256 /\ n = 256 * x + y
  BY <1>0
<1>2. n % 65536 = n
  BY <1>0
<1>3. swap(n) = x + 256 * y
  BY <1>1, <1>2 DEF swap
<1> HIDE DEF x, y
<1>4. Exchanged(x + 256 * y, 256 * x + y)
  BY <1>1, ExchangedWord
<1>5. WordsBelow(x + 256 * y, 1)
  BY <1>1 DEF WordsBelow
<1> QED BY <1>1, <1>3, <1>4, <1>5

(* The pseudo header of a message of n bytes behind an IP header.           *)
PseudoOf(iph, n) == Bytes(iph, 12, 8) \o <<0, iph[10]>> \o htons(n)

LEMMA PseudoSum ==
    ASSUME NEW iph \in Seq(Byte), Len(iph) >= 20, NEW n, MessageLength(n)
    PROVE  /\ PseudoOf(iph, n) \in Seq(Byte) /\ Len(PseudoOf(iph, n)) = 12
           /\ Sum16(PseudoOf(iph, n)) = Sum16(Bytes(iph, 12, 8)) + iph[10] + n
           /\ Bytes(iph, 12, 8) \in Seq(Byte) /\ Len(Bytes(iph, 12, 8)) = 8
           /\ iph[10] \in Byte
<1> DEFINE a == Bytes(iph, 12, 8)
           p == iph[10]
           l == htons(n)
<1>1. a \in Seq(Byte) /\ Len(a) = 8
  <2>1. Bytes(iph, 12, 8) = SubSeq(iph, 13, 20)
    BY DEF Bytes
  <2>2. SubSeq(iph, 13, 20) \in Seq(Byte) /\ Len(SubSeq(iph, 13, 20)) = 8
    OBVIOUS
  <2> QED BY <2>1, <2>2, Zenon
<1>2. p \in Byte
  OBVIOUS
<1>3. l \in Seq(Byte) /\ Len(l) = 2 /\ Sum16(l) = n /\ n \in Nat
  <2>1. n \in Nat /\ n % 65536 = n
    BY DEF MessageLength
  <2> QED BY <2>1, Htons
<1>4. PseudoOf(iph, n) = a \o <<0, p>> \o l
  BY DEF PseudoOf
<1> HIDE DEF a, p, l
<1>5. PICK z \in Byte : z = 0
  BY DEF Byte
<1>6. /\ a \o <<z, p>> \o l \in Seq(Byte)
      /\ Len(a \o <<z, p>> \o l) = Len(a) + 2 + Len(l)
      /\ Sum16(a \o <<z, p>> \o l) = (Sum16(a) + Sum16(l)) + (256 * z + p)
  <2>1. Even(Len(a))
    BY <1>1 DEF Even
  <2>2. z \in Byte
    BY <1>5
  <2>3. a \in Seq(Byte) /\ l \in Seq(Byte)
    BY <1>1, <1>3
  <2> QED BY <1>2, <2>1, <2>2, <2>3, SumBetween
<1>7. Sum16(a) \in Nat /\ p \in Nat
  BY <1>1, <1>2, SumRange, ByteRange
<1>8. (Sum16(a) + Sum16(l)) + (256 * z + p) = Sum16(a) + p + n
  BY <1>3, <1>5, <1>7
<1>9. Len(a) + 2 + Len(l) = 12
  BY <1>1, <1>3
<1> QED BY <1>1, <1>2, <1>4, <1>5, <1>6, <1>8, <1>9 DEF a, p

(* The checksum of TCP and UDP.                                             *)
LEMMA PseudoChecksumFills ==
    ASSUME NEW iph \in Seq(Byte), Len(iph) >= 20,
           NEW a \in Seq(Byte), NEW b \in Seq(Byte), Even(Len(a)),
           NEW n, n = Len(a) + 2 + Len(b), MessageLength(n),
           NEW c, c = in_cksum2(iph, n, a \o <<0, 0>> \o b),
           NEW t, t = Sum16(PseudoOf(iph, n)) + (Sum16(a) + Sum16(b))
    PROVE  Fills(host_bytes(c), t) /\ (c = 0 => Fills(<<255, 255>>, t))
<1> DEFINE z == a \o <<0, 0>> \o b
           s == Bytes(iph, 12, 8)
           p == iph[10]
<1>1. z \in Seq(Byte) /\ Len(z) = n /\ Sum16(z) = Sum16(a) + Sum16(b)
  BY SumWithout
<1>2. n \in Nat
  BY DEF MessageLength
<1>3. /\ Sum16(PseudoOf(iph, n)) = Sum16(s) + p + n
      /\ s \in Seq(Byte) /\ Len(s) = 8 /\ p \in Byte
  BY PseudoSum
<1>4. p \in Nat /\ MessageLength(p)
  <2>1. p \in Nat /\ p <= 255
    BY <1>3, ByteRange, Zenon
  <2> QED BY <2>1 DEF MessageLength
<1>5. in_cksum2(iph, n, z) = fold_sum(word_sum(s) + swap(p) + swap(n) + word_sum(z) + OddByte(z))
  BY DEF in_cksum2, OddByte, Last, ip, At
<1> HIDE DEF z, s, p
<1>6. Exchanged(word_sum(s) + OddByte(s), Sum16(s)) /\ WordsBelow(word_sum(s), 8)
  <2>1. WordsBelow(word_sum(s), Len(s)) => WordsBelow(word_sum(s), 8)
    BY <1>3, Zenon
  <2> QED BY <1>3, <2>1, SumsExchanged, Zenon
<1>7. /\ Exchanged(word_sum(z) + OddByte(z), Sum16(z)) /\ WordsBelow(word_sum(z), n)
      /\ OddByte(z) \in Byte
  <2>1. WordsBelow(word_sum(z), Len(z)) => WordsBelow(word_sum(z), n)
    BY <1>1, Zenon
  <2> QED BY <1>1, <2>1, SumsExchanged, Zenon
<1>8. /\ Exchanged(swap(p), p) /\ WordsBelow(swap(p), 1)
      /\ Exchanged(swap(n), n) /\ WordsBelow(swap(n), 1)
  BY <1>4, SwapExchanges
<1>9. OddByte(s) = 0
  BY <1>3 DEF OddByte
<1>10. OddByte(z) \in Nat /\ OddByte(z) <= 255
  BY <1>7, ByteRange, Zenon
<1> DEFINE host == word_sum(s) + swap(p) + swap(n) + word_sum(z) + OddByte(z)
<1>11. Exchanged(host, ((Sum16(s) + p) + n) + Sum16(z)) /\ TwoWords(host)
  <2> DEFINE i == word_sum(s)
             j == word_sum(z)
             k == OddByte(z)
             u == swap(p)
             v == swap(n)
  <2>1. i + OddByte(s) = i
    BY <1>6, <1>9 DEF WordsBelow
  <2>2. Exchanged(i, Sum16(s)) /\ Exchanged(j + k, Sum16(z))
    BY <1>6, <1>7, <2>1
  <2>3. Exchanged(((i + u) + v) + (j + k), ((Sum16(s) + p) + n) + Sum16(z))
    <3> HIDE DEF i, j, k, u, v
    <3>1. Exchanged(u, p) /\ Exchanged(v, n)
      BY <1>8 DEF u, v
    <3>2. Exchanged(i + u, Sum16(s) + p)
      BY <2>2, <3>1, ExchangedBoth
    <3>3. Exchanged((i + u) + v, (Sum16(s) + p) + n)
      BY <3>1, <3>2, ExchangedBoth
    <3> QED BY <2>2, <3>3, ExchangedBoth
  <2>4. /\ i \in Nat /\ j \in Nat /\ k \in Nat /\ u \in Nat /\ v \in Nat
        /\ i <= 65535 * 8 /\ j <= 65535 * n /\ k <= 255 /\ u <= 65535 /\ v <= 65535
    BY <1>6, <1>7, <1>8, <1>10 DEF WordsBelow
  <2>5. host = i + u + v + j + k
    OBVIOUS
  <2> HIDE DEF i, j, k, u, v, host
  <2>6. host = ((i + u) + v) + (j + k)
    BY <2>4, <2>5
  <2>7. TwoWords(host)
    <3>1. n <= 65515
      BY DEF MessageLength
    <3> QED BY <1>2, <2>4, <2>6, <3>1 DEF TwoWords
  <2> QED BY <2>3, <2>6, <2>7
<1>12. t = ((Sum16(s) + p) + n) + Sum16(z)
  BY <1>1, <1>3
<1>13. c = fold_sum(host)
  BY <1>5 DEF z
<1> HIDE DEF host
<1> QED BY <1>11, <1>12, <1>13, ComplementFills

-----------------------------------------------------------------------------
(* The IPv4 header set_ip writes.                                           *)

-----------------------------------------------------------------------------
(* An IPv4 header.                                                          *)

BytesOf(b, n) == b \in Seq(Byte) /\ Len(b) = n

LEMMA PairOf ==
    ASSUME NEW u \in Byte, NEW v \in Byte
    PROVE  BytesOf(<<u, v>>, 2)
BY SumOfWord DEF BytesOf

LEMMA HtonsBytes ==
    ASSUME NEW n \in Int
    PROVE  BytesOf(htons(n), 2) /\ htons(n)[1] \in Byte /\ htons(n)[2] \in Byte
           /\ 256 * htons(n)[1] + htons(n)[2] = n % 65536
BY Htons DEF BytesOf

(* z is x and y, of m and n bytes; k is their sum.                          *)
Adds(k, m, n) == k \in Nat /\ m \in Nat /\ n \in Nat /\ k = m + n
Joins(z, x, y) == z = x \o y

LEMMA JoinedAt ==
    ASSUME NEW k, NEW m, NEW n, Adds(k, m, n), NEW x, NEW y, NEW z, Joins(z, x, y),
           BytesOf(x, m), BytesOf(y, n)
    PROVE  /\ BytesOf(z, k)
           /\ \A i \in 1..m : z[i] = x[i]
           /\ \A i \in 1..n : z[m + i] = y[i]
<1>1. x \in Seq(Byte) /\ y \in Seq(Byte) /\ Len(x) = m /\ Len(y) = n
  BY DEF BytesOf
<1>2. Concatenation(x, y, z)
  BY <1>1, Joining DEF Joins
<1> QED BY <1>1, <1>2 DEF Concatenation, BytesOf, Adds

LEMMA Additions ==
    /\ Adds(4, 2, 2) /\ Adds(6, 4, 2) /\ Adds(8, 6, 2) /\ Adds(10, 8, 2) /\ Adds(8, 4, 4)
    /\ Adds(12, 10, 2) /\ Adds(20, 12, 8) /\ Adds(12, 8, 4) /\ Adds(14, 12, 2) /\ Adds(16, 14, 2)
    /\ Adds(12, 6, 6)
BY DEF Adds

IsAddress(b) == BytesOf(b, 4)

(* The IPv4 header of a packet object, with numbers of any size in it.      *)
IsIPv4Header(h) ==
    /\ h.version = 4
    /\ h.priority \in Int /\ h.rsv_tos \in Int /\ h.offset \in Int
    /\ h.ident \in Int /\ h.hop_limit \in Int
    /\ IsAddress(h.src_ip) /\ IsAddress(h.dst_ip)

LEMMA ByteOf ==
    ASSUME NEW n \in Int
    PROVE  n % 256 \in Byte
BY DEF Byte

LEMMA FlagBit ==
    ASSUME NEW flag, NEW bit \in Nat
    PROVE  flag_bit(flag, bit) \in {0, bit}
BY DEF flag_bit

LEMMA HeaderFields ==
    ASSUME NEW h, IsIPv4Header(h)
    PROVE  ip_tos(h) \in Byte /\ ip_off(h) \in Int /\ h.hop_limit % 256 \in Byte
<1>1. /\ h.priority \in Int /\ h.rsv_tos \in Int /\ h.offset \in Int /\ h.hop_limit \in Int
  BY DEF IsIPv4Header
<1>2. ip_tos(h) \in Byte
  <2>1. flag_bit(h.d_flag, 16) \in Int /\ flag_bit(h.t_flag, 8) \in Int /\ flag_bit(h.r_flag, 4) \in Int
    BY DEF flag_bit
  <2> DEFINE n == 32 * h.priority + h.rsv_tos + flag_bit(h.d_flag, 16) + flag_bit(h.t_flag, 8)
                    + flag_bit(h.r_flag, 4)
  <2>2. n \in Int
    BY <1>1, <2>1
  <2>3. ip_tos(h) = n % 256
    BY DEF ip_tos
  <2> HIDE DEF n
  <2> QED BY <2>2, <2>3, ByteOf
<1>3. ip_off(h) \in Int
  <2>1. /\ flag_bit(h.rsv_frag, 32768) \in Int /\ flag_bit(h.dont_frag, 16384) \in Int
        /\ flag_bit(h.more_frag, 8192) \in Int
    BY DEF flag_bit
  <2>2. swap(h.offset) \in Int
    BY <1>1 DEF swap
  <2> QED BY <2>1, <2>2 DEF ip_off
<1> QED BY <1>1, <1>2, <1>3, ByteOf

(* What comes before the checksum of an IPv4 header, and what behind it.    *)
FrontPart(h, length, off, proto) ==
    <<69, ip_tos(h)>> \o length \o htons(h.ident) \o off \o <<h.hop_limit % 256, proto>>
Addresses4(h) == h.src_ip \o h.dst_ip

LEMMA FrontOf ==
    ASSUME NEW h, IsIPv4Header(h), NEW length, BytesOf(length, 2), NEW off, BytesOf(off, 2),
           NEW proto \in Byte
    PROVE  LET a == FrontPart(h, length, off, proto)
           IN  /\ BytesOf(a, 10) /\ a[3] = length[1] /\ a[4] = length[2] /\ a[10] = proto
               /\ BytesOf(Addresses4(h), 8)
<1> DEFINE a1 == <<69, ip_tos(h)>>
           a2 == a1 \o length
           a3 == a2 \o htons(h.ident)
           a4 == a3 \o off
           a5 == <<h.hop_limit % 256, proto>>
           a == a4 \o a5
<1>1. BytesOf(a1, 2) /\ BytesOf(a5, 2) /\ a5[2] = proto
  <2>1. 69 \in Byte /\ ip_tos(h) \in Byte /\ h.hop_limit % 256 \in Byte
    BY HeaderFields DEF Byte
  <2> QED BY <2>1, PairOf
<1>2. BytesOf(htons(h.ident), 2)
  BY HtonsBytes DEF IsIPv4Header
<1>3. FrontPart(h, length, off, proto) = a
  BY DEF FrontPart
<1>4. Joins(a2, a1, length) /\ Joins(a3, a2, htons(h.ident)) /\ Joins(a4, a3, off) /\ Joins(a, a4, a5)
  BY DEF Joins
<1> HIDE DEF a, a1, a2, a3, a4, a5
<1>5. BytesOf(a2, 4) /\ a2[3] = length[1] /\ a2[4] = length[2]
  <2>1. BytesOf(a2, 4) /\ \A i \in 1..2 : a2[2 + i] = length[i]
    BY <1>1, <1>4, JoinedAt, Additions
  <2>2. a2[2 + 1] = length[1] /\ a2[2 + 2] = length[2]
    BY <2>1
  <2> QED BY <2>1, <2>2
<1>6. BytesOf(a3, 6) /\ \A i \in 1..4 : a3[i] = a2[i]
  BY <1>2, <1>4, <1>5, JoinedAt, Additions
<1>7. BytesOf(a4, 8) /\ \A i \in 1..6 : a4[i] = a3[i]
  BY <1>4, <1>6, JoinedAt, Additions
<1>8. BytesOf(a, 10) /\ (\A i \in 1..8 : a[i] = a4[i]) /\ a[10] = proto
  <2>1. BytesOf(a, 10) /\ (\A i \in 1..8 : a[i] = a4[i]) /\ \A i \in 1..2 : a[8 + i] = a5[i]
    BY <1>1, <1>4, <1>7, JoinedAt, Additions
  <2>2. a[8 + 2] = a5[2]
    BY <2>1
  <2> QED BY <1>1, <2>1, <2>2
<1>9. a[3] = length[1] /\ a[4] = length[2]
  BY <1>5, <1>6, <1>7, <1>8
<1>10. BytesOf(Addresses4(h), 8)
  <2>1. Joins(Addresses4(h), h.src_ip, h.dst_ip)
    BY DEF Joins, Addresses4
  <2>2. BytesOf(h.src_ip, 4) /\ BytesOf(h.dst_ip, 4)
    BY DEF IsIPv4Header, IsAddress
  <2> QED BY <2>1, <2>2, JoinedAt, Additions
<1> QED BY <1>3, <1>8, <1>9, <1>10

LEMMA JoinAgain ==
    ASSUME NEW x \in Seq(Byte), NEW y \in Seq(Byte), NEW z \in Seq(Byte)
    PROVE  (x \o y) \o z = x \o (y \o z)
BY ConcatAssociative

LEMMA HeaderInParts ==
    ASSUME NEW h, IsIPv4Header(h), NEW length, BytesOf(length, 2), NEW off, BytesOf(off, 2),
           NEW proto \in Byte, NEW sum, BytesOf(sum, 2)
    PROVE  set_ip(h, length, off, proto, sum) =
             FrontPart(h, length, off, proto) \o sum \o Addresses4(h)
<1> DEFINE a == FrontPart(h, length, off, proto)
           f == a \o sum
<1>1. set_ip(h, length, off, proto, sum) = ((a \o sum) \o h.src_ip) \o h.dst_ip
  BY DEF set_ip, FrontPart
<1>2. BytesOf(a, 10)
  BY FrontOf
<1> HIDE DEF a
<1>3. f \in Seq(Byte) /\ h.src_ip \in Seq(Byte) /\ h.dst_ip \in Seq(Byte)
  BY <1>2 DEF IsIPv4Header, IsAddress, BytesOf
<1> HIDE DEF f
<1>4. (f \o h.src_ip) \o h.dst_ip = f \o (h.src_ip \o h.dst_ip)
  BY <1>3, JoinAgain
<1> QED BY <1>1, <1>4 DEF f, a, Addresses4

LEMMA FilledBytes ==
    ASSUME NEW w, NEW net, Fills(w, net)
    PROVE  BytesOf(w, 2)
BY PairOf DEF Fills

LEMMA EvenLength ==
    ASSUME NEW b, NEW n, BytesOf(b, n), n \in {2, 6, 8, 10, 16}
    PROVE  b \in Seq(Byte) /\ Even(Len(b))
<1>1. Even(n)
  BY DEF Even
<1> QED BY <1>1 DEF BytesOf

LEMMA ZeroBytes == BytesOf(<<0, 0>>, 2)
<1>1. 0 \in Byte
  BY DEF Byte
<1> QED BY <1>1, PairOf

(* The IPv4 header of every packet object has its length where it belongs,  *)
(* and a checksum with which its words add up.                              *)
THEOREM HeaderChecksum ==
    ASSUME NEW h, IsIPv4Header(h), NEW length, MessageLength(length), NEW proto \in Byte
    PROVE  LET f == finished_ip(h, length, proto)
           IN  /\ BytesOf(f, 20) /\ AddsUp(f)
               /\ 256 * f[3] + f[4] = length /\ f[10] = proto
<1> DEFINE n == htons(length)
           off == htons(ip_off(h))
           a == FrontPart(h, n, off, proto)
           b == Addresses4(h)
           c == in_cksum(a \o <<0, 0>> \o b, 0)
           w == host_bytes(c)
           f == a \o w \o b
<1>1. BytesOf(n, 2) /\ BytesOf(off, 2) /\ 256 * n[1] + n[2] = length
  <2>1. length \in Int /\ length % 65536 = length
    BY DEF MessageLength
  <2>2. ip_off(h) \in Int
    BY HeaderFields
  <2> QED BY <2>1, <2>2, HtonsBytes
<1> HIDE DEF n, off
<1>2. /\ BytesOf(a, 10) /\ a[3] = n[1] /\ a[4] = n[2] /\ a[10] = proto
      /\ BytesOf(b, 8)
  BY <1>1, FrontOf
<1>3. set_ip(h, n, off, proto, <<0, 0>>) = a \o <<0, 0>> \o b
  BY <1>1, ZeroBytes, HeaderInParts
<1> HIDE DEF a, b
<1>4. a \in Seq(Byte) /\ b \in Seq(Byte) /\ Even(Len(a)) /\ Even(Len(b))
  BY <1>2, EvenLength
<1>5. Fills(w, Sum16(a) + Sum16(b))
  <2>1. MessageLength(Len(a) + 2 + Len(b))
    BY <1>2 DEF MessageLength, BytesOf
  <2> QED BY <1>4, <2>1, ChecksumFills
<1> HIDE DEF w
<1>6. BytesOf(w, 2)
  BY <1>5, FilledBytes
<1>7. f \in Seq(Byte) /\ Len(f) = Len(a) + 2 + Len(b) /\ AddsUp(f)
  BY <1>4, <1>5, FilledAddsUp
<1>8. finished_ip(h, length, proto) = f
  <2>1. finished_ip(h, length, proto) = set_ip(h, n, off, proto, w)
    BY <1>3 DEF finished_ip, n, off, w
  <2>2. set_ip(h, n, off, proto, w) = FrontPart(h, n, off, proto) \o w \o Addresses4(h)
    BY <1>1, <1>6, HeaderInParts
  <2> HIDE DEF c
  <2> QED BY <2>1, <2>2 DEF a, b
<1>9. BytesOf(f, 20)
  <2>1. Len(a) = 10 /\ Len(b) = 8
    BY <1>2 DEF BytesOf
  <2> HIDE DEF f
  <2> QED BY <1>7, <2>1 DEF BytesOf
<1>10. \A i \in 1..10 : f[i] = a[i]
  <2> DEFINE g == a \o w
  <2>1. Joins(g, a, w) /\ Joins(f, g, b)
    BY DEF Joins
  <2> HIDE DEF f, g
  <2>2. BytesOf(g, 12) /\ \A i \in 1..10 : g[i] = a[i]
    BY <1>2, <1>6, <2>1, JoinedAt, Additions
  <2>3. \A i \in 1..12 : f[i] = g[i]
    BY <1>2, <2>1, <2>2, JoinedAt, Additions
  <2> QED BY <2>2, <2>3
<1> HIDE DEF f
<1>11. f[3] = n[1] /\ f[4] = n[2] /\ f[10] = proto
  BY <1>2, <1>10
<1> QED BY <1>1, <1>7, <1>8, <1>9, <1>11

-----------------------------------------------------------------------------
(* A segment set_tcp writes.                                                *)

-----------------------------------------------------------------------------
(* What is behind an IPv4 header.                                           *)

Covered(iph, n, part) == AddsUp(PseudoOf(iph, n) \o part)

(* The words of the part add up: those of TCP and UDP with the pseudo       *)
(* header, those of ICMP alone.                                             *)
PartVerifies(iph, part) ==
    IF iph[10] \in {IPPROTO_TCP, IPPROTO_UDP} THEN Covered(iph, Len(part), part)
    ELSE iph[10] = IPPROTO_ICMP => AddsUp(part)

(* A message of a, w and b; and one whose last part is u and d.             *)
InParts(m, a, w, b) == m = a \o w \o b
InFour(m, a, w, u, d) == m = ((a \o w) \o u) \o d

LEMMA LastTwoJoined ==
    ASSUME NEW a \in Seq(Byte), NEW w \in Seq(Byte), NEW u \in Seq(Byte), NEW d \in Seq(Byte),
           NEW b, Joins(b, u, d), NEW m, InFour(m, a, w, u, d)
    PROVE  InParts(m, a, w, b)
<1>1. a \o w \in Seq(Byte)
  BY Joining DEF Concatenation
<1>2. ((a \o w) \o u) \o d = (a \o w) \o (u \o d)
  BY <1>1, JoinAgain
<1> QED BY <1>2 DEF InFour, InParts, Joins

NoSum == <<0, 0>>
SegmentSum(iph, n, a, b) == Sum16(PseudoOf(iph, n)) + (Sum16(a) + Sum16(b))

(* A message of n bytes of which a and b come before its checksum and after.*)
Around(n, a, b) ==
    /\ a \in Seq(Byte) /\ b \in Seq(Byte) /\ Even(Len(a))
    /\ n = Len(a) + 2 + Len(b) /\ MessageLength(n)

(* A sum as it is put into the header: 0 may be inverted once more.         *)
Stored(w, sum) == w = host_bytes(sum) \/ (sum = 0 /\ w = <<255, 255>>)

LEMMA HtonsPair ==
    ASSUME NEW n \in Int
    PROVE  BytesOf(htons(n), 2)
BY HtonsBytes

LEMMA SegmentWord ==
    ASSUME NEW iph, BytesOf(iph, 20), NEW n, NEW a, NEW b, Around(n, a, b),
           NEW z, InParts(z, a, NoSum, b), NEW w, Stored(w, in_cksum2(iph, n, z))
    PROVE  Fills(w, SegmentSum(iph, n, a, b)) /\ BytesOf(w, 2)
<1>1. PICK u : u = Sum16(PseudoOf(iph, n)) + (Sum16(a) + Sum16(b))
  OBVIOUS
<1>2. iph \in Seq(Byte) /\ Len(iph) >= 20
  BY DEF BytesOf
<1> DEFINE c == in_cksum2(iph, n, z)
<1>3. c = in_cksum2(iph, n, a \o <<0, 0>> \o b)
  BY DEF InParts, NoSum
<1> HIDE DEF c
<1>4. Fills(host_bytes(c), u) /\ (c = 0 => Fills(<<255, 255>>, u))
  BY <1>1, <1>2, <1>3, PseudoChecksumFills DEF Around
<1>5. Fills(w, u)
  BY <1>4 DEF Stored, c
<1> QED BY <1>1, <1>5, FilledBytes DEF SegmentSum

LEMMA FilledSegment ==
    ASSUME NEW iph, BytesOf(iph, 20), NEW n, NEW a, NEW b, Around(n, a, b),
           NEW w, Fills(w, SegmentSum(iph, n, a, b)),
           NEW m, InParts(m, a, w, b)
    PROVE  BytesOf(m, n) /\ Covered(iph, n, m)
<1> DEFINE p == PseudoOf(iph, n)
           t == Sum16(p) + (Sum16(a) + Sum16(b))
<1>1. iph \in Seq(Byte) /\ Len(iph) >= 20
  BY DEF BytesOf
<1>2. p \in Seq(Byte) /\ Even(Len(p))
  <2>1. p \in Seq(Byte) /\ Len(p) = 12
    BY <1>1, PseudoSum DEF Around
  <2>2. Even(12)
    BY DEF Even
  <2> QED BY <2>1, <2>2
<1>3. Fills(w, t)
  BY DEF SegmentSum
<1> HIDE DEF p
<1>4. /\ a \o w \o b \in Seq(Byte) /\ Len(a \o w \o b) = Len(a) + 2 + Len(b)
      /\ AddsUp(p \o (a \o w \o b))
  BY <1>2, <1>3, FilledBehindAddsUp DEF Around
<1> QED BY <1>4 DEF p, InParts, BytesOf, Covered, Around

IsTCPHeader(h) ==
    /\ h.src_port \in Int /\ h.dst_port \in Int /\ h.window \in Int /\ h.urgent_pointer \in Int
    /\ BytesOf(h.sequence, 4) /\ BytesOf(h.ack_num, 4)

LEMMA TCPFlags ==
    ASSUME NEW h
    PROVE  tcp_flags(h) \in Byte
<1>1. /\ flag_bit(h.rsv1, 128) \in {0, 128} /\ flag_bit(h.rsv2, 64) \in {0, 64}
      /\ flag_bit(h.urg, 32) \in {0, 32} /\ flag_bit(h.ack, 16) \in {0, 16}
      /\ flag_bit(h.psh, 8) \in {0, 8} /\ flag_bit(h.rst, 4) \in {0, 4}
      /\ flag_bit(h.syn, 2) \in {0, 2} /\ flag_bit(h.fin, 1) \in {0, 1}
  BY DEF flag_bit
<1> QED BY <1>1 DEF tcp_flags, Byte

(* A TCP segment whose data fit the buffer.                                 *)
LEMMA TCPSegment ==
    ASSUME NEW h, IsTCPHeader(h), NEW data \in Seq(Byte), Len(data) <= 1560,
           NEW iph, BytesOf(iph, 20), NEW junk \in Byte
    PROVE  LET part == set_tcp(h, data, iph, junk)
           IN  /\ BytesOf(part, Len(data) + 20)
               /\ Covered(iph, Len(part), part)
<1> DEFINE x == <<80 + (junk % 16), tcp_flags(h)>>
           a1 == htons(h.src_port) \o htons(h.dst_port)
           a2 == a1 \o h.sequence
           a3 == a2 \o h.ack_num
           a4 == a3 \o x
           a == a4 \o htons(h.window)
           urgent == htons(h.urgent_pointer)
           b == urgent \o data
           n == Len(data) + 20
           z == ((a \o <<0, 0>>) \o urgent) \o data
           c == in_cksum2(iph, n, z)
           w == host_bytes(c)
           m == ((a \o w) \o urgent) \o data
<1>0. fitting(data, IPv4HDRLEN + TCPHDRLEN) = data
  BY DEF fitting, IPv4HDRLEN, TCPHDRLEN, MAX_PACKET_SIZE
<1>1. set_tcp(h, data, iph, junk) = m
  <2> DEFINE built(d) ==
        ((a \o host_bytes(in_cksum2(iph, Len(d) + TCPHDRLEN, ((a \o <<0, 0>>) \o urgent) \o d))) \o urgent) \o d
  <2>1. set_tcp(h, data, iph, junk) = built(fitting(data, IPv4HDRLEN + TCPHDRLEN))
    BY DEF set_tcp
  <2>2. built(data) = m
    BY DEF TCPHDRLEN
  <2> HIDE DEF built, m
  <2> QED BY <1>0, <2>1, <2>2
<1>2. /\ BytesOf(htons(h.src_port), 2) /\ BytesOf(htons(h.dst_port), 2)
      /\ BytesOf(htons(h.window), 2) /\ BytesOf(urgent, 2)
      /\ BytesOf(h.sequence, 4) /\ BytesOf(h.ack_num, 4)
  <2>1. /\ h.src_port \in Int /\ h.dst_port \in Int /\ h.window \in Int /\ h.urgent_pointer \in Int
        /\ BytesOf(h.sequence, 4) /\ BytesOf(h.ack_num, 4)
    BY DEF IsTCPHeader
  <2> QED BY <2>1, HtonsPair
<1>3. BytesOf(x, 2)
  <2>1. 80 + (junk % 16) \in Byte
    BY ByteRange DEF Byte
  <2> QED BY <2>1, TCPFlags, PairOf
<1>4. /\ Joins(a1, htons(h.src_port), htons(h.dst_port)) /\ Joins(a2, a1, h.sequence)
      /\ Joins(a3, a2, h.ack_num) /\ Joins(a4, a3, x) /\ Joins(a, a4, htons(h.window))
      /\ Joins(b, urgent, data)
  BY DEF Joins
<1>5. InFour(z, a, NoSum, urgent, data) /\ InFour(m, a, w, urgent, data)
      /\ Stored(w, in_cksum2(iph, n, z))
  BY DEF InFour, NoSum, Stored
<1> HIDE DEF x, a1, a2, a3, a4, a, urgent, b, z, c, w, m
<1>6. BytesOf(a1, 4)
  BY <1>2, <1>4, JoinedAt, Additions
<1>7. BytesOf(a2, 8)
  BY <1>2, <1>4, <1>6, JoinedAt, Additions
<1>8. BytesOf(a3, 12)
  BY <1>2, <1>4, <1>7, JoinedAt, Additions
<1>9. BytesOf(a4, 14)
  BY <1>3, <1>4, <1>8, JoinedAt, Additions
<1>10. BytesOf(a, 16)
  BY <1>2, <1>4, <1>9, JoinedAt, Additions
<1>11. PICK l \in Nat : l = Len(data) /\ BytesOf(data, l) /\ Adds(2 + l, 2, l)
  BY DEF BytesOf, Adds
<1>12. BytesOf(b, 2 + l)
  BY <1>2, <1>4, <1>11, JoinedAt
<1>13. /\ a \in Seq(Byte) /\ Even(Len(a)) /\ b \in Seq(Byte) /\ urgent \in Seq(Byte)
       /\ Len(a) = 16 /\ Len(b) = 2 + l
  <2>1. a \in Seq(Byte) /\ Even(Len(a))
    BY <1>10, EvenLength
  <2> QED BY <1>2, <1>10, <1>12, <2>1 DEF BytesOf
<1>14. Around(n, a, b)
  BY <1>11, <1>13 DEF MessageLength, Around
<1>15. InParts(z, a, NoSum, b)
  <2>1. NoSum \in Seq(Byte)
    BY ZeroBytes DEF BytesOf, NoSum
  <2> QED BY <1>4, <1>5, <1>13, <2>1, LastTwoJoined
<1> HIDE DEF n
<1>16. Fills(w, SegmentSum(iph, n, a, b)) /\ BytesOf(w, 2)
  BY <1>5, <1>14, <1>15, SegmentWord
<1>17. InParts(m, a, w, b)
  <2>1. w \in Seq(Byte)
    BY <1>16 DEF BytesOf
  <2> QED BY <1>4, <1>5, <1>13, <2>1, LastTwoJoined
<1>18. BytesOf(m, n) /\ Covered(iph, n, m)
  BY <1>14, <1>16, <1>17, FilledSegment
<1>19. Len(m) = n
  BY <1>18 DEF BytesOf
<1> QED BY <1>1, <1>18, <1>19 DEF n

-----------------------------------------------------------------------------
(* A datagram set_udp writes, and what set_icmp has of its message.         *)

IsUDPHeader(h) == h.src_port \in Int /\ h.dst_port \in Int

(* A UDP datagram whose data fit the buffer.                                *)
LEMMA UDPSegment ==
    ASSUME NEW h, IsUDPHeader(h), NEW data \in Seq(Byte), Len(data) <= 1572,
           NEW iph, BytesOf(iph, 20)
    PROVE  LET part == set_udp(h, data, iph)
           IN  /\ BytesOf(part, Len(data) + 8)
               /\ Covered(iph, Len(part), part)
<1> DEFINE n == Len(data) + 8
           a1 == htons(h.src_port) \o htons(h.dst_port)
           a == a1 \o htons(n)
           z == a \o <<0, 0>> \o data
           c == in_cksum2(iph, n, z)
           w == IF c = 0 THEN <<255, 255>> ELSE host_bytes(c)
           m == a \o w \o data
<1>0. fitting(data, IPv4HDRLEN + UDPHDRLEN) = data
  BY DEF fitting, IPv4HDRLEN, UDPHDRLEN, MAX_PACKET_SIZE
<1>1. set_udp(h, data, iph) = m
  <2> DEFINE len(d) == Len(d) + UDPHDRLEN
             front(d) == a1 \o htons(len(d))
             sum(d) == in_cksum2(iph, len(d), (front(d) \o <<0, 0>>) \o d)
             built(d) == (front(d) \o (IF sum(d) = 0 THEN <<255, 255>> ELSE host_bytes(sum(d)))) \o d
  <2>1. set_udp(h, data, iph) = built(fitting(data, IPv4HDRLEN + UDPHDRLEN))
    BY DEF set_udp
  <2>2. built(data) = m
    BY DEF UDPHDRLEN
  <2> HIDE DEF built, m
  <2> QED BY <1>0, <2>1, <2>2
<1>2. n \in Nat
  OBVIOUS
<1>3. /\ Joins(a1, htons(h.src_port), htons(h.dst_port)) /\ Joins(a, a1, htons(n))
      /\ InParts(z, a, NoSum, data) /\ InParts(m, a, w, data)
      /\ Stored(w, in_cksum2(iph, n, z))
  BY DEF Joins, InParts, NoSum, Stored
<1>4. PICK l \in Nat : l = n
  BY <1>2
<1> HIDE DEF a1, a, z, c, w, m
<1>5. BytesOf(htons(h.src_port), 2) /\ BytesOf(htons(h.dst_port), 2) /\ BytesOf(htons(n), 2)
  <2>1. h.src_port \in Int /\ h.dst_port \in Int /\ l \in Int
    BY <1>4 DEF IsUDPHeader
  <2>2. BytesOf(htons(l), 2)
    BY <2>1, HtonsPair
  <2> HIDE DEF n
  <2> QED BY <1>4, <2>1, <2>2, HtonsPair
<1>6. BytesOf(a1, 4)
  BY <1>3, <1>5, JoinedAt, Additions
<1>7. BytesOf(a, 6)
  <2> HIDE DEF n
  <2> QED BY <1>3, <1>5, <1>6, JoinedAt, Additions
<1>8. Around(n, a, data)
  <2>1. a \in Seq(Byte) /\ Even(Len(a)) /\ Len(a) = 6
    <3>1. a \in Seq(Byte) /\ Even(Len(a))
      BY <1>7, EvenLength
    <3> QED BY <1>7, <3>1 DEF BytesOf
  <2> QED BY <2>1 DEF MessageLength, Around
<1> HIDE DEF n
<1>9. Fills(w, SegmentSum(iph, n, a, data)) /\ BytesOf(w, 2)
  BY <1>3, <1>8, SegmentWord
<1>10. BytesOf(m, n) /\ Covered(iph, n, m)
  BY <1>3, <1>8, <1>9, FilledSegment
<1>11. Len(m) = n
  BY <1>10 DEF BytesOf
<1> QED BY <1>1, <1>10, <1>11 DEF n

-----------------------------------------------------------------------------
(* An ICMP message.                                                         *)

KnownICMP == {ICMP_ECHOREPLY, ICMP_ECHO} \cup ICMPErrors \cup ICMPStamps \cup ICMPMasks

(* The fields of a message of a type that set_icmp knows.                   *)
IsICMPHeader(h) ==
    /\ h.type \in KnownICMP /\ h.code \in Int
    /\ h.type \in {ICMP_ECHOREPLY, ICMP_ECHO} \cup ICMPStamps \cup ICMPMasks => h.id \in Int /\ h.seq \in Int
    /\ h.type = ICMP_REDIRECT => IsAddress(h.redir_ip)
    /\ h.type \in ICMPErrors => h.ippacket = <<>> \/ (h.ippacket # <<>> /\ IsIPv4Header(h.ippacket))
    /\ h.type \in ICMPStamps => IsAddress(h.orig_timestamp) /\ IsAddress(h.recv_timestamp)
                                  /\ IsAddress(h.trans_timestamp)
    /\ h.type \in ICMPMasks => IsAddress(h.subnetmask)

LEMMA JunkBytes ==
    ASSUME NEW junk \in Byte, NEW n \in Nat
    PROVE  BytesOf(junk_bytes(n, junk), n)
<1>1. junk_bytes(n, junk) \in [1..n -> Byte]
  BY DEF junk_bytes
<1>2. junk_bytes(n, junk) \in Seq(Byte)
  BY <1>1, FunctionIsSequence
<1> QED BY <1>1, <1>2 DEF BytesOf

LEMMA NumberedBytes ==
    ASSUME NEW id \in Int, NEW seq \in Int
    PROVE  BytesOf(htons(id) \o htons(seq), 4)
<1>1. Joins(htons(id) \o htons(seq), htons(id), htons(seq))
  BY DEF Joins
<1>2. BytesOf(htons(id), 2) /\ BytesOf(htons(seq), 2)
  BY HtonsPair
<1> QED BY <1>1, <1>2, JoinedAt, Additions

(* What follows the checksum is a sequence of bytes; an even number of      *)
(* them, if that holds of the data.                                         *)
IsRest(b, data) == b \in Seq(Byte) /\ Len(b) <= 28 + Len(data) /\ (Even(Len(data)) => Even(Len(b)))

LEMMA RestOfSize ==
    ASSUME NEW b, NEW n \in {8, 16, 28}, BytesOf(b, n), NEW data \in Seq(Byte)
    PROVE  IsRest(b, data)
<1>1. n \in Nat /\ n <= 28 /\ Even(n)
  BY DEF Even
<1> QED BY <1>1 DEF BytesOf, IsRest

LEMMA MoreAdditions == Adds(28, 24, 4) /\ Adds(24, 4, 20) /\ Adds(16, 12, 4) /\ Adds(4, 4, 0)
BY DEF Adds

(* The header that an error is about; nobody sets its length, its protocol  *)
(* and its checksum.                                                        *)
LEMMA HeaderOfError ==
    ASSUME NEW h, IsIPv4Header(h), NEW junk \in Byte
    PROVE  BytesOf(set_ip(h, <<junk, junk>>, host_bytes(ip_off(h)), junk, <<junk, junk>>), 20)
<1> DEFINE j == <<junk, junk>>
           off == host_bytes(ip_off(h))
           a == FrontPart(h, j, off, junk)
           b == Addresses4(h)
           g == a \o j
           f == g \o b
<1>1. BytesOf(j, 2)
  BY PairOf
<1>2. BytesOf(off, 2)
  <2>1. ip_off(h) \in Int /\ 0 <= ip_off(h) /\ ip_off(h) < 65536
    <3>1. /\ flag_bit(h.rsv_frag, 32768) \in Int /\ flag_bit(h.dont_frag, 16384) \in Int
          /\ flag_bit(h.more_frag, 8192) \in Int
      BY DEF flag_bit
    <3>2. h.offset \in Int
      BY DEF IsIPv4Header
    <3>3. swap(h.offset) \in Int
      BY <3>2 DEF swap
    <3> QED BY <3>1, <3>3 DEF ip_off
  <2>2. PICK c \in Nat : c < 65536 /\ c = ip_off(h)
    BY <2>1
  <2>3. PICK x \in Byte, y \in Byte : host_bytes(c) = <<x, y>>
    BY <2>2, HostBytes
  <2> QED BY <2>2, <2>3, PairOf
<1>3. set_ip(h, j, off, junk, j) = f
  <2> HIDE DEF j, off
  <2> QED BY <1>1, <1>2, HeaderInParts
<1>4. BytesOf(a, 10) /\ BytesOf(b, 8)
  <2> HIDE DEF j, off
  <2> QED BY <1>1, <1>2, FrontOf
<1>5. Joins(g, a, j) /\ Joins(f, g, b)
  BY DEF Joins
<1> HIDE DEF j, off, a, b, g, f
<1>6. BytesOf(g, 12)
  BY <1>1, <1>4, <1>5, JoinedAt, Additions
<1>7. BytesOf(f, 20)
  BY <1>4, <1>5, <1>6, JoinedAt, Additions
<1> QED BY <1>3, <1>7 DEF j, off

Echo == {ICMP_ECHOREPLY, ICMP_ECHO}

LEMMA ICMPTypesDiffer ==
    ASSUME NEW t
    PROVE  /\ t \in Echo => t \notin ICMPErrors /\ t \notin ICMPStamps /\ t \notin ICMPMasks
           /\ t \in ICMPErrors => t \notin Echo /\ t \notin ICMPStamps /\ t \notin ICMPMasks
           /\ t \in ICMPStamps => t \notin Echo /\ t \notin ICMPErrors /\ t \notin ICMPMasks
           /\ t \in ICMPMasks => t \notin Echo /\ t \notin ICMPErrors /\ t \notin ICMPStamps
BY DEF Echo, ICMP_ECHOREPLY, ICMP_ECHO, ICMPErrors, ICMP_REDIRECT, ICMP_UNREACH,
       ICMP_SOURCEQUENCH, ICMP_TIMXCEED, ICMP_PARAMPROB, ICMPStamps, ICMP_TSTAMP,
       ICMP_TSTAMPREPLY, ICMPMasks, ICMP_MASKREQ, ICMP_MASKREPLY

(* A choice between four, of which one applies.                             *)
LEMMA OneOfFour ==
    ASSUME NEW p \in BOOLEAN, NEW q \in BOOLEAN, NEW r \in BOOLEAN, NEW s \in BOOLEAN,
           NEW x, NEW y, NEW u, NEW v, NEW z,
           z = CASE p -> x [] q -> y [] r -> u [] s -> v
    PROVE  /\ p /\ ~q /\ ~r /\ ~s => z = x
           /\ ~p /\ q /\ ~r /\ ~s => z = y
           /\ ~p /\ ~q /\ r /\ ~s => z = u
           /\ ~p /\ ~q /\ ~r /\ s => z = v
OBVIOUS

AboutHeader(h, junk) ==
    IF h.ippacket = <<>> THEN <<>>
    ELSE set_ip(h.ippacket, <<junk, junk>>, host_bytes(ip_off(h.ippacket)), junk, <<junk, junk>>)
FirstOfError(h, junk) == IF h.type = ICMP_REDIRECT THEN h.redir_ip ELSE junk_bytes(4, junk)

LEMMA RestByType ==
    ASSUME NEW h, NEW data, NEW junk
    PROVE  LET rest == icmp_rest(h, data, junk)
               ids == htons(h.id) \o htons(h.seq)
           IN  /\ h.type \in Echo => rest = ids \o data
               /\ h.type \in ICMPErrors =>
                    rest = (FirstOfError(h, junk) \o AboutHeader(h, junk)) \o junk_bytes(4, junk)
               /\ h.type \in ICMPStamps =>
                    rest = ((ids \o h.orig_timestamp) \o h.recv_timestamp) \o h.trans_timestamp
               /\ h.type \in ICMPMasks => rest = ids \o h.subnetmask
<1> DEFINE rest == icmp_rest(h, data, junk)
           ids == htons(h.id) \o htons(h.seq)
           x == ids \o data
           y == (FirstOfError(h, junk) \o AboutHeader(h, junk)) \o junk_bytes(4, junk)
           u == ((ids \o h.orig_timestamp) \o h.recv_timestamp) \o h.trans_timestamp
           v == ids \o h.subnetmask
           p == h.type \in Echo
           q == h.type \in ICMPErrors
           r == h.type \in ICMPStamps
           s == h.type \in ICMPMasks
<1>1. rest = CASE p -> x [] q -> y [] r -> u [] s -> v
  BY DEF icmp_rest, Echo, FirstOfError, AboutHeader
<1>2. p \in BOOLEAN /\ q \in BOOLEAN /\ r \in BOOLEAN /\ s \in BOOLEAN
  OBVIOUS
<1>3. /\ p => ~q /\ ~r /\ ~s
      /\ q => ~p /\ ~r /\ ~s
      /\ r => ~p /\ ~q /\ ~s
      /\ s => ~p /\ ~q /\ ~r
  BY ICMPTypesDiffer, Zenon
<1> HIDE DEF rest, x, y, u, v, p, q, r, s
<1>4. /\ p /\ ~q /\ ~r /\ ~s => rest = x
      /\ ~p /\ q /\ ~r /\ ~s => rest = y
      /\ ~p /\ ~q /\ r /\ ~s => rest = u
      /\ ~p /\ ~q /\ ~r /\ s => rest = v
  BY <1>1, <1>2, OneOfFour, Zenon
<1>5. (p => rest = x) /\ (q => rest = y) /\ (r => rest = u) /\ (s => rest = v)
  BY <1>3, <1>4
<1> QED BY <1>5 DEF rest, x, y, u, v, p, q, r, s

LEMMA RestOfMessage ==
    ASSUME NEW h, IsICMPHeader(h), NEW data \in Seq(Byte), NEW junk \in Byte
    PROVE  IsRest(icmp_rest(h, data, junk), data)
<1> DEFINE ids == htons(h.id) \o htons(h.seq)
           rest == icmp_rest(h, data, junk)
<1>1. h.type \in KnownICMP
  BY DEF IsICMPHeader
<1>2. ASSUME h.type \notin ICMPErrors PROVE BytesOf(ids, 4)
  <2>1. h.type \in Echo \cup ICMPStamps \cup ICMPMasks
    BY <1>1, <1>2 DEF KnownICMP, Echo
  <2>2. h.id \in Int /\ h.seq \in Int
    BY <2>1 DEF IsICMPHeader, Echo
  <2> QED BY <2>2, NumberedBytes
<1>3. CASE h.type \in Echo
  <2>1. rest = ids \o data
    BY <1>3, RestByType
  <2>2. h.type \notin ICMPErrors
    BY <1>3, ICMPTypesDiffer
  <2>3. PICK l \in Nat : l = Len(data) /\ BytesOf(data, l) /\ Adds(4 + l, 4, l)
    BY DEF BytesOf, Adds
  <2>4. Joins(rest, ids, data)
    BY <2>1 DEF Joins
  <2>5. BytesOf(ids, 4)
    BY <1>2, <2>2
  <2> HIDE DEF rest, ids
  <2>6. BytesOf(rest, 4 + l)
    BY <2>3, <2>4, <2>5, JoinedAt
  <2>7. Even(l) => Even(4 + l)
    BY DEF Even
  <2> QED BY <2>3, <2>6, <2>7 DEF BytesOf, IsRest, rest
<1>4. CASE h.type \in ICMPErrors
  <2> DEFINE first == FirstOfError(h, junk)
             about == AboutHeader(h, junk)
             last == junk_bytes(4, junk)
             front == first \o about
  <2>1. rest = front \o last
    BY <1>4, RestByType, ICMPTypesDiffer
  <2>2. BytesOf(last, 4) /\ BytesOf(first, 4)
    BY JunkBytes DEF IsICMPHeader, IsAddress, FirstOfError
  <2>3. Joins(front, first, about) /\ Joins(rest, front, last)
    BY <2>1 DEF Joins
  <2>4. about = <<>> \/ BytesOf(about, 20)
    <3>1. h.ippacket = <<>> \/ (h.ippacket # <<>> /\ IsIPv4Header(h.ippacket))
      BY <1>4 DEF IsICMPHeader
    <3> QED BY <3>1, HeaderOfError DEF AboutHeader
  <2> HIDE DEF first, about, last, front, rest
  <2>5. CASE about = <<>>
    <3>1. BytesOf(about, 0)
      BY <2>5 DEF BytesOf
    <3>2. BytesOf(front, 4)
      BY <2>2, <2>3, <3>1, JoinedAt, MoreAdditions
    <3>3. BytesOf(rest, 8)
      BY <2>2, <2>3, <3>2, JoinedAt, Additions
    <3> QED BY <3>3, RestOfSize DEF rest
  <2>6. CASE BytesOf(about, 20)
    <3>1. BytesOf(front, 24)
      BY <2>2, <2>3, <2>6, JoinedAt, MoreAdditions
    <3>2. BytesOf(rest, 28)
      BY <2>2, <2>3, <3>1, JoinedAt, MoreAdditions
    <3> QED BY <3>2, RestOfSize DEF rest
  <2> QED BY <2>4, <2>5, <2>6
<1>5. CASE h.type \in ICMPStamps
  <2> DEFINE r1 == ids \o h.orig_timestamp
             r2 == r1 \o h.recv_timestamp
  <2>1. h.type \notin ICMPErrors /\ rest = r2 \o h.trans_timestamp
    BY <1>5, RestByType, ICMPTypesDiffer
  <2>2. BytesOf(ids, 4)
    BY <1>2, <2>1
  <2>3. BytesOf(h.orig_timestamp, 4) /\ BytesOf(h.recv_timestamp, 4) /\ BytesOf(h.trans_timestamp, 4)
    BY <1>5 DEF IsICMPHeader, IsAddress
  <2>4. Joins(r1, ids, h.orig_timestamp) /\ Joins(r2, r1, h.recv_timestamp)
          /\ Joins(rest, r2, h.trans_timestamp)
    BY <2>1 DEF Joins
  <2> HIDE DEF rest, ids, r1, r2
  <2>5. BytesOf(r1, 8)
    BY <2>2, <2>3, <2>4, JoinedAt, Additions
  <2>6. BytesOf(r2, 12)
    BY <2>3, <2>4, <2>5, JoinedAt, Additions
  <2>7. BytesOf(rest, 16)
    BY <2>3, <2>4, <2>6, JoinedAt, MoreAdditions
  <2> QED BY <2>7, RestOfSize DEF rest
<1>6. CASE h.type \in ICMPMasks
  <2>1. h.type \notin ICMPErrors /\ rest = ids \o h.subnetmask
    BY <1>6, RestByType, ICMPTypesDiffer
  <2>2. BytesOf(ids, 4)
    BY <1>2, <2>1
  <2>3. BytesOf(h.subnetmask, 4)
    BY <1>6 DEF IsICMPHeader, IsAddress
  <2>4. Joins(rest, ids, h.subnetmask)
    BY <2>1 DEF Joins
  <2> HIDE DEF rest, ids
  <2>5. BytesOf(rest, 8)
    BY <2>2, <2>3, <2>4, JoinedAt, Additions
  <2> QED BY <2>5, RestOfSize DEF rest
<1> QED BY <1>1, <1>3, <1>4, <1>5, <1>6 DEF KnownICMP, Echo

-----------------------------------------------------------------------------
(* An ICMP message set_icmp writes: the checksum over all of it but the     *)
(* last byte of an odd number.                                              *)

LEMMA FoldRange ==
    ASSUME NEW s \in Int
    PROVE  fold_sum(s) \in Nat /\ fold_sum(s) < 65536
<1> DEFINE once == (s % 65536) + (s \div 65536)
           twice == ((once \div 65536) + (once % 65536)) % 65536
<1>1. once \in Int
  OBVIOUS
<1>2. fold_sum(s) = 65535 - twice
  BY DEF fold_sum
<1> HIDE DEF once
<1>3. twice \in Nat /\ twice < 65536
  BY <1>1
<1> HIDE DEF twice
<1> QED BY <1>2, <1>3

LEMMA ICMPWord ==
    ASSUME NEW z \in Seq(Byte), NEW junk \in Byte
    PROVE  BytesOf(host_bytes(in_cksum(z, junk)), 2)
<1>1. word_sum(z) \in Nat /\ junk \in Nat
  BY SumsExchanged, ByteRange DEF WordsBelow
<1>2. PICK s \in Int : in_cksum(z, junk) = fold_sum(s)
  BY <1>1 DEF in_cksum
<1>3. PICK c \in Nat : c < 65536 /\ c = fold_sum(s)
  BY FoldRange
<1>4. PICK x \in Byte, y \in Byte : host_bytes(c) = <<x, y>>
  BY <1>3, HostBytes
<1> QED BY <1>2, <1>3, <1>4, PairOf

(* The lemmas above, for a message that is named.                           *)
LEMMA NamedParts ==
    ASSUME NEW a \in Seq(Byte), NEW b \in Seq(Byte), NEW w \in Seq(Byte), NEW m, InParts(m, a, w, b)
    PROVE  m \in Seq(Byte) /\ Len(m) = Len(a) + Len(w) + Len(b)
<1> DEFINE g == a \o w
<1>1. g \in Seq(Byte) /\ Len(g) = Len(a) + Len(w)
  BY Joining DEF Concatenation
<1>2. m = g \o b
  BY DEF InParts
<1> HIDE DEF g
<1>3. Concatenation(g, b, m)
  BY <1>1, <1>2, Joining
<1> QED BY <1>1, <1>3 DEF Concatenation

LEMMA NamedFills ==
    ASSUME NEW n, NEW a, NEW b, Around(n, a, b), Even(Len(b)), NEW junk, NEW z, InParts(z, a, NoSum, b),
           NEW w, w = host_bytes(in_cksum(z, junk)), NEW m, InParts(m, a, w, b)
    PROVE  AddsUp(m)
<1>1. w = host_bytes(in_cksum(a \o <<0, 0>> \o b, junk))
  BY DEF InParts, NoSum
<1>2. PICK s : s = Sum16(a) + Sum16(b)
  OBVIOUS
<1>3. Fills(host_bytes(in_cksum(a \o <<0, 0>> \o b, junk)), s)
  BY <1>2, ChecksumFills DEF Around
<1>4. Fills(w, Sum16(a) + Sum16(b))
  BY <1>1, <1>2, <1>3
<1>5. AddsUp(a \o w \o b)
  BY <1>4, FilledAddsUp DEF Around
<1> QED BY <1>5 DEF InParts

(* An ICMP message of a known type.  With data of an odd length its words   *)
(* need not add up.                                                         *)
LEMMA ICMPMessage ==
    ASSUME NEW h, IsICMPHeader(h), NEW data \in Seq(Byte), Len(data) <= 65483, NEW junk \in Byte
    PROVE  LET part == set_icmp(h, data, junk)
           IN  /\ part \in Seq(Byte) /\ Len(part) <= 32 + Len(data)
               /\ Even(Len(data)) => AddsUp(part)
<1> DEFINE a == <<h.type % 256, h.code % 256>>
           b == icmp_rest(h, data, junk)
           z == a \o <<0, 0>> \o b
           w == host_bytes(in_cksum(z, junk))
           m == a \o w \o b
<1>1. h.type \in KnownICMP /\ h.type \in Int /\ h.code \in Int
  <2>1. h.type \in KnownICMP /\ h.code \in Int
    BY DEF IsICMPHeader
  <2>2. \A t \in KnownICMP : t \in Int
    BY DEF KnownICMP, ICMP_ECHOREPLY, ICMP_ECHO, ICMPErrors, ICMP_REDIRECT, ICMP_UNREACH,
           ICMP_SOURCEQUENCH, ICMP_TIMXCEED, ICMP_PARAMPROB, ICMPStamps, ICMP_TSTAMP,
           ICMP_TSTAMPREPLY, ICMPMasks, ICMP_MASKREQ, ICMP_MASKREPLY
  <2> QED BY <2>1, <2>2
<1>2. set_icmp(h, data, junk) = m
  BY <1>1 DEF set_icmp, KnownICMP
<1>3. BytesOf(a, 2)
  BY <1>1, ByteOf, PairOf
<1>4. b \in Seq(Byte) /\ Len(b) <= 28 + Len(data) /\ (Even(Len(data)) => Even(Len(b)))
  BY RestOfMessage DEF IsRest
<1>5. InParts(z, a, NoSum, b) /\ InParts(m, a, w, b) /\ w = host_bytes(in_cksum(z, junk))
  BY DEF InParts, NoSum
<1> HIDE DEF a, b, z, w, m
<1>6. a \in Seq(Byte) /\ Even(Len(a)) /\ Len(a) = 2
  <2>1. a \in Seq(Byte) /\ Even(Len(a))
    BY <1>3, EvenLength
  <2> QED BY <1>3, <2>1 DEF BytesOf
<1>7. z \in Seq(Byte)
  <2>1. NoSum \in Seq(Byte)
    BY ZeroBytes DEF BytesOf, NoSum
  <2> QED BY <1>4, <1>5, <1>6, <2>1, NamedParts
<1>8. BytesOf(w, 2)
  BY <1>5, <1>7, ICMPWord
<1>9. m \in Seq(Byte) /\ Len(m) = Len(a) + 2 + Len(b)
  <2>1. w \in Seq(Byte) /\ Len(w) = 2
    BY <1>8 DEF BytesOf
  <2>2. m \in Seq(Byte) /\ Len(m) = Len(a) + Len(w) + Len(b)
    <3>1. a \in Seq(Byte) /\ b \in Seq(Byte) /\ w \in Seq(Byte) /\ InParts(m, a, w, b)
      BY <1>4, <1>5, <1>6, <2>1
    <3> QED BY <3>1, NamedParts
  <2> QED BY <2>1, <2>2
<1>10. Len(m) <= 32 + Len(data) /\ MessageLength(Len(a) + 2 + Len(b))
  <2>1. PICK l \in Nat, k \in Nat : l = Len(data) /\ k = Len(b)
    BY <1>4
  <2>2. k <= 28 + l /\ l <= 65483
    BY <1>4, <2>1
  <2>3. Len(m) = 2 + 2 + k
    BY <1>6, <1>9, <2>1
  <2> QED BY <1>6, <2>1, <2>2, <2>3 DEF MessageLength
<1>11. ASSUME Even(Len(data)) PROVE AddsUp(m)
  <2>1. Even(Len(b))
    BY <1>4, <1>11
  <2>2. Around(Len(a) + 2 + Len(b), a, b)
    BY <1>4, <1>6, <1>10 DEF Around
  <2>3. PICK n : Around(n, a, b)
    BY <2>2
  <2> QED BY <1>5, <2>1, <2>3, NamedFills
<1> QED BY <1>2, <1>9, <1>10, <1>11

(* Of an unknown type as many bytes leave as there is data.                 *)
LEMMA UnknownMessage ==
    ASSUME NEW h, h.type \in Int, h.type \notin KnownICMP, h.code \in Int,
           NEW data \in Seq(Byte), NEW junk \in Byte
    PROVE  BytesOf(set_icmp(h, data, junk), Len(data))
<1> DEFINE a == <<h.type % 256, h.code % 256>>
           j == junk_bytes(Len(data), junk)
           z == a \o j
<1>1. set_icmp(h, data, junk) = SubSeq(z, 1, Len(data))
  BY DEF set_icmp, KnownICMP
<1>2. BytesOf(a, 2)
  BY ByteOf, PairOf
<1>3. PICK n \in Nat : n = Len(data)
  OBVIOUS
<1>4. BytesOf(j, n)
  BY <1>3, JunkBytes
<1>5. Joins(z, a, j) /\ Adds(2 + n, 2, n)
  BY DEF Joins, Adds
<1> HIDE DEF a, j, z
<1>6. BytesOf(z, 2 + n)
  BY <1>2, <1>4, <1>5, JoinedAt
<1>7. SubSeq(z, 1, n) \in Seq(Byte) /\ Len(SubSeq(z, 1, n)) = n
  BY <1>6 DEF BytesOf
<1> QED BY <1>1, <1>3, <1>7 DEF BytesOf

-----------------------------------------------------------------------------
(* A receiver's view of a frame: link header, IP header, the part behind    *)
(* it, and padding.                                                         *)

-----------------------------------------------------------------------------
(* The frame.                                                               *)

LEMMA HeaderPart ==
    ASSUME NEW b, NEW h, NEW payload, Carries(b, h, payload),
           NEW k \in Nat, NEW n \in Nat, k + n <= Len(h)
    PROVE  Bytes(b, 14 + k, n) = SubSeq(h, k + 1, k + n)
<1> DEFINE x == SubSeq(h, k + 1, k + n)
<1>1. /\ b \in Seq(Byte) /\ h \in Seq(Byte) /\ Len(h) \in Nat /\ Len(payload) \in Nat
      /\ 14 + Len(h) + Len(payload) <= Len(b) /\ Len(b) \in Nat
  BY DEF Carries
<1>2. x \in Seq(Byte) /\ Len(x) = n /\ \A i \in 1..n : x[i] = h[k + i]
  BY <1>1
<1> HIDE DEF x
<1>3. ASSUME NEW i \in 1..n PROVE b[14 + k + i] = x[i]
  <2>1. k + i \in 1..Len(h) /\ 14 + (k + i) = 14 + k + i
    BY <1>1
  <2>2. b[14 + (k + i)] = h[k + i]
    BY <2>1 DEF Carries
  <2> QED BY <1>2, <2>1, <2>2
<1>4. 14 + k \in Nat /\ 14 + k + Len(x) <= Len(b) /\ \A i \in 1..Len(x) : b[14 + k + i] = x[i]
  BY <1>1, <1>2, <1>3
<1>5. SubSeq(b, 14 + k + 1, 14 + k + Len(x)) = x
  BY <1>1, <1>2, <1>4, FoundAt, Zenon
<1> QED BY <1>2, <1>5 DEF Bytes, x

(* A frame that carries a header and a part that add up is accepted.        *)
LEMMA FrameVerifies ==
    ASSUME NEW frame, NEW iph, NEW part, Carries(frame, iph, part), BytesOf(iph, 20), AddsUp(iph),
           256 * iph[3] + iph[4] = 20 + Len(part),
           NEW exempt \in BOOLEAN, exempt \/ PartVerifies(iph, part)
    PROVE  ChecksumsRight(frame, exempt) /\ ntohs(frame, 16) = 20 + Len(part)
<1>1. iph \in Seq(Byte) /\ Len(iph) = 20 /\ Len(part) \in Nat
  BY DEF BytesOf, Carries
<1>2. PICK k2 \in Nat, k3 \in Nat, k9 \in Nat, k12 \in Nat, k0 \in Nat :
        k0 = 0 /\ k2 = 2 /\ k3 = 3 /\ k9 = 9 /\ k12 = 12
  OBVIOUS
<1>3. At(frame, 14 + k2) = iph[k2 + 1] /\ At(frame, 14 + k3) = iph[k3 + 1] /\ At(frame, 14 + k9) = iph[k9 + 1]
  <2>1. k2 < Len(iph) /\ k3 < Len(iph) /\ k9 < Len(iph)
    BY <1>1, <1>2
  <2> QED BY <2>1, HeaderByte
<1>4. At(frame, 16) = iph[3] /\ At(frame, 17) = iph[4] /\ At(frame, 23) = iph[10]
  <2>1. 14 + k2 = 16 /\ k2 + 1 = 3 /\ 14 + k3 = 17 /\ k3 + 1 = 4 /\ 14 + k9 = 23 /\ k9 + 1 = 10
    BY <1>2
  <2> QED BY <1>3, <2>1
<1>5. ntohs(frame, 16) = 20 + Len(part)
  <2>1. ntohs(frame, 16) = 256 * At(frame, 16) + At(frame, 17)
    BY DEF ntohs
  <2> QED BY <1>4, <2>1
<1>6. IPv4Verifies(frame)
  <2>1. PICK n \in Nat : n = 20
    OBVIOUS
  <2>2. Bytes(frame, 14 + k0, n) = SubSeq(iph, k0 + 1, k0 + n)
    <3>1. k0 + n <= Len(iph)
      BY <1>1, <1>2, <2>1
    <3> QED BY <3>1, HeaderPart
  <2>3. SubSeq(iph, k0 + 1, k0 + n) = iph
    BY <1>1, <1>2, <2>1
  <2>4. Bytes(frame, 14, 20) = iph
    <3>1. 14 + k0 = 14 /\ n = 20
      BY <1>2, <2>1
    <3> QED BY <2>2, <2>3, <3>1
  <2> QED BY <2>4 DEF IPv4Verifies
<1>7. SubSeq(frame, 35, 14 + ntohs(frame, 16)) = part
  <2>1. Bytes(frame, 14 + Len(iph), Len(part)) = part
    BY PayloadBytes
  <2>2. 14 + Len(iph) + 1 = 35 /\ 14 + Len(iph) + Len(part) = 14 + (20 + Len(part))
    BY <1>1
  <2>3. SubSeq(frame, 14 + Len(iph) + 1, 14 + Len(iph) + Len(part)) = part
    BY <2>1 DEF Bytes
  <2> QED BY <1>5, <2>2, <2>3
<1>8. Pseudo(frame, Len(part)) = PseudoOf(iph, Len(part))
  <2>1. PICK n \in Nat : n = 8
    OBVIOUS
  <2>2. Bytes(frame, 14 + k12, n) = SubSeq(iph, k12 + 1, k12 + n)
    <3>1. k12 + n <= Len(iph)
      BY <1>1, <1>2, <2>1
    <3> QED BY <3>1, HeaderPart
  <2>3. Bytes(frame, 26, 8) = Bytes(iph, 12, 8)
    <3>1. 14 + k12 = 26 /\ k12 = 12
      BY <1>2
    <3>2. Bytes(iph, k12, n) = SubSeq(iph, k12 + 1, k12 + n)
      BY DEF Bytes
    <3>3. Bytes(frame, 26, n) = Bytes(iph, 12, n)
      BY <2>2, <3>1, <3>2
    <3> QED BY <2>1, <3>3
  <2> QED BY <1>4, <2>3 DEF Pseudo, PseudoOf
<1>9. exempt \/ TransportVerifies(frame)
  <2> SUFFICES ASSUME ~exempt PROVE TransportVerifies(frame)
    OBVIOUS
  <2>1. PartVerifies(iph, part)
    OBVIOUS
  <2>2. TransportVerifies(frame) =
          (IF iph[10] \in {IPPROTO_TCP, IPPROTO_UDP} THEN AddsUp(Pseudo(frame, Len(part)) \o part)
           ELSE IF iph[10] = IPPROTO_ICMP THEN AddsUp(part) ELSE TRUE)
    BY <1>4, <1>7, Zenon DEF TransportVerifies
  <2>3. CASE iph[10] \in {IPPROTO_TCP, IPPROTO_UDP}
    <3>1. AddsUp(PseudoOf(iph, Len(part)) \o part)
      BY <2>1, <2>3 DEF PartVerifies, Covered
    <3> QED BY <1>8, <2>2, <2>3, <3>1
  <2>4. CASE iph[10] \notin {IPPROTO_TCP, IPPROTO_UDP}
    <3>1. iph[10] = IPPROTO_ICMP => AddsUp(part)
      BY <2>1, <2>4 DEF PartVerifies
    <3> QED BY <2>2, <2>4, <3>1
  <2> QED BY <2>3, <2>4
<1> QED BY <1>5, <1>6, <1>9 DEF ChecksumsRight

LEMMA PaddedFrame ==
    ASSUME NEW e, BytesOf(e, 14), NEW h \in Seq(Byte), NEW part \in Seq(Byte)
    PROVE  Carries(padded(e \o (h \o part)), h, part)
<1> DEFINE f == e \o (h \o part)
<1>1. e \in Seq(Byte) /\ Len(e) = 14
  BY DEF BytesOf
<1>2. f = (e \o h) \o part
  BY <1>1, JoinAgain
<1>3. e \o h \in Seq(Byte)
  BY <1>1, Joining DEF Concatenation
<1>4. f \in Seq(Byte)
  BY <1>2, <1>3, Joining DEF Concatenation
<1> HIDE DEF f
<1>5. CASE Len(f) < 60
  <2> DEFINE zero == [k \in 1..(60 - Len(f)) |-> 0]
  <2>1. padded(f) = f \o zero
    BY <1>5 DEF padded
  <2>2. zero \in Seq(Byte)
    <3>1. PICK n \in Nat : n = 60 - Len(f)
      BY <1>4, <1>5
    <3>2. [k \in 1..n |-> 0] \in [1..n -> Byte]
      BY DEF Byte
    <3> QED BY <3>1, <3>2, FunctionIsSequence
  <2> HIDE DEF zero
  <2>3. f \o zero = (e \o h) \o (part \o zero)
    BY <1>2, <1>3, <2>2, JoinAgain
  <2> QED BY <1>1, <2>1, <2>2, <2>3, FrameOf DEF f
<1>6. CASE ~(Len(f) < 60)
  <2>1. padded(f) = f
    BY <1>6 DEF padded
  <2>2. PICK none \in Seq(Byte) : part \o none = part
    <3>1. <<>> \in Seq(Byte) /\ part \o <<>> = part
      OBVIOUS
    <3> QED BY <3>1
  <2>3. Carries((e \o h) \o (part \o none), h, part)
    BY <1>1, FrameOf
  <2> QED BY <1>2, <2>1, <2>2, <2>3 DEF f
<1> QED BY <1>5, <1>6

-----------------------------------------------------------------------------
(* The packet objects JpcapSender takes.                                    *)

(* An IPv4 packet object whose data fit the buffer behind the headers.      *)
IsLink(d) == d # <<>> /\ BytesOf(d.dst_mac, 6) /\ BytesOf(d.src_mac, 6) /\ d.frametype \in Int

IsIPv4Packet(p) ==
    /\ IsLink(p.datalink) /\ IsIPv4Header(p.network) /\ p.data \in Seq(Byte) /\ Len(p.data) <= 1560
    /\ \/ p.class = "TCPPacket" /\ IsTCPHeader(p.transport)
       \/ p.class = "UDPPacket" /\ IsUDPHeader(p.transport)
       \/ /\ p.class = "ICMPPacket" /\ p.transport.type \in Int /\ p.transport.code \in Int
          /\ p.transport.type \in KnownICMP => IsICMPHeader(p.transport)
       \/ /\ p.class = "IPPacket" /\ p.network.protocol \in Int
          /\ p.network.protocol % 256 \notin {IPPROTO_TCP, IPPROTO_UDP, IPPROTO_ICMP}

(* Of an ICMP message of an unknown type, and of one with an odd number of  *)
(* bytes, the words need not add up.                                        *)
Exempt(p) ==
    p.class = "ICMPPacket" /\ (p.transport.type \notin KnownICMP \/ ~Even(Len(p.data)))

IsPart(part, n) == part \in Seq(Byte) /\ Len(part) = n

(* What set_transport puts behind an IPv4 header, and how long set_network  *)
(* takes it for.                                                            *)
PartIs(p, part, junk) ==
    /\ part \in Seq(Byte) /\ Len(part) = transport_length(p, junk) /\ MessageLength(Len(part) + 20)

LEMMA PartOfTCP ==
    ASSUME NEW p, p.class = "TCPPacket", IsTCPHeader(p.transport), p.data \in Seq(Byte), Len(p.data) <= 1560,
           NEW iph, BytesOf(iph, 20), NEW junk \in Byte
    PROVE  LET part == set_transport(p, iph, junk)
           IN  PartIs(p, part, junk) /\ (iph[10] = IPPROTO_TCP => PartVerifies(iph, part))
<1> DEFINE part == set_tcp(p.transport, p.data, iph, junk)
<1>1. PICK data \in Seq(Byte) : data = p.data
  OBVIOUS
<1>2. Len(data) <= 1560
  BY <1>1
<1>3. BytesOf(set_tcp(p.transport, data, iph, junk), Len(data) + 20)
      /\ Covered(iph, Len(set_tcp(p.transport, data, iph, junk)), set_tcp(p.transport, data, iph, junk))
  BY <1>2, TCPSegment
<1>4. BytesOf(part, Len(data) + 20) /\ Covered(iph, Len(part), part)
  BY <1>1, <1>3
<1>5. set_transport(p, iph, junk) = part /\ transport_length(p, junk) = Len(data) + 20
  BY <1>1 DEF set_transport, transport_length, TCPHDRLEN
<1> HIDE DEF part
<1>6. PartIs(p, part, junk)
  BY <1>2, <1>4, <1>5 DEF PartIs, BytesOf, MessageLength
<1>7. iph[10] = IPPROTO_TCP => PartVerifies(iph, part)
  BY <1>4 DEF PartVerifies
<1> QED BY <1>5, <1>6, <1>7

LEMMA PartOfUDP ==
    ASSUME NEW p, p.class = "UDPPacket", IsUDPHeader(p.transport), p.data \in Seq(Byte), Len(p.data) <= 1560,
           NEW iph, BytesOf(iph, 20), NEW junk \in Byte
    PROVE  LET part == set_transport(p, iph, junk)
           IN  PartIs(p, part, junk) /\ (iph[10] = IPPROTO_UDP => PartVerifies(iph, part))
<1> DEFINE part == set_udp(p.transport, p.data, iph)
<1>1. PICK data \in Seq(Byte) : data = p.data
  OBVIOUS
<1>2. Len(data) <= 1572 /\ Len(data) <= 1560
  BY <1>1
<1>3. BytesOf(set_udp(p.transport, data, iph), Len(data) + 8)
      /\ Covered(iph, Len(set_udp(p.transport, data, iph)), set_udp(p.transport, data, iph))
  BY <1>2, UDPSegment
<1>4. BytesOf(part, Len(data) + 8) /\ Covered(iph, Len(part), part)
  BY <1>1, <1>3
<1>5. set_transport(p, iph, junk) = part /\ transport_length(p, junk) = Len(data) + 8
  BY <1>1 DEF set_transport, transport_length, UDPHDRLEN
<1> HIDE DEF part
<1>6. PartIs(p, part, junk)
  BY <1>2, <1>4, <1>5 DEF PartIs, BytesOf, MessageLength
<1>7. iph[10] = IPPROTO_UDP => PartVerifies(iph, part)
  BY <1>4 DEF PartVerifies
<1> QED BY <1>5, <1>6, <1>7

LEMMA PartOfICMP ==
    ASSUME NEW p, p.class = "ICMPPacket", p.transport.type \in Int, p.transport.code \in Int,
           p.transport.type \in KnownICMP => IsICMPHeader(p.transport),
           p.data \in Seq(Byte), Len(p.data) <= 1560,
           NEW iph, BytesOf(iph, 20), NEW junk \in Byte
    PROVE  LET part == set_transport(p, iph, junk)
           IN  PartIs(p, part, junk)
               /\ (iph[10] = IPPROTO_ICMP => Exempt(p) \/ PartVerifies(iph, part))
<1> DEFINE part == set_icmp(p.transport, p.data, junk)
<1>1. PICK data \in Seq(Byte) : data = p.data
  OBVIOUS
<1>2. Len(data) <= 1560
  BY <1>1
<1>3. PICK h : h = p.transport
  OBVIOUS
<1>4. /\ part \in Seq(Byte) /\ MessageLength(Len(part) + 20)
      /\ Exempt(p) \/ AddsUp(part)
  <2>1. CASE h.type \in KnownICMP
    <3>1. IsICMPHeader(h)
      BY <1>3, <2>1
    <3>2. PICK l \in Nat : l = Len(data)
      OBVIOUS
    <3>3. /\ set_icmp(h, data, junk) \in Seq(Byte) /\ Len(set_icmp(h, data, junk)) <= 32 + Len(data)
          /\ Even(Len(data)) => AddsUp(set_icmp(h, data, junk))
      <4>1. Len(data) <= 65483
        BY <1>2
      <4> QED BY <3>1, <4>1, ICMPMessage
    <3>4. part \in Seq(Byte) /\ Len(part) <= 32 + Len(data) /\ (Even(Len(data)) => AddsUp(part))
      BY <1>1, <1>3, <3>3
    <3>5. Exempt(p) \/ Even(Len(data))
      BY <1>1 DEF Exempt
    <3> HIDE DEF part
    <3>6. MessageLength(Len(part) + 20)
      BY <1>2, <3>4 DEF MessageLength
    <3> QED BY <3>4, <3>5, <3>6
  <2>2. CASE h.type \notin KnownICMP
    <3>1. BytesOf(set_icmp(h, data, junk), Len(data))
      BY <1>3, <2>2, UnknownMessage
    <3>2. BytesOf(part, Len(data))
      BY <1>1, <1>3, <3>1
    <3>3. Exempt(p)
      BY <1>3, <2>2 DEF Exempt
    <3> HIDE DEF part
    <3> QED BY <1>2, <3>2, <3>3 DEF BytesOf, MessageLength
  <2> QED BY <2>1, <2>2
<1>5. set_transport(p, iph, junk) = part /\ transport_length(p, junk) = Len(part)
  BY DEF set_transport, transport_length
<1> HIDE DEF part
<1>6. PartIs(p, part, junk)
  BY <1>4, <1>5 DEF PartIs
<1>7. iph[10] = IPPROTO_ICMP => Exempt(p) \/ PartVerifies(iph, part)
  BY <1>4 DEF PartVerifies, IPPROTO_ICMP, IPPROTO_TCP, IPPROTO_UDP
<1> QED BY <1>5, <1>6, <1>7

LEMMA ProtocolOf ==
    ASSUME NEW p, IsIPv4Packet(p)
    PROVE  /\ proto_of(p) \in Byte
           /\ p.class = "TCPPacket" => proto_of(p) = IPPROTO_TCP
           /\ p.class = "UDPPacket" => proto_of(p) = IPPROTO_UDP
           /\ p.class = "ICMPPacket" => proto_of(p) = IPPROTO_ICMP
           /\ p.class = "IPPacket" => proto_of(p) \notin {IPPROTO_TCP, IPPROTO_UDP, IPPROTO_ICMP}
<1>1. /\ p.class = "TCPPacket" => proto_of(p) = IPPROTO_TCP
      /\ p.class = "UDPPacket" => proto_of(p) = IPPROTO_UDP
      /\ p.class = "ICMPPacket" => proto_of(p) = IPPROTO_ICMP
      /\ p.class = "IPPacket" => proto_of(p) = p.network.protocol % 256
  BY DEF proto_of
<1>2. p.class \in {"TCPPacket", "UDPPacket", "ICMPPacket", "IPPacket"}
  BY DEF IsIPv4Packet
<1>3. IPPROTO_TCP \in Byte /\ IPPROTO_UDP \in Byte /\ IPPROTO_ICMP \in Byte
  BY DEF IPPROTO_TCP, IPPROTO_UDP, IPPROTO_ICMP, Byte
<1>4. p.class = "IPPacket" =>
        p.network.protocol \in Int /\ p.network.protocol % 256 \notin {IPPROTO_TCP, IPPROTO_UDP, IPPROTO_ICMP}
  BY DEF IsIPv4Packet
<1>5. proto_of(p) \in Byte
  BY <1>1, <1>2, <1>3, <1>4, ByteOf
<1> QED BY <1>1, <1>4, <1>5

LEMMA PartOf ==
    ASSUME NEW p, IsIPv4Packet(p), NEW iph, BytesOf(iph, 20), NEW junk \in Byte
    PROVE  LET part == set_transport(p, iph, junk)
           IN  PartIs(p, part, junk) /\ (iph[10] = proto_of(p) => Exempt(p) \/ PartVerifies(iph, part))
<1> DEFINE part == set_transport(p, iph, junk)
<1>0. p.data \in Seq(Byte) /\ Len(p.data) <= 1560
  BY DEF IsIPv4Packet
<1>1. CASE p.class = "TCPPacket"
  <2>1. IsTCPHeader(p.transport)
    BY <1>1 DEF IsIPv4Packet
  <2>2. PartIs(p, part, junk) /\ (iph[10] = IPPROTO_TCP => PartVerifies(iph, part))
    BY <1>0, <1>1, <2>1, PartOfTCP
  <2> QED BY <1>1, <2>2, ProtocolOf
<1>2. CASE p.class = "UDPPacket"
  <2>1. IsUDPHeader(p.transport)
    BY <1>2 DEF IsIPv4Packet
  <2>2. PartIs(p, part, junk) /\ (iph[10] = IPPROTO_UDP => PartVerifies(iph, part))
    BY <1>0, <1>2, <2>1, PartOfUDP
  <2> QED BY <1>2, <2>2, ProtocolOf
<1>3. CASE p.class = "ICMPPacket"
  <2>1. /\ p.transport.type \in Int /\ p.transport.code \in Int
        /\ p.transport.type \in KnownICMP => IsICMPHeader(p.transport)
    BY <1>3 DEF IsIPv4Packet
  <2>2. PartIs(p, part, junk) /\ (iph[10] = IPPROTO_ICMP => Exempt(p) \/ PartVerifies(iph, part))
    BY <1>0, <1>3, <2>1, PartOfICMP
  <2> QED BY <1>3, <2>2, ProtocolOf
<1>4. CASE p.class = "IPPacket"
  <2>1. part = p.data /\ transport_length(p, junk) = Len(p.data)
    BY <1>4 DEF set_transport, transport_length
  <2> HIDE DEF part
  <2>2. PartIs(p, part, junk)
    BY <1>0, <2>1 DEF PartIs, MessageLength
  <2>3. iph[10] = proto_of(p) => PartVerifies(iph, part)
    BY <1>4, ProtocolOf DEF PartVerifies
  <2> QED BY <2>2, <2>3 DEF part
<1> QED BY <1>1, <1>2, <1>3, <1>4 DEF IsIPv4Packet

LEMMA NoJunk ==
    ASSUME NEW s \in Seq(Byte), NEW junk, NEW n, n = Len(s)
    PROVE  s \o junk_bytes(n - Len(s), junk) = s
<1>1. n - Len(s) = 0
  OBVIOUS
<1>2. junk_bytes(0, junk) = <<>>
  BY DEF junk_bytes
<1>3. s \o <<>> = s
  OBVIOUS
<1> QED BY <1>1, <1>2, <1>3

(* An IPv4 packet is its header, whose words add up and whose length is     *)
(* right, and its part, which adds up unless it is exempt.                  *)
LEMMA NetworkOf ==
    ASSUME NEW p, IsIPv4Packet(p), NEW junk \in Byte
    PROVE  \E iph, part \in Seq(Byte) :
             /\ set_network(p, junk) = iph \o part
             /\ BytesOf(iph, 20) /\ AddsUp(iph) /\ 256 * iph[3] + iph[4] = 20 + Len(part)
             /\ Exempt(p) \/ PartVerifies(iph, part)
<1> DEFINE h == p.network
           proto == proto_of(p)
           length == transport_length(p, junk) + 20
           iph == finished_ip(h, length, proto)
           part == set_transport(p, iph, junk)
           sent == iph \o part
<1>1. IsIPv4Header(h) /\ h.version = 4 /\ proto \in Byte
  BY ProtocolOf DEF IsIPv4Packet, IsIPv4Header
<1>2. set_network(p, junk) = sent \o junk_bytes(length - Len(sent), junk)
  BY <1>1 DEF set_network, IPv4HDRLEN
<1>3. MessageLength(length)
  <2>1. PICK zeros20 : BytesOf(zeros20, 20)
    <3>1. PICK z \in Byte : z = 0
      BY DEF Byte
    <3>2. PICK n \in Nat : n = 20
      OBVIOUS
    <3>3. BytesOf(junk_bytes(n, z), n)
      BY JunkBytes
    <3> QED BY <3>2, <3>3
  <2>2. PartIs(p, set_transport(p, zeros20, junk), junk)
    BY <2>1, PartOf
  <2> QED BY <2>2 DEF PartIs
<1> HIDE DEF length
<1>4. /\ BytesOf(iph, 20) /\ AddsUp(iph)
      /\ 256 * iph[3] + iph[4] = length /\ iph[10] = proto
  BY <1>1, <1>3, HeaderChecksum
<1> HIDE DEF iph
<1>5. PartIs(p, part, junk) /\ (Exempt(p) \/ PartVerifies(iph, part))
  BY <1>4, PartOf
<1> HIDE DEF part
<1>6. part \in Seq(Byte) /\ Len(part) \in Nat /\ length = Len(part) + 20
  BY <1>5 DEF PartIs, length
<1>7. iph \in Seq(Byte) /\ Len(iph) = 20
  BY <1>4 DEF BytesOf
<1>8. sent \in Seq(Byte) /\ Len(sent) = length
  <2>1. Concatenation(iph, part, sent)
    BY <1>6, <1>7, Joining
  <2> QED BY <1>6, <1>7, <2>1 DEF Concatenation
<1>9. set_network(p, junk) = sent
  <2> HIDE DEF sent
  <2> QED BY <1>2, <1>8, NoJunk
<1>10. 256 * iph[3] + iph[4] = 20 + Len(part)
  BY <1>4, <1>6
<1> QED BY <1>4, <1>5, <1>6, <1>7, <1>9, <1>10

(* Of every IPv4 packet object, with numbers of any size in its headers and *)
(* any data that fit the buffer, the checksums that leave with the frame    *)
(* are right: those of TCP and UDP for an odd number of bytes too, that of  *)
(* ICMP for an even number and a type that set_icmp knows.                  *)
THEOREM SentChecksums ==
    ASSUME NEW p, IsIPv4Packet(p), NEW junk \in Byte
    PROVE  LET frame == nativeSendPacket(p, junk)
           IN  ChecksumsRight(frame, Exempt(p))
<1> DEFINE e == set_ether(p.datalink)
<1>1. PICK iph \in Seq(Byte), part \in Seq(Byte) :
        /\ set_network(p, junk) = iph \o part
        /\ BytesOf(iph, 20) /\ AddsUp(iph) /\ 256 * iph[3] + iph[4] = 20 + Len(part)
        /\ Exempt(p) \/ PartVerifies(iph, part)
  BY NetworkOf
<1>2. BytesOf(e, 14)
  <2> DEFINE d == p.datalink
             m == d.dst_mac \o d.src_mac
  <2>1. d # <<>> /\ BytesOf(d.dst_mac, 6) /\ BytesOf(d.src_mac, 6) /\ d.frametype \in Int
    BY DEF IsIPv4Packet, IsLink
  <2>2. e = m \o htons(d.frametype)
    BY <2>1 DEF set_ether
  <2>3. BytesOf(htons(d.frametype), 2)
    BY <2>1, HtonsPair
  <2>4. Joins(m, d.dst_mac, d.src_mac) /\ Joins(e, m, htons(d.frametype))
    BY <2>2 DEF Joins
  <2> HIDE DEF e, m
  <2>5. BytesOf(m, 12)
    BY <2>1, <2>4, JoinedAt, Additions
  <2> QED BY <2>3, <2>4, <2>5, JoinedAt, Additions
<1> HIDE DEF e
<1>3. nativeSendPacket(p, junk) = padded(e \o (iph \o part))
  <2>1. p.class \in {"TCPPacket", "UDPPacket", "ICMPPacket", "IPPacket"}
    BY DEF IsIPv4Packet
  <2>2. set_packet(p, TRUE, junk) = e \o set_network(p, junk)
    BY <2>1 DEF set_packet, e
  <2> QED BY <1>1, <2>2 DEF nativeSendPacket
<1>4. Carries(nativeSendPacket(p, junk), iph, part)
  BY <1>2, <1>3, PaddedFrame
<1>5. Exempt(p) \in BOOLEAN
  BY DEF Exempt
<1> QED BY <1>1, <1>4, <1>5, FrameVerifies

-----------------------------------------------------------------------------
(* The checksums of the stack's own packets, which Utility.checksum makes   *)
(* right when one carry is enough.                                          *)

-----------------------------------------------------------------------------
(* What the stack sends itself.                                             *)

(* One carry is enough: the sum with its carry has 16 bits.                 *)
OneCarry(s) == Carry(s) < 65536

LEMMA CarryFills ==
    ASSUME NEW s \in Nat, OneCarry(s), NEW c \in Nat, c = 65535 - (Carry(s) % 65536)
    PROVE  (s + c) % 65535 = 0
<1>1. PICK l \in Nat, h \in Nat : l = s % 65536 /\ h = s \div 65536 /\ s = 65536 * h + l
  OBVIOUS
<1>2. Carry(s) = l + h
  BY <1>1 DEF Carry
<1>3. l + h < 65536
  BY <1>2 DEF OneCarry
<1>4. (l + h) % 65536 = l + h
  BY <1>1, <1>3
<1>5. c = 65535 - (l + h)
  BY <1>2, <1>4
<1>6. s + c = 65535 * (h + 1)
  BY <1>1, <1>5
<1>7. s + c \in Nat /\ h + 1 \in Int
  BY <1>1
<1> QED BY <1>6, <1>7, Multiple

(* A message of the stack whose sum needs one carry adds up.                *)
LEMMA ChecksumAddsUp ==
    ASSUME NEW b \in Seq(Byte), NEW n \in Nat, Even(n), n + 2 <= Len(b), b[n + 1] = 0, b[n + 2] = 0
    PROVE  LET m == with_checksum(b, n)
           IN  /\ m \in Seq(Byte) /\ Len(m) = Len(b)
               /\ \A i \in 1..Len(b) : i # n + 1 /\ i # n + 2 => m[i] = b[i]
               /\ OneCarry(Sum16(b)) => AddsUp(m)
<1> DEFINE x == checksum(b) \div 256
           y == checksum(b) % 256
           a == with_checksum(b, n)
<1>1. x \in Byte /\ y \in Byte /\ 256 * x + y = checksum(b) /\ checksum(b) \in Nat
  BY ChecksumRange
<1>2. a = [b EXCEPT ![n + 1] = x, ![n + 2] = y]
  BY DEF with_checksum
<1> HIDE DEF a, x, y
<1>3. /\ a \in Seq(Byte) /\ Len(a) = Len(b) /\ a[n + 1] = x /\ a[n + 2] = y
      /\ \A i \in 1..Len(b) : i # n + 1 /\ i # n + 2 => a[i] = b[i]
  BY <1>1, <1>2, FieldWritten
<1>4. Sum16(a) = Sum16(b) + checksum(b)
  <2>1. n % 2 = 0
    BY DEF Even
  <2> QED BY <1>1, <1>3, <2>1, SumWithField
<1>5. ASSUME OneCarry(Sum16(b)) PROVE AddsUp(a)
  <2>1. PICK c \in Nat : c = checksum(b) /\ c = 65535 - (Carry(Sum16(b)) % 65536)
    BY <1>1 DEF checksum
  <2>2. PICK s \in Nat : s = Sum16(b)
    BY SumRange
  <2>3. (s + c) % 65535 = 0
    BY <1>5, <2>1, <2>2, CarryFills
  <2> QED BY <1>4, <2>1, <2>2, <2>3 DEF AddsUp
<1> QED BY <1>3, <1>5 DEF a

(* A part of a message with its length and its sum.                         *)
Piece(b, n, s) == BytesOf(b, n) /\ Sum16(b) = s /\ s \in Nat

LEMMA JoinedPieces ==
    ASSUME NEW k, NEW m, NEW n, Adds(k, m, n), Even(m), NEW s, NEW t,
           NEW x, NEW y, NEW z, Joins(z, x, y), Piece(x, m, s), Piece(y, n, t)
    PROVE  Piece(z, k, s + t)
<1>1. BytesOf(z, k)
  BY JoinedAt DEF Piece
<1>2. x \in Seq(Byte) /\ y \in Seq(Byte) /\ Even(Len(x)) /\ Sum16(x) = s /\ Sum16(y) = t
      /\ s \in Nat /\ t \in Nat
  BY DEF Piece, BytesOf
<1>3. Sum16(x \o y) = Sum16(x) + Sum16(y)
  BY <1>2, SumJoined
<1>4. Sum16(z) = s + t /\ s + t \in Nat
  BY <1>2, <1>3 DEF Joins
<1> QED BY <1>1, <1>4 DEF Piece

LEMMA PieceOfWord ==
    ASSUME NEW u \in Byte, NEW v \in Byte
    PROVE  Piece(<<u, v>>, 2, 256 * u + v)
<1>1. u \in Nat /\ v \in Nat
  BY ByteRange
<1> QED BY <1>1, PairOf, SumOfWord DEF Piece

LEMMA PieceOfNumber ==
    ASSUME NEW n \in Int
    PROVE  Piece(htons(n), 2, n % 65536)
<1>1. n % 65536 \in Nat
  OBVIOUS
<1> QED BY <1>1, Htons, HtonsPair DEF Piece

LEMMA PieceOf ==
    ASSUME NEW b, NEW n, BytesOf(b, n)
    PROVE  Piece(b, n, Sum16(b))
BY SumRange DEF Piece, BytesOf

LEMMA EvenSizes == Even(2) /\ Even(4) /\ Even(6) /\ Even(8) /\ Even(10) /\ Even(12) /\ Even(14) /\ Even(16)
BY DEF Even

LEMMA FourBytes ==
    ASSUME NEW u \in Byte, NEW v \in Byte, NEW x \in Byte, NEW y \in Byte
    PROVE  Piece(<<u, v, x, y>>, 4, (256 * u + v) + (256 * x + y))
<1> DEFINE a == <<u, v>>
           b == <<x, y>>
           c == <<u, v, x, y>>
<1>1. Joins(c, a, b)
  BY DEF Joins
<1>2. Piece(a, 2, 256 * u + v) /\ Piece(b, 2, 256 * x + y)
  BY PieceOfWord
<1>3. PICK s, t : s = 256 * u + v /\ t = 256 * x + y
  OBVIOUS
<1>4. Piece(a, 2, s) /\ Piece(b, 2, t)
  BY <1>2, <1>3
<1> HIDE DEF a, b, c
<1>5. Piece(c, 4, s + t)
  BY <1>1, <1>4, Additions, EvenSizes, JoinedPieces
<1> QED BY <1>3, <1>5 DEF c

(* What an application asks of the IP layer.                                *)
Asked(n, dest, proto, id) ==
    [data_length |-> n, destination_ip |-> dest, protocol |-> proto, identification |-> id]

LEMMA AskedFields ==
    ASSUME NEW n, NEW dest, NEW proto, NEW id, NEW own
    PROVE  LET h == completed(Asked(n, dest, proto, id), ip_defaults(own))
           IN  /\ h.internet_header_length = 5 /\ h.dscp = 0 /\ h.ecn = 0 /\ h.options = <<>>
               /\ h.flag = 0 /\ h.fragment_offset = 0 /\ h.time_to_live = 64 /\ h.source_ip = own
               /\ h.data_length = n /\ h.destination_ip = dest /\ h.protocol = proto
               /\ h.identification = id
BY DEF completed, ip_defaults, Asked

(* What createIPHeader puts the checksum into.                              *)
Unsummed(n, own, dest, proto, id) ==
    ((((((<<69, 0>> \o htons(n + 20)) \o htons(id)) \o htons(0)) \o <<64, proto, 0, 0>>) \o own) \o dest)

UnsummedSum(n, own, dest, proto, id) ==
    ((((((256 * 69 + 0) + ((n + 20) % 65536)) + (id % 65536)) + (0 % 65536))
       + ((256 * 64 + proto) + (256 * 0 + 0))) + Sum16(own)) + Sum16(dest)

IsUnsummed(b, n, proto, sum) ==
    /\ Piece(b, 20, sum)
    /\ b[3] = htons(n + 20)[1] /\ b[4] = htons(n + 20)[2] /\ b[10] = proto
    /\ b[11] = 0 /\ b[12] = 0

LEMMA UnsummedPiece ==
    ASSUME NEW n \in Nat, NEW own, BytesOf(own, 4), NEW dest, BytesOf(dest, 4), NEW proto \in Byte, NEW id \in Int
    PROVE  IsUnsummed(Unsummed(n, own, dest, proto, id), n, proto, UnsummedSum(n, own, dest, proto, id))
<1> DEFINE a1 == <<69, 0>>
           a2 == a1 \o htons(n + 20)
           a3 == a2 \o htons(id)
           a4 == a3 \o htons(0)
           c == <<64, proto, 0, 0>>
           a5 == a4 \o c
           a6 == a5 \o own
           b == a6 \o dest
<1>0. PICK s1, s2, s3, s4, s5, s6, s7 :
        /\ s1 = 256 * 69 + 0 /\ s2 = (n + 20) % 65536 /\ s3 = id % 65536 /\ s4 = 0 % 65536
        /\ s5 = (256 * 64 + proto) + (256 * 0 + 0) /\ s6 = Sum16(own) /\ s7 = Sum16(dest)
  OBVIOUS
<1>1. Piece(a1, 2, s1) /\ Piece(c, 4, s5)
  <2>1. PICK u \in Byte, v \in Byte, w \in Byte : u = 69 /\ v = 0 /\ w = 64
    BY DEF Byte
  <2>2. Piece(<<u, v>>, 2, 256 * u + v)
    BY PieceOfWord
  <2>3. Piece(<<w, proto, v, v>>, 4, (256 * w + proto) + (256 * v + v))
    BY FourBytes
  <2> QED BY <1>0, <2>1, <2>2, <2>3
<1>2. Piece(htons(n + 20), 2, s2) /\ Piece(htons(id), 2, s3) /\ Piece(htons(0), 2, s4)
  <2>1. n + 20 \in Int /\ 0 \in Int
    OBVIOUS
  <2> QED BY <1>0, <2>1, PieceOfNumber
<1>3. Piece(own, 4, s6) /\ Piece(dest, 4, s7)
  BY <1>0, PieceOf
<1>4. /\ Joins(a2, a1, htons(n + 20)) /\ Joins(a3, a2, htons(id)) /\ Joins(a4, a3, htons(0))
      /\ Joins(a5, a4, c) /\ Joins(a6, a5, own) /\ Joins(b, a6, dest)
      /\ b = Unsummed(n, own, dest, proto, id)
  BY DEF Joins, Unsummed
<1>5. c[2] = proto /\ c[3] = 0 /\ c[4] = 0
  OBVIOUS
<1> HIDE DEF a1, a2, a3, a4, a5, a6, b, c
<1>6. Adds(16, 12, 4) /\ Adds(20, 16, 4)
  BY DEF Adds
<1>7. Piece(a2, 4, s1 + s2)
  BY <1>1, <1>2, <1>4, Additions, EvenSizes, JoinedPieces
<1>8. Piece(a3, 6, s1 + s2 + s3)
  BY <1>2, <1>4, <1>7, Additions, EvenSizes, JoinedPieces
<1>9. Piece(a4, 8, s1 + s2 + s3 + s4)
  BY <1>2, <1>4, <1>8, Additions, EvenSizes, JoinedPieces
<1>10. Piece(a5, 12, s1 + s2 + s3 + s4 + s5)
  BY <1>1, <1>4, <1>9, Additions, EvenSizes, JoinedPieces
<1>11. Piece(a6, 16, s1 + s2 + s3 + s4 + s5 + s6)
  BY <1>3, <1>4, <1>6, <1>10, EvenSizes, JoinedPieces
<1>12. Piece(b, 20, s1 + s2 + s3 + s4 + s5 + s6 + s7)
  BY <1>3, <1>4, <1>6, <1>11, EvenSizes, JoinedPieces
<1>13. UnsummedSum(n, own, dest, proto, id) = s1 + s2 + s3 + s4 + s5 + s6 + s7
  BY <1>0 DEF UnsummedSum
<1>14. /\ \A i \in 1..2 : a2[2 + i] = htons(n + 20)[i]
       /\ \A i \in 1..4 : a3[i] = a2[i]
       /\ \A i \in 1..6 : a4[i] = a3[i]
  <2>1. /\ BytesOf(a1, 2) /\ BytesOf(htons(n + 20), 2) /\ BytesOf(a2, 4) /\ BytesOf(htons(id), 2)
        /\ BytesOf(a3, 6) /\ BytesOf(htons(0), 2)
    BY <1>1, <1>2, <1>7, <1>8 DEF Piece
  <2>2. \A i \in 1..2 : a2[2 + i] = htons(n + 20)[i]
    BY <1>4, <2>1, Additions, JoinedAt
  <2>3. \A i \in 1..4 : a3[i] = a2[i]
    BY <1>4, <2>1, Additions, JoinedAt
  <2>4. \A i \in 1..6 : a4[i] = a3[i]
    BY <1>4, <2>1, Additions, JoinedAt
  <2> QED BY <2>2, <2>3, <2>4
<1>15. /\ \A i \in 1..8 : a5[i] = a4[i]
       /\ \A i \in 1..4 : a5[8 + i] = c[i]
       /\ \A i \in 1..12 : a6[i] = a5[i]
       /\ \A i \in 1..16 : b[i] = a6[i]
  <2>1. /\ BytesOf(a4, 8) /\ BytesOf(c, 4) /\ BytesOf(a5, 12) /\ BytesOf(a6, 16)
    BY <1>1, <1>9, <1>10, <1>11 DEF Piece
  <2>2. (\A i \in 1..8 : a5[i] = a4[i]) /\ \A i \in 1..4 : a5[8 + i] = c[i]
    BY <1>4, <2>1, Additions, JoinedAt
  <2>3. \A i \in 1..12 : a6[i] = a5[i]
    BY <1>4, <1>6, <2>1, JoinedAt
  <2>4. \A i \in 1..16 : b[i] = a6[i]
    BY <1>4, <1>6, <2>1, JoinedAt
  <2> QED BY <2>2, <2>3, <2>4
<1>16. b[3] = htons(n + 20)[1] /\ b[4] = htons(n + 20)[2]
  <2>1. a2[2 + 1] = htons(n + 20)[1] /\ a2[2 + 2] = htons(n + 20)[2]
    BY <1>14
  <2>2. b[3] = a2[3] /\ b[4] = a2[4]
    BY <1>14, <1>15
  <2> QED BY <2>1, <2>2
<1>17. b[10] = proto /\ b[11] = 0 /\ b[12] = 0
  <2>1. a5[8 + 2] = c[2] /\ a5[8 + 3] = c[3] /\ a5[8 + 4] = c[4]
    BY <1>15
  <2>2. b[10] = a5[10] /\ b[11] = a5[11] /\ b[12] = a5[12]
    BY <1>15
  <2> QED BY <1>5, <2>1, <2>2
<1> QED BY <1>4, <1>12, <1>13, <1>16, <1>17 DEF IsUnsummed

(* The IPv4 header an application gets.  Its words add up when the sum      *)
(* needs one carry.                                                         *)
THEOREM CreatedHeader ==
    ASSUME NEW n, MessageLength(n), NEW own, BytesOf(own, 4), NEW dest, BytesOf(dest, 4),
           NEW proto \in Byte, NEW id \in Int
    PROVE  LET iph == createIPHeader(Asked(n, dest, proto, id), own)
           IN  /\ BytesOf(iph, 20) /\ 256 * iph[3] + iph[4] = 20 + n /\ iph[10] = proto
               /\ OneCarry(UnsummedSum(n, own, dest, proto, id)) => AddsUp(iph)
<1> DEFINE h == completed(Asked(n, dest, proto, id), ip_defaults(own))
           b == Unsummed(n, own, dest, proto, id)
           iph == createIPHeader(Asked(n, dest, proto, id), own)
<1>0. n \in Nat /\ n + 20 < 65536
  BY DEF MessageLength
<1>10. IsUnsummed(b, n, proto, UnsummedSum(n, own, dest, proto, id))
  <2> HIDE DEF h, iph
  <2> QED BY <1>0, UnsummedPiece
<1> HIDE DEF b
<1>1. /\ Piece(b, 20, UnsummedSum(n, own, dest, proto, id))
      /\ b[3] = htons(n + 20)[1] /\ b[4] = htons(n + 20)[2] /\ b[10] = proto
      /\ b[11] = 0 /\ b[12] = 0
  BY <1>10 DEF IsUnsummed
<1>2. b \in Seq(Byte) /\ Len(b) = 20 /\ Sum16(b) = UnsummedSum(n, own, dest, proto, id)
  BY <1>1 DEF Piece, BytesOf
<1>3. iph = with_checksum(b, 10)
  <2> DEFINE hlen == 4 * h.internet_header_length
             bytes == <<64 + h.internet_header_length, (4 * h.dscp + h.ecn) % 256>>
                      \o htons(h.data_length + Len(h.options) + hlen)
                      \o htons(h.identification)
                      \o htons(8192 * h.flag + h.fragment_offset)
                      \o <<h.time_to_live % 256, h.protocol, 0, 0>>
                      \o h.source_ip \o h.destination_ip \o h.options
  <2>1. {"data_length", "protocol", "destination_ip"} \subseteq DOMAIN Asked(n, dest, proto, id)
    BY DEF Asked
  <2>2. iph = IF Len(bytes) > hlen THEN raised
              ELSE with_checksum(bytes \o zeros(hlen - Len(bytes)), 10)
    BY <2>1 DEF createIPHeader
  <2>3. bytes = b /\ hlen = 20
    <3> DEFINE built(words, dscp, ecn, opts, flag, offset, ttl, src, len, dst, pr, ident) ==
                 <<64 + words, (4 * dscp + ecn) % 256>>
                 \o htons(len + Len(opts) + 4 * words) \o htons(ident) \o htons(8192 * flag + offset)
                 \o <<ttl % 256, pr, 0, 0>> \o src \o dst \o opts
    <3>1. bytes = built(h.internet_header_length, h.dscp, h.ecn, h.options, h.flag, h.fragment_offset,
                        h.time_to_live, h.source_ip, h.data_length, h.destination_ip, h.protocol,
                        h.identification)
      OBVIOUS
    <3>2. /\ h.internet_header_length = 5 /\ h.dscp = 0 /\ h.ecn = 0 /\ h.options = <<>>
          /\ h.flag = 0 /\ h.fragment_offset = 0 /\ h.time_to_live = 64 /\ h.source_ip = own
          /\ h.data_length = n /\ h.destination_ip = dest /\ h.protocol = proto
          /\ h.identification = id
      BY AskedFields
    <3>3. built(5, 0, 0, <<>>, 0, 0, 64, own, n, dest, proto, id) = b \o <<>>
      <4>1. /\ 64 + 5 = 69 /\ (4 * 0 + 0) % 256 = 0 /\ n + Len(<<>>) + 4 * 5 = n + 20
            /\ 8192 * 0 + 0 = 0 /\ 64 % 256 = 64
        BY <1>0
      <4> QED BY <4>1 DEF Unsummed, b
    <3>4. hlen = 20
      <4> HIDE DEF h
      <4> QED BY <3>2
    <3>6. b \o <<>> = b
      BY <1>2
    <3> HIDE DEF built, h, bytes, hlen
    <3>5. bytes = built(5, 0, 0, <<>>, 0, 0, 64, own, n, dest, proto, id)
      BY <3>1, <3>2
    <3> QED BY <3>3, <3>4, <3>5, <3>6
  <2> HIDE DEF bytes, hlen, h, iph
  <2>4. PICK l \in Nat : l = Len(bytes) /\ l = 20
    BY <1>2, <2>3
  <2>5. ~(Len(bytes) > hlen) /\ hlen - Len(bytes) = 0
    BY <2>3, <2>4
  <2>6. zeros(0) = <<>> /\ b \o <<>> = b
    BY <1>2 DEF zeros
  <2> QED BY <2>2, <2>3, <2>5, <2>6
<1> HIDE DEF b, iph
<1>4. /\ iph \in Seq(Byte) /\ Len(iph) = Len(b)
      /\ \A i \in 1..Len(b) : i # 11 /\ i # 12 => iph[i] = b[i]
      /\ OneCarry(Sum16(b)) => AddsUp(iph)
  <2>1. PICK k \in Nat : k = 10
    OBVIOUS
  <2>2. Even(k) /\ k + 2 <= Len(b) /\ b[k + 1] = 0 /\ b[k + 2] = 0
    BY <1>1, <1>2, <2>1, EvenSizes
  <2>3. /\ with_checksum(b, k) \in Seq(Byte) /\ Len(with_checksum(b, k)) = Len(b)
        /\ \A i \in 1..Len(b) : i # k + 1 /\ i # k + 2 => with_checksum(b, k)[i] = b[i]
        /\ OneCarry(Sum16(b)) => AddsUp(with_checksum(b, k))
    BY <1>2, <2>2, ChecksumAddsUp
  <2> QED BY <1>3, <2>1, <2>3
<1>5. iph[3] = b[3] /\ iph[4] = b[4] /\ iph[10] = b[10]
  BY <1>2, <1>4
<1>6. 256 * htons(n + 20)[1] + htons(n + 20)[2] = 20 + n
  <2>1. PICK l \in Int : l = n + 20
    BY <1>0
  <2>2. 256 * htons(l)[1] + htons(l)[2] = l % 65536
    BY HtonsBytes
  <2>3. l % 65536 = 20 + n
    BY <1>0, <2>1
  <2> QED BY <2>1, <2>2, <2>3
<1>7. BytesOf(iph, 20)
  BY <1>2, <1>4 DEF BytesOf
<1> QED BY <1>1, <1>2, <1>4, <1>5, <1>6, <1>7 DEF iph

-----------------------------------------------------------------------------
(* The requests of the exchanges.                                           *)

LEMMA OneCarryOf ==
    ASSUME NEW h \in Nat, NEW l \in Nat, l + h < 65536, NEW s, s = 65536 * h + l
    PROVE  OneCarry(s)
<1>1. s % 65536 = l /\ s \div 65536 = h
  OBVIOUS
<1> QED BY <1>1 DEF OneCarry, Carry

(* The identifiers of the exchanges as words.                               *)
Words == {0, 1, 258, 32767, 32768, 65535}

LEMMA ExchangeSums ==
    ASSUME NEW m \in Words
    PROVE  /\ \A c \in Nat : c <= 1020 + 255 => OneCarry(133208 + c + m)
           /\ \A c \in Nat : c <= 300 => OneCarry(2048 + c + m) /\ OneCarry(170420 + c + m)
           /\ OneCarry(3328 + m) /\ OneCarry(78262 + m)
<1>2. ASSUME NEW h \in Nat, NEW s \in Nat, 65536 * h <= s, s < 65536 * h + 65000, h < 10 PROVE OneCarry(s)
  <2>1. PICK l \in Nat : l = s - 65536 * h
    BY <1>2
  <2>2. l + h < 65536 /\ s = 65536 * h + l
    BY <1>2, <2>1
  <2> QED BY <2>2, OneCarryOf
<1>3. ASSUME NEW s \in Nat,
             \/ s < 65000
             \/ 65536 <= s /\ s < 65536 + 65000
             \/ 131072 <= s /\ s < 131072 + 65000
             \/ 196608 <= s /\ s < 196608 + 65000
      PROVE  OneCarry(s)
  <2>1. CASE s < 65000
    <3>1. 65536 * 0 <= s /\ s < 65536 * 0 + 65000
      BY <2>1
    <3> QED BY <1>2, <3>1
  <2>2. CASE 65536 <= s /\ s < 65536 + 65000
    <3>1. 65536 * 1 <= s /\ s < 65536 * 1 + 65000
      BY <2>2
    <3> QED BY <1>2, <3>1
  <2>3. CASE 131072 <= s /\ s < 131072 + 65000
    <3>1. 65536 * 2 <= s /\ s < 65536 * 2 + 65000
      BY <2>3
    <3> QED BY <1>2, <3>1
  <2>4. CASE 196608 <= s /\ s < 196608 + 65000
    <3>1. PICK h \in Nat : h = 3
      OBVIOUS
    <3>2. 65536 * h <= s /\ s < 65536 * h + 65000 /\ h < 10
      BY <2>4, <3>1
    <3> QED BY <1>2, <3>2
  <2> QED BY <1>3, <2>1, <2>2, <2>3, <2>4
<1>4. m = 0 \/ m = 1 \/ m = 258 \/ m = 32767 \/ m = 32768 \/ m = 65535
  BY DEF Words
<1>5. ASSUME NEW c \in Nat, c <= 1020 + 255 PROVE OneCarry(133208 + c + m)
  <2>1. PICK s \in Nat : s = 133208 + c + m
    BY <1>4
  <2>2. (131072 <= s /\ s < 131072 + 65000) \/ (196608 <= s /\ s < 196608 + 65000)
    BY <1>4, <1>5, <2>1
  <2> QED BY <1>3, <2>1, <2>2
<1>6. ASSUME NEW c \in Nat, c <= 300 PROVE OneCarry(2048 + c + m)
  <2>1. PICK s \in Nat : s = 2048 + c + m
    BY <1>4
  <2>2. s < 65000 \/ (65536 <= s /\ s < 65536 + 65000)
    BY <1>4, <1>6, <2>1
  <2> QED BY <1>3, <2>1, <2>2
<1>7. ASSUME NEW c \in Nat, c <= 300 PROVE OneCarry(170420 + c + m)
  <2>1. PICK s \in Nat : s = 170420 + c + m
    BY <1>4
  <2>2. (131072 <= s /\ s < 131072 + 65000) \/ (196608 <= s /\ s < 196608 + 65000)
    BY <1>4, <1>7, <2>1
  <2> QED BY <1>3, <2>1, <2>2
<1>8. OneCarry(3328 + m)
  <2>1. PICK s \in Nat : s = 3328 + m
    BY <1>4
  <2>2. s < 65000 \/ (65536 <= s /\ s < 65536 + 65000)
    BY <1>4, <2>1
  <2> QED BY <1>3, <2>1, <2>2
<1>9. OneCarry(78262 + m)
  <2>1. PICK s \in Nat : s = 78262 + m
    BY <1>4
  <2>2. (65536 <= s /\ s < 65536 + 65000) \/ (131072 <= s /\ s < 131072 + 65000)
    BY <1>4, <2>1
  <2> QED BY <1>3, <2>1, <2>2
<1> QED BY <1>5, <1>6, <1>7, <1>8, <1>9

(* The frame of a message behind a header of createIPHeader.                *)
LEMMA StackFrame ==
    ASSUME NEW n, MessageLength(n), NEW own, BytesOf(own, 4), NEW dest, BytesOf(dest, 4),
           NEW proto \in Byte, NEW id \in Int, OneCarry(UnsummedSum(n, own, dest, proto, id)),
           NEW message \in Seq(Byte), Len(message) = n,
           NEW exempt \in BOOLEAN, exempt \/ (proto = IPPROTO_ICMP /\ AddsUp(message))
    PROVE  LET data == createIPHeader(Asked(n, dest, proto, id), own) \o message
               frame == SentOf(sendData(data, SrcMac, DstMac, ETHERTYPE_IP))
           IN  ChecksumsRight(frame, exempt) /\ ntohs(frame, 16) = Len(data)
<1> DEFINE iph == createIPHeader(Asked(n, dest, proto, id), own)
           data == iph \o message
           p == sendData(data, SrcMac, DstMac, ETHERTYPE_IP)
           e == set_ether(p.datalink)
           frame == SentOf(p)
<1>1. BytesOf(iph, 20) /\ 256 * iph[3] + iph[4] = 20 + n /\ iph[10] = proto /\ AddsUp(iph)
  <2>1. /\ BytesOf(iph, 20) /\ 256 * iph[3] + iph[4] = 20 + n /\ iph[10] = proto
        /\ OneCarry(UnsummedSum(n, own, dest, proto, id)) => AddsUp(iph)
    BY CreatedHeader
  <2> QED BY <2>1
<1>2. BytesOf(e, 14)
  <2> DEFINE d == p.datalink
             m == DstMac \o SrcMac
  <2>1. d # <<>> /\ d.dst_mac = DstMac /\ d.src_mac = SrcMac /\ d.frametype = ETHERTYPE_IP
    <3>1. "frametype" \in DOMAIN d
      BY DEF sendData
    <3>2. DOMAIN <<>> = {}
      OBVIOUS
    <3> QED BY <3>1, <3>2 DEF sendData
  <2>2. e = m \o htons(ETHERTYPE_IP)
    <3> HIDE DEF p
    <3> QED BY <2>1 DEF set_ether
  <2>3. BytesOf(htons(ETHERTYPE_IP), 2)
    BY HtonsPair DEF ETHERTYPE_IP
  <2>4. Joins(m, DstMac, SrcMac) /\ Joins(e, m, htons(ETHERTYPE_IP))
    BY <2>2 DEF Joins
  <2>5. BytesOf(DstMac, 6) /\ BytesOf(SrcMac, 6)
    <3>1. 0 \in Byte /\ 1 \in Byte /\ 2 \in Byte /\ 254 \in Byte
      BY DEF Byte
    <3> QED BY <3>1 DEF BytesOf, DstMac, SrcMac
  <2> HIDE DEF e, m, d
  <2>6. BytesOf(m, 12)
    BY <2>4, <2>5, JoinedAt, Additions
  <2> QED BY <2>3, <2>4, <2>6, JoinedAt, Additions
<1>3. frame = padded(e \o (iph \o message))
  <2>1. p.class = "Packet" /\ p.data = iph \o message
    BY DEF sendData
  <2>2. set_packet(p, TRUE, Junk) = e \o p.data
    BY <2>1 DEF set_packet
  <2> HIDE DEF p, e, iph
  <2> QED BY <2>1, <2>2 DEF SentOf, nativeSendPacket
<1> HIDE DEF e, p, iph, frame
<1>4. iph \in Seq(Byte) /\ Len(iph) = 20
  BY <1>1 DEF BytesOf
<1>5. Carries(frame, iph, message)
  BY <1>2, <1>3, <1>4, PaddedFrame
<1>6. exempt \/ PartVerifies(iph, message)
  BY <1>1 DEF PartVerifies, IPPROTO_ICMP, IPPROTO_TCP, IPPROTO_UDP
<1>7. 256 * iph[3] + iph[4] = 20 + Len(message)
  BY <1>1
<1>8. ChecksumsRight(frame, exempt) /\ ntohs(frame, 16) = 20 + Len(message)
  BY <1>1, <1>5, <1>6, <1>7, FrameVerifies
<1>9. Len(data) = 20 + Len(message)
  <2>1. Concatenation(iph, message, iph \o message)
    BY <1>4, Joining
  <2> QED BY <1>4, <2>1 DEF Concatenation
<1> QED BY <1>8, <1>9 DEF iph, frame, p

-----------------------------------------------------------------------------
(* The messages of PingApp and HPingApp.                                    *)

SmallBytes == {0, 1, 2, 3, 7, 8, 9, 12, 13, 36, 72, 73, 109, 146, 168, 182, 192, 219, 254, 255}

LEMMA SmallByte == \A b \in SmallBytes : b \in Byte /\ b \in Nat
<1>1. ASSUME NEW b \in SmallBytes PROVE b \in Nat /\ b < 256
  BY DEF SmallBytes
<1> QED BY <1>1, ByteRange DEF Byte

(* Four given bytes.                                                        *)
FourOf(b, u, v, x, y) ==
    /\ u \in SmallBytes /\ v \in SmallBytes /\ x \in SmallBytes /\ y \in SmallBytes
    /\ b = <<u, v, x, y>>

LEMMA PieceOfFour ==
    ASSUME NEW u, NEW v, NEW x, NEW y, NEW b, FourOf(b, u, v, x, y)
    PROVE  Piece(b, 4, (256 * u + v) + (256 * x + y))
<1>1. u \in Byte /\ v \in Byte /\ x \in Byte /\ y \in Byte
  BY SmallByte DEF FourOf
<1> QED BY <1>1, FourBytes DEF FourOf

LEMMA GivenPieces ==
    /\ Piece(<<8, 0, 0, 0>>, 4, 2048) /\ Piece(<<13, 0, 0, 0>>, 4, 3328) /\ Piece(<<0, 0, 0, 0>>, 4, 0)
    /\ Piece(<<73, 146, 219, 36>>, 4, 74934) /\ Piece(<<109, 182, 255, 72>>, 4, 93438)
    /\ Piece(device_ip, 4, 49583) /\ Piece(peer_ip, 4, 49577)
<1>1. /\ FourOf(<<8, 0, 0, 0>>, 8, 0, 0, 0) /\ FourOf(<<13, 0, 0, 0>>, 13, 0, 0, 0)
      /\ FourOf(<<0, 0, 0, 0>>, 0, 0, 0, 0) /\ FourOf(<<73, 146, 219, 36>>, 73, 146, 219, 36)
      /\ FourOf(<<109, 182, 255, 72>>, 109, 182, 255, 72)
      /\ FourOf(device_ip, 192, 168, 1, 7) /\ FourOf(peer_ip, 192, 168, 1, 1)
  BY DEF FourOf, SmallBytes, device_ip, peer_ip
<1>2. ASSUME NEW u, NEW v, NEW x, NEW y, NEW b, NEW s, FourOf(b, u, v, x, y), s = (256 * u + v) + (256 * x + y)
      PROVE  Piece(b, 4, s)
  BY <1>2, PieceOfFour
<1>3. Piece(<<8, 0, 0, 0>>, 4, 2048)
  <2>1. 2048 = (256 * 8 + 0) + (256 * 0 + 0)
    OBVIOUS
  <2> QED BY <1>1, <1>2, <2>1
<1>4. Piece(<<13, 0, 0, 0>>, 4, 3328)
  <2>1. 3328 = (256 * 13 + 0) + (256 * 0 + 0)
    OBVIOUS
  <2> QED BY <1>1, <1>2, <2>1
<1>5. Piece(<<0, 0, 0, 0>>, 4, 0)
  <2>1. 0 = (256 * 0 + 0) + (256 * 0 + 0)
    OBVIOUS
  <2> QED BY <1>1, <1>2, <2>1
<1>6. Piece(<<73, 146, 219, 36>>, 4, 74934)
  <2>1. 74934 = (256 * 73 + 146) + (256 * 219 + 36)
    OBVIOUS
  <2> QED BY <1>1, <1>2, <2>1
<1>7. Piece(<<109, 182, 255, 72>>, 4, 93438)
  <2>1. 93438 = (256 * 109 + 182) + (256 * 255 + 72)
    OBVIOUS
  <2> QED BY <1>1, <1>2, <2>1
<1>8. Piece(device_ip, 4, 49583)
  <2>1. 49583 = (256 * 192 + 168) + (256 * 1 + 7)
    OBVIOUS
  <2> QED BY <1>1, <1>2, <2>1
<1>9. Piece(peer_ip, 4, 49577)
  <2>1. 49577 = (256 * 192 + 168) + (256 * 1 + 1)
    OBVIOUS
  <2> QED BY <1>1, <1>2, <2>1
<1> QED BY <1>3, <1>4, <1>5, <1>6, <1>7, <1>8, <1>9

(* The times of the exchanges, whole and their first half.                  *)
LEMMA TimePieces ==
    /\ Piece(zeros(4), 4, 0) /\ Piece(zeros(8), 8, 0) /\ Piece(Some(8), 8, 168372)
    /\ SubSeq(zeros(8), 1, 4) = zeros(4) /\ Piece(SubSeq(Some(8), 1, 4), 4, 74934)
<1> DEFINE z == <<0, 0, 0, 0>>
           s1 == <<73, 146, 219, 36>>
           s2 == <<109, 182, 255, 72>>
<1>1. zeros(4) = z
  BY DEF zeros
<1>2. Joins(zeros(8), z, z)
  BY DEF zeros, Joins
<1>3. Joins(Some(8), s1, s2)
  <2>1. PICK f : f = Some(8)
    OBVIOUS
  <2>2. DOMAIN f = 1..8
    BY <2>1 DEF Some
  <2>3. f[1] = 73 /\ f[2] = 146 /\ f[3] = 219 /\ f[4] = 36
    BY <2>1 DEF Some
  <2>4. f[5] = 109 /\ f[6] = 182 /\ f[7] = 255 /\ f[8] = 72
    BY <2>1 DEF Some
  <2>5. f = [k \in 1..8 |-> f[k]]
    BY <2>1 DEF Some
  <2>6. f = <<73, 146, 219, 36, 109, 182, 255, 72>>
    BY <2>3, <2>4, <2>5
  <2> QED BY <2>1, <2>6 DEF Joins
<1>4. Piece(z, 4, 0) /\ Piece(s1, 4, 74934) /\ Piece(s2, 4, 93438)
  BY GivenPieces
<1>5. SubSeq(zeros(8), 1, 4) = zeros(4)
  BY DEF zeros
<1> HIDE DEF z, s1, s2
<1>6. SubSeq(Some(8), 1, 4) = s1
  <2>1. s1 \in Seq(Byte) /\ s2 \in Seq(Byte) /\ Len(s1) = 4
    BY <1>4 DEF Piece, BytesOf
  <2>0. PICK e : e = Some(8)
    OBVIOUS
  <2>2. PICK n \in Nat : e = Some(8) /\ n = 4
    BY <2>0
  <2>3. BytesOf(e, 8) /\ \A i \in 1..4 : e[i] = s1[i]
    BY <1>3, <1>4, <2>2, Additions, JoinedAt DEF Piece
  <2>4. e \in Seq(Byte) /\ n <= Len(e) /\ Len(s1) = n /\ \A i \in 1..n : e[i] = s1[i]
    BY <2>1, <2>2, <2>3 DEF BytesOf
  <2>5. SubSeq(e, 1, n) = s1
    BY <2>1, <2>4
  <2> QED BY <2>2, <2>5
<1>7. PICK a \in Nat, t1 \in Nat, t2 \in Nat : a = 0 /\ t1 = 74934 /\ t2 = 93438
  OBVIOUS
<1>8. Piece(zeros(8), 8, a + a) /\ Piece(Some(8), 8, t1 + t2)
  <2>1. Piece(z, 4, a) /\ Piece(s1, 4, t1) /\ Piece(s2, 4, t2)
    BY <1>4, <1>7
  <2> QED BY <1>2, <1>3, <2>1, Additions, EvenSizes, JoinedPieces
<1>9. a + a = 0 /\ t1 + t2 = 168372
  BY <1>7
<1>10. Piece(zeros(8), 8, 0) /\ Piece(Some(8), 8, 168372)
  BY <1>8, <1>9
<1>11. Piece(zeros(4), 4, 0)
  BY <1>1, <1>4
<1>12. Piece(SubSeq(Some(8), 1, 4), 4, 74934)
  <2> DEFINE half == SubSeq(Some(8), 1, 4)
  <2>1. half = s1
    BY <1>6
  <2> HIDE DEF half
  <2>2. Piece(half, 4, 74934)
    BY <1>4, <2>1
  <2> QED BY <2>2 DEF half
<1> QED BY <1>5, <1>10, <1>11, <1>12

(* What goes into an ICMP message of the stack before its checksum.         *)
UnsummedICMP(b, n, s) == Piece(b, n, s) /\ n >= 8 /\ b[3] = 0 /\ b[4] = 0

LEMMA ICMPAddsUp ==
    ASSUME NEW b, NEW n \in Nat, NEW s, UnsummedICMP(b, n, s)
    PROVE  BytesOf(with_checksum(b, 2), n) /\ (OneCarry(s) => AddsUp(with_checksum(b, 2)))
<1>1. PICK k \in Nat : k = 2
  OBVIOUS
<1>2. /\ b \in Seq(Byte) /\ Even(k) /\ k + 2 <= Len(b) /\ b[k + 1] = 0 /\ b[k + 2] = 0
      /\ Sum16(b) = s /\ Len(b) = n
  BY <1>1, EvenSizes DEF UnsummedICMP, Piece, BytesOf
<1>3. /\ with_checksum(b, k) \in Seq(Byte) /\ Len(with_checksum(b, k)) = Len(b)
      /\ OneCarry(Sum16(b)) => AddsUp(with_checksum(b, k))
  BY <1>2, ChecksumAddsUp
<1> QED BY <1>1, <1>2, <1>3 DEF BytesOf

LEMMA ICMPParts ==
    ASSUME NEW a1, NEW s1, Piece(a1, 4, s1), a1[3] = 0, a1[4] = 0, NEW id \in Int, NEW seq \in Int,
           NEW data, NEW n \in Nat, NEW t, Piece(data, n, t), NEW k, Adds(k, 8, n)
    PROVE  UnsummedICMP(((a1 \o htons(id)) \o htons(seq)) \o data, k,
                        s1 + (id % 65536) + (seq % 65536) + t)
<1> DEFINE a2 == a1 \o htons(id)
           a3 == a2 \o htons(seq)
           b == a3 \o data
<1>1. PICK s2, s3 : s2 = id % 65536 /\ s3 = seq % 65536
  OBVIOUS
<1>2. Piece(htons(id), 2, s2) /\ Piece(htons(seq), 2, s3)
  BY <1>1, PieceOfNumber
<1>3. Joins(a2, a1, htons(id)) /\ Joins(a3, a2, htons(seq)) /\ Joins(b, a3, data)
  BY DEF Joins
<1> HIDE DEF a2, a3, b
<1>4. Piece(a2, 6, s1 + s2)
  BY <1>2, <1>3, Additions, EvenSizes, JoinedPieces
<1>5. Piece(a3, 8, s1 + s2 + s3)
  BY <1>2, <1>3, <1>4, Additions, EvenSizes, JoinedPieces
<1>6. Piece(b, k, s1 + s2 + s3 + t)
  BY <1>3, <1>5, EvenSizes, JoinedPieces
<1>7. /\ \A i \in 1..4 : a2[i] = a1[i]
      /\ \A i \in 1..6 : a3[i] = a2[i]
      /\ \A i \in 1..8 : b[i] = a3[i]
  <2>1. /\ BytesOf(a1, 4) /\ BytesOf(htons(id), 2) /\ BytesOf(a2, 6) /\ BytesOf(htons(seq), 2)
        /\ BytesOf(a3, 8) /\ BytesOf(data, n)
    BY <1>2, <1>4, <1>5 DEF Piece
  <2>2. \A i \in 1..4 : a2[i] = a1[i]
    BY <1>3, <2>1, Additions, JoinedAt
  <2>3. \A i \in 1..6 : a3[i] = a2[i]
    BY <1>3, <2>1, Additions, JoinedAt
  <2>4. \A i \in 1..8 : b[i] = a3[i]
    BY <1>3, <2>1, JoinedAt
  <2> QED BY <2>2, <2>3, <2>4
<1>8. b[3] = 0 /\ b[4] = 0
  BY <1>7
<1>9. k >= 8
  BY DEF Adds
<1>10. UnsummedICMP(b, k, s1 + s2 + s3 + t)
  BY <1>6, <1>8, <1>9 DEF UnsummedICMP
<1> QED BY <1>1, <1>10 DEF b, a2, a3

EchoSum(app, t) == 2048 + (app.identifier % 65536) + (app.sequence % 65536) + t

(* The echo request of a PingApp with any numbers and any data.             *)
LEMMA PingMessage ==
    ASSUME NEW app, app.identifier \in Int, app.sequence \in Int,
           NEW n \in Nat, NEW t, Piece(app.time, n, t), NEW k, Adds(k, 8, n)
    PROVE  LET m == createPing(app)
           IN  /\ BytesOf(m, k)
               /\ OneCarry(EchoSum(app, t)) => AddsUp(m)
<1> DEFINE info == [header |-> "echo", identifier |-> app.identifier,
                    sequence_number |-> app.sequence, data |-> app.time]
           h == completed(info, [identifier |-> 0, sequence_number |-> 0])
           a1 == <<8, 0, 0, 0>>
           b == ((a1 \o htons(app.identifier)) \o htons(app.sequence)) \o app.time
           m == with_checksum(b, 2)
           s == EchoSum(app, t)
<1>1. Piece(a1, 4, 2048) /\ a1[3] = 0 /\ a1[4] = 0
  BY GivenPieces
<1>2. UnsummedICMP(b, k, s)
  <2>1. PICK s1 : s1 = 2048
    OBVIOUS
  <2>2. Piece(a1, 4, s1)
    BY <1>1, <2>1
  <2>0. PICK id \in Int, seq \in Int : id = app.identifier /\ seq = app.sequence
    OBVIOUS
  <2>3. PICK data : data = app.time
    OBVIOUS
  <2>4. Piece(data, n, t) /\ a1[3] = 0 /\ a1[4] = 0
    BY <1>1, <2>3
  <2> HIDE DEF a1
  <2>5. UnsummedICMP(((a1 \o htons(id)) \o htons(seq)) \o data, k, s1 + (id % 65536) + (seq % 65536) + t)
    BY <2>2, <2>4, ICMPParts
  <2> QED BY <2>0, <2>1, <2>3, <2>5 DEF EchoSum
<1>3. /\ h.header = "echo" /\ "data" \in DOMAIN h /\ h.identifier = app.identifier
      /\ h.sequence_number = app.sequence /\ h.data = app.time
  BY DEF completed
<1>4. createEchoHeader(info, 0) = m
  <2> HIDE DEF h, m
  <2>1. createEchoHeader(info, 0) =
          IF h.header \notin {"echo", "echo_reply"} THEN null
          ELSE IF "data" \notin DOMAIN h THEN raised
          ELSE with_checksum(<<IF h.header = "echo_reply" THEN ICMP_ECHOREPLY ELSE ICMP_ECHO, 0, 0, 0>>
                             \o htons(h.identifier) \o htons(h.sequence_number) \o h.data, 2)
    BY DEF createEchoHeader, h
  <2>2. createEchoHeader(info, 0) =
          with_checksum(<<ICMP_ECHO, 0, 0, 0>> \o htons(h.identifier) \o htons(h.sequence_number) \o h.data, 2)
    BY <1>3, <2>1
  <2> HIDE DEF info
  <2> QED BY <1>3, <2>2 DEF ICMP_ECHO, m
<1> HIDE DEF b, s
<1>5. k \in Nat /\ k >= 8
  BY DEF Adds
<1>6. BytesOf(m, k) /\ (OneCarry(s) => AddsUp(m))
  BY <1>2, <1>5, ICMPAddsUp
<1>7. m # null
  <2> HIDE DEF m
  <2>1. Len(m) >= 8
    BY <1>5, <1>6 DEF BytesOf
  <2> QED BY <2>1 DEF null
<1>8. createPing(app) = m
  <2>1. createPing(app) = createICMPHeader(info, 0)
    BY DEF createPing
  <2> HIDE DEF info, m
  <2> QED BY <1>4, <1>7, <2>1 DEF createICMPHeader
<1> HIDE DEF m
<1> QED BY <1>6, <1>8 DEF s

(* The time stamp request of an HPingApp.                                   *)
LEMMA HPingMessage ==
    ASSUME NEW app, app.identifier \in Int, NEW t, Piece(app.time, 4, t)
    PROVE  LET m == createHPing(app)
           IN  /\ BytesOf(m, 20)
               /\ OneCarry(3328 + (app.identifier % 65536) + t) => AddsUp(m)
<1> DEFINE info == [header |-> "timestamp", identifier |-> app.identifier,
                    sequence_num |-> app.sequence, original_time |-> app.time,
                    receive_time |-> zeros(4), transmit_time |-> zeros(4)]
           h == completed(info, [identifier |-> 0, sequenceNumber |-> 0])
           e == completed(info, [identifier |-> 0, sequence_number |-> 0])
           a1 == <<13, 0, 0, 0>>
           half == app.time \o zeros(4)
           times == half \o zeros(4)
           b == ((a1 \o htons(app.identifier)) \o htons(0)) \o times
           m == with_checksum(b, 2)
           s == 3328 + (app.identifier % 65536) + t
<1>1. Piece(a1, 4, 3328) /\ a1[3] = 0 /\ a1[4] = 0
  BY GivenPieces
<1>2. Piece(times, 12, t)
  <2>1. Joins(half, app.time, zeros(4)) /\ Joins(times, half, zeros(4)) /\ Piece(zeros(4), 4, 0)
    BY TimePieces DEF Joins
  <2>2. PICK o \in Nat : o = 0
    OBVIOUS
  <2>3. Piece(zeros(4), 4, o)
    BY <2>1, <2>2
  <2>4. PICK time : time = app.time
    OBVIOUS
  <2>5. Joins(half, time, zeros(4)) /\ Piece(time, 4, t)
    BY <2>1, <2>4
  <2> HIDE DEF half, times
  <2>6. Piece(half, 8, t + o)
    BY <2>3, <2>5, Additions, EvenSizes, JoinedPieces
  <2>7. Piece(times, 12, t + o + o)
    BY <2>1, <2>3, <2>6, Additions, EvenSizes, JoinedPieces
  <2>8. t + o + o = t
    BY <2>2, <2>5 DEF Piece
  <2> QED BY <2>7, <2>8
<1>3. UnsummedICMP(b, 20, s)
  <2>1. PICK s1, s3 \in Int : s1 = 3328 /\ s3 = 0
    OBVIOUS
  <2>2. Piece(a1, 4, s1) /\ a1[3] = 0 /\ a1[4] = 0
    BY <1>1, <2>1
  <2>3. PICK id \in Int : id = app.identifier
    OBVIOUS
  <2>4. PICK k, n \in Nat : k = 20 /\ n = 12
    OBVIOUS
  <2>5. Adds(k, 8, n) /\ Piece(times, n, t)
    BY <1>2, <2>4 DEF Adds
  <2> HIDE DEF a1, times
  <2>6. UnsummedICMP(((a1 \o htons(id)) \o htons(s3)) \o times, k, s1 + (id % 65536) + (s3 % 65536) + t)
    BY <2>2, <2>5, ICMPParts
  <2>7. s1 + (id % 65536) + (s3 % 65536) + t = s
    <3>1. t \in Nat
      BY DEF Piece
    <3> QED BY <2>1, <2>3, <3>1
  <2> QED BY <2>1, <2>3, <2>4, <2>6, <2>7
<1>4. /\ h.header = "timestamp" /\ h.identifier = app.identifier /\ h.sequenceNumber = 0
      /\ {"original_time", "receive_time", "transmit_time"} \subseteq DOMAIN h
      /\ h.original_time = app.time /\ h.receive_time = zeros(4) /\ h.transmit_time = zeros(4)
      /\ e.header = "timestamp"
  BY DEF completed
<1>5. createEchoHeader(info, 0) = null
  <2>1. createEchoHeader(info, 0) =
          IF e.header \notin {"echo", "echo_reply"} THEN null
          ELSE IF "data" \notin DOMAIN e THEN raised
          ELSE with_checksum(<<IF e.header = "echo_reply" THEN ICMP_ECHOREPLY ELSE ICMP_ECHO, 0, 0, 0>>
                             \o htons(e.identifier) \o htons(e.sequence_number) \o e.data, 2)
    BY DEF createEchoHeader
  <2> HIDE DEF e
  <2> QED BY <1>4, <2>1
<1>6. createTimeStampHeader(info, 0) = m
  <2> DEFINE time(key) == IF key \in DOMAIN h THEN h[key] ELSE <<>>
             all == time("original_time") \o time("receive_time") \o time("transmit_time")
  <2>1. createTimeStampHeader(info, 0) =
          IF h.header # "timestamp" THEN null
          ELSE with_checksum(<<ICMP_TSTAMP, 0, 0, 0>> \o htons(h.identifier) \o htons(h.sequenceNumber)
                             \o all \o zeros(12 - Len(all)), 2)
    BY DEF createTimeStampHeader
  <2>2. all = times
    <3> HIDE DEF h
    <3> QED BY <1>4
  <2> HIDE DEF h, all, info, times
  <2>3. createTimeStampHeader(info, 0) =
          with_checksum(<<13, 0, 0, 0>> \o htons(app.identifier) \o htons(0)
                             \o times \o zeros(12 - Len(times)), 2)
    BY <1>4, <2>1, <2>2 DEF ICMP_TSTAMP
  <2>4. b \in Seq(Byte) /\ Len(times) = 12
    BY <1>2, <1>3 DEF UnsummedICMP, Piece, BytesOf
  <2>5. zeros(12 - Len(times)) = <<>>
    <3>1. 12 - Len(times) = 0
      BY <2>4
    <3>2. zeros(0) = <<>>
      BY DEF zeros
    <3> QED BY <3>1, <3>2
  <2> HIDE DEF b
  <2>6. b \o <<>> = b
    BY <2>4
  <2> QED BY <2>3, <2>5, <2>6 DEF b
<1> HIDE DEF b, s
<1>7. BytesOf(m, 20) /\ (OneCarry(s) => AddsUp(m))
  <2>1. PICK k \in Nat : k = 20
    OBVIOUS
  <2>2. UnsummedICMP(b, k, s)
    BY <1>3, <2>1
  <2>3. BytesOf(m, k) /\ (OneCarry(s) => AddsUp(m))
    BY <2>2, ICMPAddsUp
  <2> QED BY <2>1, <2>3
<1>8. createHPing(app) = m
  <2>1. createHPing(app) = createICMPHeader(info, 0)
    BY DEF createHPing
  <2> HIDE DEF info, m
  <2> QED BY <1>5, <1>6, <2>1 DEF createICMPHeader
<1> HIDE DEF m
<1> QED BY <1>7, <1>8 DEF s

-----------------------------------------------------------------------------
(* The query of DNSApplication.                                             *)

(* A query for a name of one label or of three.                             *)
LEMMA FlattenOne ==
    ASSUME NEW a
    PROVE  FlattenSeq(<<a>>) = a
<1> DEFINE s == <<a>>
           step(f) == [i \in 1..Len(s) |-> IF i = 1 THEN s[i] ELSE f[i - 1] \o s[i]]
           F == CHOOSE f : f = step(f)
<1>1. Len(s) = 1 /\ s[1] = a
  OBVIOUS
<1>2. FlattenSeq(s) = F[Len(s)]
  BY <1>1 DEF FlattenSeq
<1>3. F = step(F)
  <2> DEFINE g == [i \in 1..Len(s) |-> a]
  <2>1. g = step(g)
    BY <1>1
  <2> HIDE DEF step
  <2> QED BY <2>1
<1>4. F[1] = a
  <2> HIDE DEF F, s
  <2> QED BY <1>1, <1>3
<1> HIDE DEF F, step
<1> QED BY <1>1, <1>2, <1>4

LEMMA FlattenThree ==
    ASSUME NEW a, NEW b, NEW c, NEW s, s = <<a, b, c>>, NEW j, Joins(j, a, b), NEW l, Joins(l, j, c)
    PROVE  FlattenSeq(s) = l
<1> DEFINE step(f) == [i \in 1..Len(s) |-> IF i = 1 THEN s[i] ELSE f[i - 1] \o s[i]]
           F == CHOOSE f : f = step(f)
<1>1. Len(s) = 3 /\ s[1] = a /\ s[2] = b /\ s[3] = c
  OBVIOUS
<1>2. FlattenSeq(s) = F[Len(s)]
  BY <1>1 DEF FlattenSeq
<1>3. F = step(F)
  <2> DEFINE g == [i \in 1..Len(s) |-> IF i = 1 THEN a ELSE IF i = 2 THEN a \o b ELSE (a \o b) \o c]
  <2>1. g[1] = a /\ g[2] = a \o b
    BY <1>1
  <2>2. ASSUME NEW i \in 1..Len(s) PROVE g[i] = step(g)[i]
    <3>1. i = 1 \/ i = 2 \/ i = 3
      BY <1>1
    <3> QED BY <1>1, <2>1, <3>1
  <2>3. g = step(g)
    BY <2>2
  <2> HIDE DEF step, g
  <2> QED BY <2>3
<1>4. F[3] = (a \o b) \o c
  <2> HIDE DEF F
  <2>1. F[1] = a
    BY <1>1, <1>3
  <2>2. F[2] = F[1] \o b
    BY <1>1, <1>3
  <2>3. F[3] = F[2] \o c
    <3>1. PICK n \in 1..Len(s) : n = 3
      BY <1>1
    <3>2. F[n] = F[n - 1] \o s[n]
      <4>0. n # 1
        BY <3>1
      <4>1. step(F)[n] = F[n - 1] \o s[n]
        BY <4>0
      <4> QED BY <1>3, <4>1
    <3>3. n - 1 = 2 /\ s[n] = c
      BY <1>1, <3>1
    <3> QED BY <3>1, <3>2, <3>3
  <2> QED BY <2>1, <2>2, <2>3
<1> HIDE DEF F, step
<1> QED BY <1>1, <1>2, <1>4 DEF Joins

Within(b, n) == b \in Seq(Byte) /\ Len(b) <= n

LEMMA JoinWithin ==
    ASSUME NEW m \in Nat, NEW n \in Nat, NEW x, NEW y, Within(x, m), Within(y, n)
    PROVE  Within(x \o y, m + n)
<1>1. x \in Seq(Byte) /\ y \in Seq(Byte) /\ Len(x) \in Nat /\ Len(y) \in Nat
  BY DEF Within
<1>2. Concatenation(x, y, x \o y)
  BY <1>1, Joining
<1> HIDE DEF Concatenation
<1>3. x \o y \in Seq(Byte) /\ Len(x \o y) = Len(x) + Len(y)
  BY <1>2 DEF Concatenation
<1> QED BY <1>1, <1>3 DEF Within

LEMMA NumberBytes ==
    ASSUME NEW n \in Nat, NEW b, b = Some(n)
    PROVE  BytesOf(b, n)
BY SomeBytes DEF BytesOf

(* A label behind its length.                                               *)
LEMMA LabelBytes ==
    ASSUME NEW n \in Byte, NEW x, BytesOf(x, n)
    PROVE  Within(<<Len(x)>> \o x, n + 1)
<1>1. PICK l \in Byte : l = Len(x) /\ l = n
  BY DEF BytesOf
<1>2. <<l>> \in Seq(Byte) /\ Len(<<l>>) = 1
  OBVIOUS
<1>3. PICK w : w = <<l>>
  OBVIOUS
<1>4. w \in Seq(Byte) /\ Len(w) = 1 /\ x \in Seq(Byte) /\ Len(x) \in Nat /\ Len(x) = n
  BY <1>2, <1>3 DEF BytesOf
<1>5. Concatenation(w, x, w \o x)
  BY <1>4, Joining
<1>6. w \o x \in Seq(Byte) /\ Len(w \o x) = Len(w) + Len(x)
  BY <1>5 DEF Concatenation
<1> QED BY <1>1, <1>3, <1>4, <1>6 DEF Within

labelled(x) == <<Len(x)>> \o x

LEMMA Labels ==
    ASSUME NEW x, NEW y, NEW z
    PROVE  /\ [k \in DOMAIN <<x>> |-> labelled(<<x>>[k])] = <<labelled(x)>>
           /\ [k \in DOMAIN <<x, y, z>> |-> labelled(<<x, y, z>>[k])]
                = <<labelled(x), labelled(y), labelled(z)>>
OBVIOUS

(* The names a DNS query of the run asks for.                               *)
QueryNames == {<< <<97>> >>, << Some(3), <<98>>, Some(20) >>}

LEMMA QuestionBytes ==
    ASSUME NEW domain \in QueryNames
    PROVE  Within(constructDNSPacketQuestion(domain), 100)
<1> DEFINE labels == [k \in DOMAIN domain |-> <<Len(domain[k])>> \o domain[k]]
           end == <<0, 0, QUESTION_TYPE_A, 0, 1>>
<1>1. PICK z \in Nat, n1 \in Byte, n3 \in Byte, n20 \in Byte : z = 0 /\ n1 = 1 /\ n3 = 3 /\ n20 = 20
  BY DEF Byte
<1>2. BytesOf(<<97>>, n1) /\ BytesOf(<<98>>, n1)
  <2>1. PICK u \in Byte, v \in Byte : u = 97 /\ v = 98
    BY DEF Byte
  <2>2. BytesOf(<<u>>, 1) /\ BytesOf(<<v>>, 1)
    BY DEF BytesOf
  <2> QED BY <1>1, <2>1, <2>2
<1>4. PICK x, y, v, w : x = <<97>> /\ y = Some(3) /\ v = <<98>> /\ w = Some(20)
  OBVIOUS
<1>3. BytesOf(y, n3) /\ BytesOf(w, n20)
  <2>1. n3 \in Nat /\ n20 \in Nat
    BY ByteRange
  <2>2. y = Some(n3) /\ w = Some(n20)
    BY <1>1, <1>4
  <2> QED BY <2>1, <2>2, NumberBytes
<1>5. BytesOf(x, n1) /\ BytesOf(y, n3) /\ BytesOf(v, n1) /\ BytesOf(w, n20)
  BY <1>2, <1>3, <1>4
<1> DEFINE lx == labelled(x)
           ly == labelled(y)
           lv == labelled(v)
           lw == labelled(w)
<1>6. Within(lx, n1 + 1) /\ Within(ly, n3 + 1) /\ Within(lv, n1 + 1) /\ Within(lw, n20 + 1)
  BY <1>5, LabelBytes DEF labelled
<1>7. labels = <<lx>> \/ labels = <<ly, lv, lw>>
  <2>1. domain = <<x>> \/ domain = <<y, v, w>>
    BY <1>4 DEF QueryNames
  <2>2. labels = [k \in DOMAIN domain |-> labelled(domain[k])]
    BY DEF labelled
  <2> HIDE DEF labels
  <2> QED BY <2>1, <2>2, Labels
<1> HIDE DEF lx, ly, lv, lw, labels
<1>8. FlattenSeq(labels) = lx \/ FlattenSeq(labels) = (ly \o lv) \o lw
  <2>1. CASE labels = <<lx>>
    <3>1. FlattenSeq(<<lx>>) = lx
      BY FlattenOne
    <3> QED BY <2>1, <3>1
  <2>2. CASE labels = <<ly, lv, lw>>
    <3>1. PICK j, l : Joins(j, ly, lv) /\ Joins(l, j, lw)
      BY DEF Joins
    <3>2. FlattenSeq(labels) = l
      BY <2>2, <3>1, FlattenThree
    <3> QED BY <3>1, <3>2 DEF Joins
  <2> QED BY <1>7, <2>1, <2>2
<1>9. PICK a \in Nat, b \in Nat, c \in Nat : a = n1 + 1 /\ b = n3 + 1 /\ c = n20 + 1 /\ a = 2 /\ b = 4 /\ c = 21
  BY <1>1
<1>10. Within(lx, a) /\ Within(ly, b) /\ Within(lv, a) /\ Within(lw, c)
  BY <1>6, <1>9
<1>11. Within((ly \o lv) \o lw, (b + a) + c)
  <2>1. PICK ba \in Nat : ba = b + a
    OBVIOUS
  <2>2. Within(ly \o lv, ba)
    BY <1>10, <2>1, JoinWithin
  <2>3. PICK yv : yv = ly \o lv
    OBVIOUS
  <2>4. Within(yv, ba)
    BY <2>2, <2>3
  <2>5. Within(yv \o lw, ba + c)
    BY <1>10, <2>4, JoinWithin
  <2> QED BY <2>1, <2>3, <2>5
<1>12. PICK flat : flat = FlattenSeq(labels)
  OBVIOUS
<1>13. Within(flat, 27)
  <2>1. (b + a) + c = 27 /\ a <= 27
    BY <1>9
  <2>2. flat = lx \/ flat = (ly \o lv) \o lw
    BY <1>8, <1>12
  <2>3. CASE flat = lx
    BY <1>10, <2>1, <2>3 DEF Within
  <2>4. CASE flat = (ly \o lv) \o lw
    <3>1. PICK j : j = (ly \o lv) \o lw
      OBVIOUS
    <3>2. Within(j, 27)
      BY <1>11, <2>1, <3>1
    <3> QED BY <2>4, <3>1, <3>2
  <2> QED BY <2>2, <2>3, <2>4
<1>14. Within(end, 5)
  <2>1. PICK p \in Byte, q \in Byte : p = 0 /\ q = 1
    BY DEF Byte
  <2>2. <<p, p, q, p, q>> \in Seq(Byte) /\ Len(<<p, p, q, p, q>>) = 5
    OBVIOUS
  <2> QED BY <2>1, <2>2 DEF Within, QUESTION_TYPE_A
<1> HIDE DEF end
<1>15. Within(flat \o end, 27 + 5)
  <2>1. PICK m \in Nat, n \in Nat : m = 27 /\ n = 5
    OBVIOUS
  <2>2. Within(flat, m) /\ Within(end, n)
    BY <1>13, <1>14, <2>1
  <2>3. Within(flat \o end, m + n)
    BY <2>2, JoinWithin
  <2> QED BY <2>1, <2>3
<1>16. constructDNSPacketQuestion(domain) = flat \o end
  BY <1>12 DEF constructDNSPacketQuestion, labels, end
<1>17. PICK j : j = flat \o end
  OBVIOUS
<1>18. Within(j, 100)
  <2>1. Within(j, 27 + 5)
    BY <1>15, <1>17
  <2> QED BY <2>1 DEF Within
<1> QED BY <1>16, <1>17, <1>18

LEMMA QueryBytes ==
    ASSUME NEW domain \in QueryNames, NEW id \in {0, 258, 65535}
    PROVE  Within(queryDomain(domain, id), 112)
<1> DEFINE head == constructDNSPacketHeader(id)
           question == constructDNSPacketQuestion(domain)
<1>1. Within(head, 12)
  <2>1. PICK p \in Byte, q \in Byte : p = 0 /\ q = 1
    BY DEF Byte
  <2>2. PICK u \in Byte, v \in Byte : u = id \div 256 /\ v = id % 256
    <3>1. id \in Nat
      OBVIOUS
    <3>2. id \div 256 \in Nat /\ id \div 256 < 256
      <4>1. id \div 256 = 0 \/ id \div 256 = 1 \/ id \div 256 = 255
        OBVIOUS
      <4> QED BY <4>1
    <3>3. id % 256 \in Byte
      BY <3>1, ByteOf
    <3>4. PICK u, v : u = id \div 256 /\ v = id % 256
      OBVIOUS
    <3>5. u \in Byte /\ v \in Byte
      BY <3>2, <3>3, <3>4 DEF Byte
    <3> QED BY <3>4, <3>5
  <2>3. head = <<u, v, q, p, p, q, p, p, p, p, p, p>>
    BY <2>1, <2>2 DEF constructDNSPacketHeader
  <2>4. <<u, v, q, p, p, q, p, p, p, p, p, p>> \in Seq(Byte) /\ Len(<<u, v, q, p, p, q, p, p, p, p, p, p>>) = 12
    OBVIOUS
  <2> QED BY <2>3, <2>4 DEF Within
<1>2. Within(question, 100)
  BY QuestionBytes
<1> HIDE DEF head, question
<1>3. PICK m \in Nat, n \in Nat : m = 12 /\ n = 100
  OBVIOUS
<1>4. Within(head \o question, m + n)
  <2>1. Within(head, m) /\ Within(question, n)
    BY <1>1, <1>2, <1>3
  <2> QED BY <2>1, JoinWithin
<1>5. m + n = 112
  BY <1>3
<1> QED BY <1>4, <1>5 DEF queryDomain, head, question

-----------------------------------------------------------------------------
(* The requests of the run.                                                 *)

Identifiers == {-32768, -1, 0, 1, 32767, 258, 65535}

LEMMA WordOf ==
    ASSUME NEW id \in Identifiers
    PROVE  id \in Int /\ id % 65536 \in Words
<1>1. id = -32768 \/ id = -1 \/ id = 0 \/ id = 1 \/ id = 32767 \/ id = 258 \/ id = 65535
  BY DEF Identifiers
<1>2. ASSUME NEW k \in Nat, k < 65536, id = k - 65536 PROVE id % 65536 = k
  BY <1>2
<1>3. CASE id = -32768
  <2>1. id = 32768 - 65536
    BY <1>3
  <2> QED BY <1>2, <2>1 DEF Words
<1>4. CASE id = -1
  <2>1. id = 65535 - 65536
    BY <1>4
  <2> QED BY <1>2, <2>1 DEF Words
<1>5. CASE id \in {0, 1, 258, 32767, 65535}
  BY <1>5 DEF Words
<1> QED BY <1>1, <1>3, <1>4, <1>5

LEMMA RequestHeader ==
    ASSUME NEW n \in Nat, n <= 1000, NEW proto \in Byte, NEW id \in Identifiers
    PROVE  OneCarry(UnsummedSum(n, device_ip, peer_ip, proto, id))
<1>1. PICK m \in Words : m = id % 65536
  BY WordOf
<1>2. Sum16(device_ip) = 49583 /\ Sum16(peer_ip) = 49577
  BY GivenPieces DEF Piece
<1>3. proto \in Nat /\ proto <= 255
  BY ByteRange DEF Byte
<1>4. PICK c \in Nat : c = n + 20 + proto
  BY <1>3
<1>5. (n + 20) % 65536 = n + 20
  OBVIOUS
<1>6. UnsummedSum(n, device_ip, peer_ip, proto, id) = 133208 + c + m
  <2>1. m \in Nat
    BY DEF Words
  <2>2. UnsummedSum(n, device_ip, peer_ip, proto, id)
          = ((((((256 * 69 + 0) + (n + 20)) + m) + 0) + ((256 * 64 + proto) + (256 * 0 + 0))) + 49583) + 49577
    BY <1>1, <1>2, <1>5 DEF UnsummedSum
  <2> QED BY <1>3, <1>4, <2>1, <2>2
<1>7. c <= 1020 + 255
  BY <1>3, <1>4
<1>8. OneCarry(133208 + c + m)
  BY <1>7, ExchangeSums
<1> QED BY <1>6, <1>8

ForDNS(x) == x.app = "dns"

(* A request is a message behind a header of its length.                    *)
LEMMA RequestVerifies ==
    ASSUME NEW message \in Seq(Byte), Len(message) <= 1000, NEW proto \in Byte, NEW id \in Identifiers,
           NEW x, x.app # "arp", ForDNS(x) \/ (proto = IPPROTO_ICMP /\ AddsUp(message)),
           Request(x) = createIPHeader(Asked(Len(message), peer_ip, proto, id), device_ip) \o message
    PROVE  ChecksumsRight(RequestFrame(x), ForDNS(x)) /\ ntohs(RequestFrame(x), 16) = Len(Request(x))
<1>1. PICK n \in Nat : n = Len(message)
  OBVIOUS
<1>2. OneCarry(UnsummedSum(n, device_ip, peer_ip, proto, id))
  BY <1>1, RequestHeader
<1>3. MessageLength(n) /\ id \in Int
  BY <1>1, WordOf DEF MessageLength
<1>4. BytesOf(device_ip, 4) /\ BytesOf(peer_ip, 4)
  BY GivenPieces DEF Piece
<1> DEFINE data == createIPHeader(Asked(n, peer_ip, proto, id), device_ip) \o message
           frame == SentOf(sendData(data, SrcMac, DstMac, ETHERTYPE_IP))
<1>5. ChecksumsRight(frame, ForDNS(x)) /\ ntohs(frame, 16) = Len(data)
  <2>1. PICK own, dest : own = device_ip /\ dest = peer_ip
    OBVIOUS
  <2>2. /\ BytesOf(own, 4) /\ BytesOf(dest, 4) /\ OneCarry(UnsummedSum(n, own, dest, proto, id))
        /\ Len(message) = n
    BY <1>1, <1>2, <1>4, <2>1
  <2>3. LET d == createIPHeader(Asked(n, dest, proto, id), own) \o message
            f == SentOf(sendData(d, SrcMac, DstMac, ETHERTYPE_IP))
        IN  ChecksumsRight(f, ForDNS(x)) /\ ntohs(f, 16) = Len(d)
    <3>1. ForDNS(x) \in BOOLEAN
      BY DEF ForDNS
    <3> QED BY <3>1, <1>3, <2>2, StackFrame
  <2> QED BY <2>1, <2>3
<1>6. Request(x) = data
  BY <1>1
<1> HIDE DEF data
<1>7. RequestFrame(x) = frame
  BY <1>6 DEF RequestFrame
<1> QED BY <1>5, <1>6, <1>7

IsPing(x) ==
    /\ x.app = "ping" /\ x.identifier \in {-32768, -1, 0, 1, 32767} /\ x.sequence \in {0, 1, 300}
    /\ x.time \in {zeros(8), Some(8)}

IsHPing(x) ==
    /\ x.app = "hping" /\ x.identifier \in {-32768, -1, 0, 1, 32767} /\ x.time \in {zeros(8), Some(8)}

LEMMA PingVerifies ==
    ASSUME NEW x, IsPing(x)
    PROVE  ChecksumsRight(RequestFrame(x), ForDNS(x)) /\ ntohs(RequestFrame(x), 16) = Len(Request(x))
<1> DEFINE app == [destIp |-> peer_ip, identifier |-> x.identifier, sequence |-> x.sequence,
                   time |-> x.time]
           message == createPing(app)
<1>1. PICK id \in Identifiers, seq \in Nat : id = x.identifier /\ seq = x.sequence /\ seq <= 300
  BY DEF Identifiers, IsPing
<1>2. PICK m \in Words : m = id % 65536
  BY WordOf
<1>3. PICK t : t \in {0, 168372} /\ Piece(app.time, 8, t)
  <2>1. app.time = zeros(8) \/ app.time = Some(8)
    BY DEF IsPing
  <2> HIDE DEF app
  <2>2. Piece(zeros(8), 8, 0) /\ Piece(Some(8), 8, 168372)
    BY TimePieces
  <2>3. CASE app.time = zeros(8)
    BY <2>2, <2>3
  <2>4. CASE app.time = Some(8)
    BY <2>2, <2>4
  <2> QED BY <2>1, <2>3, <2>4
<1>4. app.identifier = id /\ app.sequence = seq /\ id \in Int /\ app.destIp = peer_ip
  BY <1>1, WordOf
<1> HIDE DEF app
<1>5. /\ BytesOf(message, 16)
      /\ OneCarry(EchoSum(app, t)) => AddsUp(message)
  <2>1. PICK n \in Nat, k \in Nat : n = 8 /\ k = 16
    OBVIOUS
  <2>2. Adds(k, 8, n)
    BY <2>1 DEF Adds
  <2>3. Piece(app.time, n, t) /\ app.identifier \in Int /\ app.sequence \in Int
    BY <1>3, <1>4, <2>1
  <2> HIDE DEF message
  <2>4. /\ BytesOf(createPing(app), k)
        /\ OneCarry(EchoSum(app, t)) => AddsUp(createPing(app))
    BY <2>2, <2>3, PingMessage, Zenon
  <2> QED BY <2>1, <2>4 DEF message
<1>6. OneCarry(EchoSum(app, t))
  <2>1. seq % 65536 = seq
    BY <1>1
  <2>2. PICK s : s = EchoSum(app, t)
    OBVIOUS
  <2>3. s = 2048 + m + seq + t
    BY <1>2, <1>4, <2>1, <2>2 DEF EchoSum
  <2>4. OneCarry(2048 + seq + m) /\ OneCarry(170420 + seq + m)
    BY <1>1, ExchangeSums
  <2>5. m \in Nat
    BY DEF Words
  <2>6. s = 2048 + seq + m \/ s = 170420 + seq + m
    BY <1>1, <1>3, <2>3, <2>5
  <2> QED BY <2>2, <2>4, <2>6
<1>7. Request(x) = createPackage(app, message, device_ip)
  <2>1. x.app = "ping"
    BY DEF IsPing
  <2> QED BY <2>1 DEF Request, app
<1> HIDE DEF message
<1>8. Request(x) = createIPHeader(Asked(Len(message), peer_ip, PROTOCL_ICMP, id), device_ip) \o message
  BY <1>4, <1>7 DEF createPackage, Asked
<1>9. message \in Seq(Byte) /\ Len(message) <= 1000
  BY <1>5 DEF BytesOf
<1>10. PROTOCL_ICMP \in Byte /\ PROTOCL_ICMP = IPPROTO_ICMP
  BY DEF PROTOCL_ICMP, IPPROTO_ICMP, Byte
<1>11. AddsUp(message) /\ x.app # "arp"
  BY <1>5, <1>6 DEF IsPing
<1> QED BY <1>8, <1>9, <1>10, <1>11, RequestVerifies

LEMMA HPingVerifies ==
    ASSUME NEW x, IsHPing(x)
    PROVE  ChecksumsRight(RequestFrame(x), ForDNS(x)) /\ ntohs(RequestFrame(x), 16) = Len(Request(x))
<1> DEFINE half(time) == SubSeq(time, 1, 4)
           app == [destIp |-> peer_ip, identifier |-> x.identifier, sequence |-> x.sequence,
                   time |-> half(x.time)]
           message == createHPing(app)
<1>1. PICK id \in Identifiers : id = x.identifier
  BY DEF Identifiers, IsHPing
<1>2. PICK m \in Words : m = id % 65536
  BY WordOf
<1>3. PICK t : t \in {0, 74934} /\ Piece(app.time, 4, t)
  <2>1. Piece(zeros(4), 4, 0) /\ half(zeros(8)) = zeros(4) /\ Piece(half(Some(8)), 4, 74934)
    BY TimePieces
  <2> HIDE DEF half
  <2>2. app.time = half(zeros(8)) \/ app.time = half(Some(8))
    BY DEF IsHPing
  <2> HIDE DEF app
  <2>3. CASE app.time = half(zeros(8))
    BY <2>1, <2>3
  <2>4. CASE app.time = half(Some(8))
    BY <2>1, <2>4
  <2> QED BY <2>2, <2>3, <2>4
<1>4. app.identifier = id /\ id \in Int /\ app.destIp = peer_ip
  BY <1>1, WordOf
<1>7. Request(x) = createPackage(app, message, device_ip)
  <2>1. x.app = "hping"
    BY DEF IsHPing
  <2> QED BY <2>1 DEF Request
<1> HIDE DEF app, half
<1>5. /\ BytesOf(message, 20)
      /\ OneCarry(3328 + (app.identifier % 65536) + t) => AddsUp(message)
  <2>1. app.identifier \in Int
    BY <1>4
  <2> QED BY <1>3, <2>1, HPingMessage
<1>6. OneCarry(3328 + (app.identifier % 65536) + t)
  <2>2. PICK s : s = 3328 + (app.identifier % 65536) + t
    OBVIOUS
  <2>3. s = 3328 + m + t
    BY <1>2, <1>4, <2>2
  <2>4. OneCarry(3328 + m) /\ OneCarry(78262 + m)
    BY ExchangeSums
  <2>5. m \in Nat
    BY DEF Words
  <2>6. s = 3328 + m \/ s = 78262 + m
    BY <1>3, <2>3, <2>5
  <2> QED BY <2>2, <2>4, <2>6
<1> HIDE DEF message, app
<1>8. Request(x) = createIPHeader(Asked(Len(message), peer_ip, PROTOCL_ICMP, id), device_ip) \o message
  BY <1>4, <1>7 DEF createPackage, Asked
<1>9. message \in Seq(Byte) /\ Len(message) <= 1000
  BY <1>5 DEF BytesOf
<1>10. PROTOCL_ICMP \in Byte /\ PROTOCL_ICMP = IPPROTO_ICMP
  BY DEF PROTOCL_ICMP, IPPROTO_ICMP, Byte
<1>11. AddsUp(message) /\ x.app # "arp"
  BY <1>5, <1>6 DEF IsHPing
<1> QED BY <1>8, <1>9, <1>10, <1>11, RequestVerifies

IsDNS(x) ==
    /\ x.app = "dns" /\ x.port \in Int /\ x.identifier \in {0, 258, 65535}
    /\ x.domain \in QueryNames

LEMMA DatagramBytes ==
    ASSUME NEW port \in Int, NEW dest \in Int, NEW n \in Nat, NEW data, Within(data, n)
    PROVE  Within(createUDPHeader([source_port |-> port, dest_port |-> dest, data |-> data]), 8 + n)
<1> DEFINE info == [source_port |-> port, dest_port |-> dest, data |-> data]
           l == htons(Len(data) + 8)
           a1 == htons(port) \o htons(dest)
           a2 == a1 \o l
           a3 == a2 \o <<0, 0>>
<1>1. createUDPHeader(info) = a3 \o data
  <2> DEFINE h == completed(info, [data |-> <<>>])
  <2>1. h.data = data
    BY DEF completed
  <2>2. {"source_port", "dest_port"} \subseteq DOMAIN info /\ info.source_port = port /\ info.dest_port = dest
    OBVIOUS
  <2> HIDE DEF h
  <2>3. createUDPHeader(info) =
          (IF ~({"source_port", "dest_port"} \subseteq DOMAIN info) THEN null
           ELSE htons(info.source_port) \o htons(info.dest_port)
                \o htons(Len(h.data) + 8) \o <<0, 0>> \o h.data)
    BY DEF createUDPHeader, h
  <2> HIDE DEF info
  <2> QED BY <2>1, <2>2, <2>3
<1>2. Len(data) + 8 \in Int
  BY DEF Within
<1>3. BytesOf(a1, 4)
  BY NumberedBytes
<1>4. BytesOf(l, 2) /\ BytesOf(<<0, 0>>, 2)
  BY <1>2, HtonsPair, ZeroBytes
<1>5. Joins(a2, a1, l) /\ Joins(a3, a2, <<0, 0>>)
  BY DEF Joins
<1>6. PICK z : z = <<0, 0>>
  OBVIOUS
<1>7. BytesOf(z, 2) /\ Joins(a3, a2, z)
  BY <1>4, <1>5, <1>6
<1> HIDE DEF a1, a2, a3, l, info
<1>8. BytesOf(a2, 6)
  BY <1>3, <1>4, <1>5, Additions, JoinedAt
<1>9. BytesOf(a3, 8)
  BY <1>7, <1>8, Additions, JoinedAt
<1>10. PICK k \in Nat : k = 8
  OBVIOUS
<1>11. Within(a3, k)
  BY <1>9, <1>10 DEF Within, BytesOf
<1>12. Within(a3 \o data, k + n)
  BY <1>11, JoinWithin
<1> QED BY <1>1, <1>10, <1>12 DEF info

LEMMA QueryVerifies ==
    ASSUME NEW x, IsDNS(x)
    PROVE  ChecksumsRight(RequestFrame(x), ForDNS(x)) /\ ntohs(RequestFrame(x), 16) = Len(Request(x))
<1> DEFINE message == createUDPHeader([source_port |-> x.port, dest_port |-> 53,
                                       data |-> queryDomain(x.domain, x.identifier)])
<1>1. PICK id \in Identifiers : id = x.identifier
  BY DEF Identifiers, IsDNS
<1>2. Within(message, 120)
  <2>1. PICK port \in Int, dest \in Int, n \in Nat : port = x.port /\ dest = 53 /\ n = 112
    BY DEF IsDNS
  <2>2. PICK data : data = queryDomain(x.domain, x.identifier)
    OBVIOUS
  <2>3. Within(data, n)
    BY <2>1, <2>2, QueryBytes DEF IsDNS
  <2>4. Within(createUDPHeader([source_port |-> port, dest_port |-> dest, data |-> data]), 8 + n)
    BY <2>3, DatagramBytes
  <2>5. 8 + n = 120
    BY <2>1
  <2> QED BY <2>1, <2>2, <2>4, <2>5
<1>3. Request(x) = createIPHeader([data_length |-> Len(message), destination_ip |-> peer_ip,
                                   protocol |-> PROTOCOL_UDP, identification |-> x.identifier], device_ip)
                   \o message
  <2>1. x.app = "dns"
    BY DEF IsDNS
  <2> QED BY <2>1 DEF Request
<1> HIDE DEF message
<1>4. Request(x) = createIPHeader(Asked(Len(message), peer_ip, PROTOCOL_UDP, id), device_ip) \o message
  BY <1>1, <1>3 DEF Asked
<1>5. message \in Seq(Byte) /\ Len(message) <= 1000
  BY <1>2 DEF Within
<1>6. PROTOCOL_UDP \in Byte
  BY DEF PROTOCOL_UDP, Byte
<1>7. x.app # "arp" /\ (ForDNS(x) \/ (PROTOCOL_UDP = IPPROTO_ICMP /\ AddsUp(message)))
  <2>1. x.app # "arp"
    BY DEF IsDNS
  <2>2. ForDNS(x)
    BY DEF IsDNS, ForDNS
  <2> QED BY <2>1, <2>2
<1> QED BY <1>4, <1>5, <1>6, <1>7, RequestVerifies

(* The requests of the exchanges.                                           *)
LEMMA ExchangeVerifies ==
    ASSUME NEW x \in Exchanges, x.app # "arp"
    PROVE  ChecksumsRight(RequestFrame(x), x.app = "dns") /\ ntohs(RequestFrame(x), 16) = Len(Request(x))
<1>1. IsPing(x) \/ IsHPing(x) \/ IsDNS(x)
  <2>1. x \in Pings => IsPing(x) \/ IsHPing(x)
    BY DEF Pings, IsPing, IsHPing
  <2>2. x \notin Resolutions
    BY DEF Resolutions
  <2>3. x \in Queries => IsDNS(x)
    BY DEF Queries, IsDNS, QueryNames
  <2> QED BY <2>1, <2>2, <2>3 DEF Exchanges
<1>2. ChecksumsRight(RequestFrame(x), ForDNS(x)) /\ ntohs(RequestFrame(x), 16) = Len(Request(x))
  BY <1>1, PingVerifies, HPingVerifies, QueryVerifies
<1> QED BY <1>2 DEF ForDNS

-----------------------------------------------------------------------------
(* The packet objects of the run.                                           *)

-----------------------------------------------------------------------------
(* The packet objects of the run.                                           *)

LEMMA GivenAddresses ==
    /\ IsAddress(<<10, 0, 0, 1>>) /\ IsAddress(<<255, 255, 0, 2>>) /\ IsAddress(<<10, 0, 0, 9>>)
    /\ IsAddress(<<0, 1, 2, 3>>) /\ IsAddress(<<4, 5, 6, 7>>) /\ IsAddress(<<255, 128, 1, 0>>)
    /\ IsAddress(<<255, 255, 255, 0>>) /\ IsAddress(zeros(4)) /\ IsAddress(<<255, 0, 1, 128>>)
    /\ IsAddress(<<0, 255, 128, 1>>)
<1>1. ASSUME NEW a \in Byte, NEW b \in Byte, NEW c \in Byte, NEW d \in Byte PROVE IsAddress(<<a, b, c, d>>)
  BY DEF IsAddress, BytesOf
<1>2. /\ 0 \in Byte /\ 1 \in Byte /\ 2 \in Byte /\ 3 \in Byte /\ 4 \in Byte /\ 5 \in Byte /\ 6 \in Byte
      /\ 7 \in Byte /\ 9 \in Byte /\ 10 \in Byte /\ 128 \in Byte /\ 255 \in Byte
  BY DEF Byte
<1>3. IsAddress(zeros(4))
  BY TimePieces DEF Piece, IsAddress
<1>4. IsAddress(<<10, 0, 0, 1>>) /\ IsAddress(<<255, 255, 0, 2>>) /\ IsAddress(<<10, 0, 0, 9>>)
  BY <1>1, <1>2
<1>5. IsAddress(<<0, 1, 2, 3>>) /\ IsAddress(<<4, 5, 6, 7>>) /\ IsAddress(<<255, 128, 1, 0>>)
  BY <1>1, <1>2
<1>6. IsAddress(<<255, 255, 255, 0>>) /\ IsAddress(<<255, 0, 1, 128>>) /\ IsAddress(<<0, 255, 128, 1>>)
  BY <1>1, <1>2
<1> QED BY <1>3, <1>4, <1>5, <1>6

SentFields == {"version", "priority", "rsv_tos", "offset", "ident", "hop_limit", "src_ip", "dst_ip"}

LEMMA GivenWhole ==
    ASSUME NEW h \in WholeHeaders
    PROVE  /\ IsIPv4Header(h) /\ "protocol" \notin DOMAIN h /\ h # <<>>
           /\ SentFields \subseteq DOMAIN h
<1>1. PICK low \in BOOLEAN, df \in BOOLEAN, ident \in {-1, 0, 300, 32767}, ttl \in {1, 128, 255} :
        h = [version |-> 4, priority |-> IF low THEN 7 ELSE 0, d_flag |-> low, t_flag |-> ~low, r_flag |-> FALSE,
             rsv_tos |-> IF low THEN 3 ELSE 0, rsv_frag |-> FALSE, dont_frag |-> df, more_frag |-> FALSE,
             offset |-> 0, ident |-> ident, hop_limit |-> ttl,
             src_ip |-> <<10, 0, 0, 1>>, dst_ip |-> <<255, 255, 0, 2>>]
  BY DEF WholeHeaders
<1>3. /\ h.priority = (IF low THEN 7 ELSE 0) /\ h.rsv_tos = (IF low THEN 3 ELSE 0)
  BY <1>1
<1>4. /\ h.version = 4 /\ h.offset = 0 /\ h.ident = ident /\ h.hop_limit = ttl
      /\ h.src_ip = <<10, 0, 0, 1>> /\ h.dst_ip = <<255, 255, 0, 2>>
  BY <1>1
<1>5. "protocol" \notin DOMAIN h /\ "version" \in DOMAIN h
  BY <1>1
<1>6. h # <<>>
  <2>1. DOMAIN <<>> = {}
    OBVIOUS
  <2> QED BY <1>5, <2>1
<1>9. h.priority \in Int /\ h.rsv_tos \in Int /\ h.offset \in Int /\ h.ident \in Int /\ h.hop_limit \in Int
  BY <1>3, <1>4
<1>10. IsAddress(h.src_ip) /\ IsAddress(h.dst_ip)
  BY <1>4, GivenAddresses
<1>11. SentFields \subseteq DOMAIN h
  BY <1>1 DEF SentFields
<1> QED BY <1>4, <1>5, <1>6, <1>9, <1>10, <1>11 DEF IsIPv4Header

LEMMA GivenHeader == IPv4Header \in WholeHeaders /\ IPv4Header \in IPv4Headers
<1>1. \E h \in WholeHeaders : h.ident = 300 /\ h.hop_limit = 128
  <2> DEFINE header(low, df, ident, ttl) ==
               [version |-> 4, priority |-> IF low THEN 7 ELSE 0, d_flag |-> low, t_flag |-> ~low, r_flag |-> FALSE,
                rsv_tos |-> IF low THEN 3 ELSE 0, rsv_frag |-> FALSE, dont_frag |-> df, more_frag |-> FALSE,
                offset |-> 0, ident |-> ident, hop_limit |-> ttl,
                src_ip |-> <<10, 0, 0, 1>>, dst_ip |-> <<255, 255, 0, 2>>]
  <2>0. PICK ident \in {-1, 0, 300, 32767} : ident = 300
    OBVIOUS
  <2>10. PICK ttl \in {1, 128, 255} : ttl = 128
    OBVIOUS
  <2> DEFINE low == TRUE
  <2>11. low \in BOOLEAN
    OBVIOUS
  <2> HIDE DEF low
  <2>1. PICK h : h = header(low, low, ident, ttl)
    <3> HIDE DEF header
    <3> QED OBVIOUS
  <2>2. h.ident = 300 /\ h.hop_limit = 128
    BY <2>0, <2>10, <2>1
  <2>3. WholeHeaders = {header(busy, df, number, time) : busy \in BOOLEAN, df \in BOOLEAN,
                    number \in {-1, 0, 300, 32767}, time \in {1, 128, 255}}
    BY DEF WholeHeaders
  <2>4. h \in WholeHeaders
    <3> HIDE DEF header
    <3> QED BY <2>1, <2>3, <2>11
  <2> QED BY <2>2, <2>4
<1>2. IPv4Header \in WholeHeaders
  BY <1>1 DEF IPv4Header
<1> QED BY <1>2 DEF IPv4Headers

LEMMA GivenHeaders ==
    ASSUME NEW h \in IPv4Headers
    PROVE  /\ IsIPv4Header(h) /\ "protocol" \notin DOMAIN h /\ h # <<>>
           /\ SentFields \subseteq DOMAIN h
<1>1. CASE h \in WholeHeaders
  BY <1>1, GivenWhole
<1>2. ASSUME NEW n \in {1, 32, 185, 256}, h = [IPv4Header EXCEPT !.offset = n]
      PROVE  /\ IsIPv4Header(h) /\ "protocol" \notin DOMAIN h /\ h # <<>>
             /\ SentFields \subseteq DOMAIN h
  <2>1. PICK w : w = IPv4Header
    OBVIOUS
  <2>2. IsIPv4Header(w) /\ "protocol" \notin DOMAIN w /\ SentFields \subseteq DOMAIN w
    BY <2>1, GivenHeader, GivenWhole
  <2>3. /\ DOMAIN h = DOMAIN w /\ h["offset"] = n
        /\ \A f \in DOMAIN w \ {"offset"} : h[f] = w[f]
    BY <1>2, <2>1, <2>2 DEF SentFields
  <2>4. /\ h.version = w.version /\ h.priority = w.priority /\ h.rsv_tos = w.rsv_tos
        /\ h.ident = w.ident /\ h.hop_limit = w.hop_limit
        /\ h.src_ip = w.src_ip /\ h.dst_ip = w.dst_ip
    BY <2>2, <2>3 DEF SentFields
  <2>5. IsIPv4Header(h)
    BY <2>2, <2>3, <2>4 DEF IsIPv4Header
  <2>6. h # <<>>
    <3>1. "version" \in DOMAIN h /\ DOMAIN <<>> = {}
      BY <2>2, <2>3 DEF SentFields
    <3> QED BY <3>1
  <2> QED BY <2>2, <2>3, <2>5, <2>6
<1> QED BY <1>1, <1>2 DEF IPv4Headers

LEMMA WithProtocol ==
    ASSUME NEW h, IsIPv4Header(h), "protocol" \notin DOMAIN h
    PROVE  LET c == completed(h, [protocol |-> 89])
           IN  /\ c.protocol = 89
               /\ \A f \in DOMAIN h : c[f] = h[f]
BY DEF completed

LEMMA PayloadBytesOf ==
    ASSUME NEW d \in Payloads
    PROVE  Within(d, 1560)
<1>1. 7 \in Byte /\ 255 \in Byte /\ 1 \in Byte /\ 2 \in Byte /\ 3 \in Byte
  BY DEF Byte
<1>2. PICK s : s = Some(64)
  OBVIOUS
<1>3. s \in Seq(Byte) /\ Len(s) = 64
  <2>1. PICK n \in Nat : n = 64
    OBVIOUS
  <2>2. BytesOf(s, n)
    BY <1>2, <2>1, NumberBytes
  <2> QED BY <2>1, <2>2 DEF BytesOf
<1>4. d = <<>> \/ d = <<7>> \/ d = <<255, 255>> \/ d = <<1, 2, 3>> \/ d = s
  BY <1>2 DEF Payloads
<1>5. CASE d = <<>>
  BY <1>5 DEF Within
<1>6. CASE d = <<7>>
  BY <1>1, <1>6 DEF Within
<1>7. CASE d = <<255, 255>>
  BY <1>1, <1>7 DEF Within
<1>8. CASE d = <<1, 2, 3>>
  BY <1>1, <1>8 DEF Within
<1>9. CASE d = s
  <2>1. Within(s, 1560)
    BY <1>3 DEF Within
  <2> QED BY <1>9, <2>1
<1> QED BY <1>4, <1>5, <1>6, <1>7, <1>8, <1>9

LEMMA GivenLink ==
    ASSUME NEW type \in Int
    PROVE  IsLink(Ethernet(type)) /\ Ethernet(type).frametype = type
<1> DEFINE d == Ethernet(type)
<1>1. d.frametype = type /\ d.src_mac = SrcMac /\ d.dst_mac = DstMac /\ "frametype" \in DOMAIN d
  BY DEF Ethernet
<1>2. d # <<>>
  <2>1. DOMAIN <<>> = {}
    OBVIOUS
  <2> HIDE DEF d
  <2> QED BY <1>1, <2>1
<1>3. BytesOf(DstMac, 6) /\ BytesOf(SrcMac, 6)
  <2>1. 0 \in Byte /\ 1 \in Byte /\ 2 \in Byte /\ 254 \in Byte
    BY DEF Byte
  <2> QED BY <2>1 DEF BytesOf, DstMac, SrcMac
<1> HIDE DEF d
<1> QED BY <1>1, <1>2, <1>3 DEF IsLink, d

Excused(p) == p.class = "ICMPPacket" /\ (p.transport.type = 9 \/ Len(p.data) % 2 = 1)

(* What is common to the packet objects of the run.                         *)
IsGiven(p, class) == p.class = class /\ IsLink(p.datalink) /\ Within(p.data, 1560)

LEMMA GivenPacket ==
    ASSUME NEW class, NEW type \in Int, NEW n, NEW t, NEW d, Within(d, 1560)
    PROVE  LET p == packet(class, type, n, t, d)
           IN  IsGiven(p, class) /\ p.network = n /\ p.transport = t /\ p.data = d /\ p.datalink.frametype = type
<1> DEFINE p == packet(class, type, n, t, d)
<1>1. p.class = class /\ p.network = n /\ p.transport = t /\ p.data = d /\ p.datalink = Ethernet(type)
  BY DEF packet
<1>2. IsLink(Ethernet(type)) /\ Ethernet(type).frametype = type
  BY GivenLink
<1> HIDE DEF p
<1>3. p.datalink.frametype = type
  BY <1>1, <1>2
<1> QED BY <1>1, <1>2, <1>3 DEF IsGiven, p

LEMMA SegmentPackets ==
    ASSUME NEW p \in SegmentsOver(ETHERTYPE_IP, IPv4Header)
    PROVE  IsIPv4Packet(p)
<1>1. PICK t \in TCPHeaders, d \in Payloads : p = packet("TCPPacket", ETHERTYPE_IP, IPv4Header, t, d)
  BY DEF SegmentsOver
<1>2. IsTCPHeader(t)
  <2>1. t.sequence \in {zeros(4), <<255, 0, 1, 128>>} /\ t.ack_num = <<0, 255, 128, 1>>
    BY DEF TCPHeaders
  <2>2. t.src_port \in Int /\ t.dst_port \in Int /\ t.window \in Int /\ t.urgent_pointer \in Int
    BY DEF TCPHeaders
  <2>3. BytesOf(t.sequence, 4) /\ BytesOf(t.ack_num, 4)
    <3>1. BytesOf(zeros(4), 4) /\ BytesOf(<<255, 0, 1, 128>>, 4) /\ BytesOf(<<0, 255, 128, 1>>, 4)
      BY GivenAddresses DEF IsAddress
    <3> QED BY <2>1, <3>1
  <2> QED BY <2>2, <2>3 DEF IsTCPHeader
<1>3. IsIPv4Header(IPv4Header)
  BY GivenHeader, GivenHeaders
<1>4. ETHERTYPE_IP \in Int
  BY DEF ETHERTYPE_IP
<1>5. IsGiven(p, "TCPPacket") /\ p.network = IPv4Header /\ p.transport = t
  BY <1>1, <1>4, PayloadBytesOf, GivenPacket
<1> QED BY <1>2, <1>3, <1>5 DEF IsIPv4Packet, IsGiven, Within

LEMMA DatagramPackets ==
    ASSUME NEW p \in DatagramsOver(ETHERTYPE_IP, IPv4Headers)
    PROVE  IsIPv4Packet(p)
<1>1. PICK h \in IPv4Headers, t \in UDPHeaders, d \in Payloads : p = packet("UDPPacket", ETHERTYPE_IP, h, t, d)
  BY DEF DatagramsOver
<1>2. IsUDPHeader(t)
  BY DEF UDPHeaders, IsUDPHeader
<1>3. IsIPv4Header(h)
  BY GivenHeaders
<1>4. ETHERTYPE_IP \in Int
  BY DEF ETHERTYPE_IP
<1>5. IsGiven(p, "UDPPacket") /\ p.network = h /\ p.transport = t
  BY <1>1, <1>4, PayloadBytesOf, GivenPacket
<1> QED BY <1>2, <1>3, <1>5 DEF IsIPv4Packet, IsGiven, Within

(* An ICMP packet object is excused when it is exempt.                      *)
LEMMA ICMPPackets ==
    ASSUME NEW p, NEW t, NEW d, Within(d, 1560), p = packet("ICMPPacket", ETHERTYPE_IP, IPv4Header, t, d),
           t.type \in Int, t.code \in Int, t.type \in KnownICMP => IsICMPHeader(t),
           t.type \notin KnownICMP => t.type = 9
    PROVE  IsIPv4Packet(p) /\ (Exempt(p) => Excused(p))
<1>3. IsIPv4Header(IPv4Header)
  BY GivenHeader, GivenHeaders
<1>4. ETHERTYPE_IP \in Int
  BY DEF ETHERTYPE_IP
<1>5. IsGiven(p, "ICMPPacket") /\ p.network = IPv4Header /\ p.transport = t /\ p.data = d
  BY <1>4, GivenPacket
<1>6. IsIPv4Packet(p)
  BY <1>3, <1>5 DEF IsIPv4Packet, IsGiven, Within
<1>7. Exempt(p) => Excused(p)
  <2>1. PICK n \in Nat : n = Len(d)
    BY DEF Within
  <2>2. ~Even(n) => n % 2 = 1
    BY DEF Even
  <2>3. p.class = "ICMPPacket"
    BY <1>5 DEF IsGiven
  <2> QED BY <1>5, <2>1, <2>2, <2>3 DEF Exempt, Excused
<1> QED BY <1>6, <1>7

LEMMA EchoesKnown ==
    ASSUME NEW p \in EchoPackets
    PROVE  IsIPv4Packet(p) /\ (Exempt(p) => Excused(p))
<1>1. PICK t \in Echoes, d \in Payloads : p = packet("ICMPPacket", ETHERTYPE_IP, IPv4Header, t, d)
  BY DEF EchoPackets
<1>2. /\ t.type \in {ICMP_ECHO, ICMP_ECHOREPLY} /\ t.code \in Int /\ t.id \in Int /\ t.seq \in Int
  BY DEF Echoes
<1>3. /\ t.type \in Int /\ t.type \in KnownICMP /\ t.type \notin ICMPErrors /\ t.type \notin ICMPStamps
      /\ t.type \notin ICMPMasks /\ t.type # ICMP_REDIRECT
  BY <1>2 DEF KnownICMP, ICMPErrors, ICMPStamps, ICMPMasks, ICMP_ECHO, ICMP_ECHOREPLY, ICMP_REDIRECT,
     ICMP_UNREACH, ICMP_SOURCEQUENCH, ICMP_TIMXCEED, ICMP_PARAMPROB, ICMP_TSTAMP, ICMP_TSTAMPREPLY,
     ICMP_MASKREQ, ICMP_MASKREPLY
<1>4. IsICMPHeader(t)
  BY <1>2, <1>3 DEF IsICMPHeader
<1> QED BY <1>1, <1>3, <1>4, <1>2, PayloadBytesOf, ICMPPackets

LEMMA TypeKinds ==
    ASSUME NEW n \in Int
    PROVE  /\ n \in ICMPErrors <=> n \in {3, 4, 5, 11, 12}
           /\ n \in ICMPStamps <=> n \in {13, 14}
           /\ n \in ICMPMasks <=> n \in {17, 18}
           /\ n \in {ICMP_ECHOREPLY, ICMP_ECHO} <=> n \in {0, 8}
           /\ n \in KnownICMP <=> n \in {0, 3, 4, 5, 8, 11, 12, 13, 14, 17, 18}
BY DEF KnownICMP, ICMPErrors, ICMPStamps, ICMPMasks, ICMP_ECHO, ICMP_ECHOREPLY, ICMP_REDIRECT,
     ICMP_UNREACH, ICMP_SOURCEQUENCH, ICMP_TIMXCEED, ICMP_PARAMPROB, ICMP_TSTAMP, ICMP_TSTAMPREPLY,
     ICMP_MASKREQ, ICMP_MASKREPLY

LEMMA OthersKnown ==
    ASSUME NEW p \in OtherICMPPackets
    PROVE  IsIPv4Packet(p) /\ (Exempt(p) => Excused(p))
<1>1. PICK t \in OtherICMP : p = packet("ICMPPacket", ETHERTYPE_IP, IPv4Header, t, Some(12))
  BY DEF OtherICMPPackets
<1>2. IsIPv4Header(IPv4Header) /\ IPv4Header # <<>>
  BY GivenHeader, GivenHeaders
<1>3. PICK header : header = IPv4Header /\ IsIPv4Header(header) /\ header # <<>>
  BY <1>2
<1>4. \/ t = [type |-> 5, code |-> 1, redir_ip |-> <<10, 0, 0, 9>>, ippacket |-> header]
      \/ t = [type |-> 3, code |-> 3, ippacket |-> <<>>]
      \/ t = [type |-> 11, code |-> 0, ippacket |-> header]
      \/ t = [type |-> 14, code |-> 0, id |-> 5, seq |-> 6, orig_timestamp |-> <<0, 1, 2, 3>>,
              recv_timestamp |-> <<4, 5, 6, 7>>, trans_timestamp |-> <<255, 128, 1, 0>>]
      \/ t = [type |-> 18, code |-> 0, id |-> 5, seq |-> 6, subnetmask |-> <<255, 255, 255, 0>>]
      \/ t = [type |-> 9, code |-> 2]
  BY <1>3 DEF OtherICMP, ICMP_REDIRECT, ICMP_UNREACH, ICMP_TIMXCEED, ICMP_TSTAMPREPLY, ICMP_MASKREPLY
<1> DEFINE fits == /\ t.type \in Int /\ t.code \in Int
                   /\ t.type \in KnownICMP => IsICMPHeader(t)
                   /\ t.type \notin KnownICMP => t.type = 9
<1> HIDE DEF fits
<1>11. fits
  <2>2. CASE t = [type |-> 5, code |-> 1, redir_ip |-> <<10, 0, 0, 9>>, ippacket |-> header]
    <3>1. t.type = 5 /\ t.code = 1 /\ t.redir_ip = <<10, 0, 0, 9>> /\ t.ippacket = header
      BY <2>2
    <3>2. IsAddress(t.redir_ip)
      BY <3>1, GivenAddresses
    <3>3. fits
      BY <1>3, <3>1, <3>2, TypeKinds DEF IsICMPHeader, ICMP_REDIRECT, ICMP_ECHO, ICMP_ECHOREPLY, fits
    <3> QED BY <3>3
  <2>3. CASE t = [type |-> 3, code |-> 3, ippacket |-> <<>>]
    <3>1. t.type = 3 /\ t.code = 3 /\ t.ippacket = <<>>
      BY <2>3
    <3> QED BY <3>1, TypeKinds DEF IsICMPHeader, ICMP_REDIRECT, ICMP_ECHO, ICMP_ECHOREPLY, fits
  <2>4. CASE t = [type |-> 11, code |-> 0, ippacket |-> header]
    <3>1. t.type = 11 /\ t.code = 0 /\ t.ippacket = header
      BY <2>4
    <3> QED BY <1>3, <3>1, TypeKinds DEF IsICMPHeader, ICMP_REDIRECT, ICMP_ECHO, ICMP_ECHOREPLY, fits
  <2>5. CASE t = [type |-> 14, code |-> 0, id |-> 5, seq |-> 6, orig_timestamp |-> <<0, 1, 2, 3>>,
                  recv_timestamp |-> <<4, 5, 6, 7>>, trans_timestamp |-> <<255, 128, 1, 0>>]
    <3>1. /\ t.type = 14 /\ t.code = 0 /\ t.id = 5 /\ t.seq = 6 /\ t.orig_timestamp = <<0, 1, 2, 3>>
          /\ t.recv_timestamp = <<4, 5, 6, 7>> /\ t.trans_timestamp = <<255, 128, 1, 0>>
      BY <2>5
    <3>2. IsAddress(t.orig_timestamp) /\ IsAddress(t.recv_timestamp) /\ IsAddress(t.trans_timestamp)
      BY <3>1, GivenAddresses
    <3>3. t.type = 14 /\ t.code = 0 /\ t.id = 5 /\ t.seq = 6
      BY <3>1
    <3> QED BY <3>2, <3>3, TypeKinds DEF IsICMPHeader, ICMP_REDIRECT, ICMP_ECHO, ICMP_ECHOREPLY, fits
  <2>6. CASE t = [type |-> 18, code |-> 0, id |-> 5, seq |-> 6, subnetmask |-> <<255, 255, 255, 0>>]
    <3>1. t.type = 18 /\ t.code = 0 /\ t.id = 5 /\ t.seq = 6 /\ t.subnetmask = <<255, 255, 255, 0>>
      BY <2>6
    <3>2. IsAddress(t.subnetmask)
      BY <3>1, GivenAddresses
    <3>3. t.type = 18 /\ t.code = 0 /\ t.id = 5 /\ t.seq = 6
      BY <3>1
    <3> QED BY <3>2, <3>3, TypeKinds DEF IsICMPHeader, ICMP_REDIRECT, ICMP_ECHO, ICMP_ECHOREPLY, fits
  <2>7. CASE t = [type |-> 9, code |-> 2]
    <3>1. t.type = 9 /\ t.code = 2
      BY <2>7
    <3> QED BY <3>1, TypeKinds DEF fits
  <2> QED BY <1>4, <2>2, <2>3, <2>4, <2>5, <2>6, <2>7
<1>12. Within(Some(12), 1560)
  <2>0. PICK n \in Nat : n = 12
    OBVIOUS
  <2>1. n <= 1560
    BY <2>0
  <2>2. PICK d : d = Some(12)
    OBVIOUS
  <2>3. BytesOf(d, n)
    BY <2>0, <2>2, NumberBytes
  <2>4. Within(d, 1560)
    BY <2>1, <2>3 DEF BytesOf, Within
  <2> QED BY <2>2, <2>4
<1> QED
  <2>1. PICK d : d = Some(12)
    OBVIOUS
  <2>2. Within(d, 1560) /\ p = packet("ICMPPacket", ETHERTYPE_IP, IPv4Header, t, d)
    BY <1>1, <1>12, <2>1
  <2>3. /\ t.type \in Int /\ t.code \in Int
        /\ t.type \in KnownICMP => IsICMPHeader(t)
        /\ t.type \notin KnownICMP => t.type = 9
    BY <1>11 DEF fits
  <2> QED BY <2>2, <2>3, ICMPPackets

LEMMA OthersOverIP ==
    ASSUME NEW p \in OtherIPPackets
    PROVE  IsIPv4Packet(p)
<1>1. PICK h \in IPv4Headers, d \in Payloads :
        p = packet("IPPacket", ETHERTYPE_IP, completed(h, [protocol |-> 89]), <<>>, d)
  BY DEF OtherIPPackets
<1> DEFINE c == completed(h, [protocol |-> 89])
<1>2. c.protocol = 89 /\ \A f \in DOMAIN h : c[f] = h[f]
  BY GivenHeaders, WithProtocol
<1>3. {"version", "priority", "rsv_tos", "offset", "ident", "hop_limit", "src_ip", "dst_ip"} \subseteq DOMAIN h
  BY GivenHeaders DEF SentFields
<1> HIDE DEF c
<1>4. /\ c.version = h.version /\ c.priority = h.priority /\ c.rsv_tos = h.rsv_tos /\ c.offset = h.offset
      /\ c.ident = h.ident /\ c.hop_limit = h.hop_limit /\ c.src_ip = h.src_ip /\ c.dst_ip = h.dst_ip
  BY <1>2, <1>3
<1>5. IsIPv4Header(c)
  BY <1>4, GivenHeaders DEF IsIPv4Header
<1>6. ETHERTYPE_IP \in Int
  BY DEF ETHERTYPE_IP
<1>7. IsGiven(p, "IPPacket") /\ p.network = c
  BY <1>1, <1>6, PayloadBytesOf, GivenPacket DEF c
<1>8. c.protocol \in Int /\ c.protocol % 256 \notin {IPPROTO_TCP, IPPROTO_UDP, IPPROTO_ICMP}
  BY <1>2 DEF IPPROTO_TCP, IPPROTO_UDP, IPPROTO_ICMP
<1> QED BY <1>5, <1>7, <1>8 DEF IsIPv4Packet, IsGiven, Within

(* A packet object of the run over IPv4 is one of those above: the other    *)
(* types of frame are numbers of their own.                                 *)
LEMMA OtherTypes ==
    /\ ETHERTYPE_ARP # ETHERTYPE_IP /\ -30516 # ETHERTYPE_IP
    /\ jshort(ETHERTYPE_IPV6) # ETHERTYPE_IP
<1>1. ETHERTYPE_ARP # ETHERTYPE_IP /\ -30516 # ETHERTYPE_IP
  BY DEF ETHERTYPE_ARP, ETHERTYPE_IP
<1>2. 34525 % 65536 = 34525
  OBVIOUS
<1>3. jshort(ETHERTYPE_IPV6) = -31011
  BY <1>2 DEF ETHERTYPE_IPV6, jshort
<1>4. ETHERTYPE_IP = 2048
  BY DEF ETHERTYPE_IP
<1> QED BY <1>1, <1>3, <1>4

LEMMA TypeOfPacket ==
    ASSUME NEW class, NEW type, NEW n, NEW t, NEW d
    PROVE  packet(class, type, n, t, d).datalink.frametype = type
BY DEF packet, Ethernet

LEMMA ClassOfPacket ==
    ASSUME NEW class, NEW type, NEW n, NEW t, NEW d
    PROVE  packet(class, type, n, t, d).class = class
BY DEF packet

LEMMA OverIPv4 ==
    ASSUME NEW p \in Packets, p.datalink.frametype = ETHERTYPE_IP
    PROVE  p \in IPv4Packets
<1> DEFINE Other(type) == \A class, n, t, d : p # packet(class, type, n, t, d)
<1>1. ASSUME NEW type, type # ETHERTYPE_IP PROVE Other(type)
  BY <1>1, TypeOfPacket
<1>5. Other(ETHERTYPE_ARP) /\ Other(-30516) /\ Other(jshort(ETHERTYPE_IPV6))
  <2> HIDE DEF Other
  <2> QED BY <1>1, OtherTypes
<1>2. p \notin IPv6Packets
  <2> DEFINE type == jshort(ETHERTYPE_IPV6)
  <2>1. \A header, t, d : p # packet("TCPPacket", type, header, t, d) /\ p # packet("UDPPacket", type, header, t, d)
    BY <1>5
  <2>2. p \notin SegmentsOver(type, IPv6Header)
    BY <2>1 DEF SegmentsOver
  <2>3. p \notin DatagramsOver(type, {IPv6Header})
    BY <2>1 DEF DatagramsOver
  <2> QED BY <2>2, <2>3 DEF IPv6Packets
<1>3. p \notin ARPPackets
  <2>1. \A h : p # packet("ARPPacket", ETHERTYPE_ARP, h, <<>>, <<>>)
    BY <1>5
  <2> QED BY <2>1 DEF ARPPackets
<1>4. p \notin PlainPackets
  <2>1. \A d : p # packet("Packet", -30516, <<>>, <<>>, d)
    BY <1>5
  <2> QED BY <2>1 DEF PlainPackets
<1> QED BY <1>2, <1>3, <1>4 DEF Packets

LEMMA IPv4PacketsKnown ==
    ASSUME NEW p \in IPv4Packets
    PROVE  IsIPv4Packet(p) /\ (Exempt(p) => Excused(p))
<1>1. CASE p \in SegmentsOver(ETHERTYPE_IP, IPv4Header)
  <2>1. p.class = "TCPPacket"
    BY <1>1, ClassOfPacket DEF SegmentsOver
  <2> QED BY <1>1, <2>1, SegmentPackets DEF Exempt
<1>2. CASE p \in DatagramsOver(ETHERTYPE_IP, IPv4Headers)
  <2>1. p.class = "UDPPacket"
    BY <1>2, ClassOfPacket DEF DatagramsOver
  <2> QED BY <1>2, <2>1, DatagramPackets DEF Exempt
<1>3. CASE p \in EchoPackets
  BY <1>3, EchoesKnown
<1>4. CASE p \in OtherICMPPackets
  BY <1>4, OthersKnown
<1>5. CASE p \in OtherIPPackets
  <2>1. p.class = "IPPacket"
    BY <1>5, ClassOfPacket DEF OtherIPPackets
  <2> QED BY <1>5, <2>1, OthersOverIP DEF Exempt
<1> QED BY <1>1, <1>2, <1>3, <1>4, <1>5 DEF IPv4Packets

LEMMA PacketVerifies ==
    ASSUME NEW p \in Packets, p.datalink.frametype = ETHERTYPE_IP
    PROVE  ChecksumsRight(SentOf(p), Excused(p))
<1>1. IsIPv4Packet(p) /\ (Exempt(p) => Excused(p))
  BY OverIPv4, IPv4PacketsKnown
<1>2. Junk \in Byte
  BY DEF Junk, Byte
<1>3. ChecksumsRight(SentOf(p), Exempt(p))
  BY <1>1, <1>2, SentChecksums DEF SentOf
<1> QED BY <1>1, <1>3 DEF ChecksumsRight

(* In a run every IPv4 packet that leaves, of those Jpcap fills from a      *)
(* packet object and of those the stack builds itself, has checksums its    *)
(* receiver accepts, and of the latter the length in the header is that of  *)
(* the packet.                                                              *)
THEOREM WireChecksumsHold == Spec => []WireChecksums
<1>1. Init => WireChecksums
  <2>1. ASSUME Init, subject = "packet", content.datalink.frametype = ETHERTYPE_IP
        PROVE  ChecksumsRight(SentOf(content), Excused(content))
    <3>1. content \in Packets
      BY <2>1 DEF Init, PacketInit
    <3> QED BY <2>1, <3>1, PacketVerifies
  <2>2. ASSUME Init, subject = "exchange", content.app # "arp"
        PROVE  /\ ChecksumsRight(RequestFrame(content), content.app = "dns")
               /\ ntohs(RequestFrame(content), 16) = Len(Request(content))
    <3>1. content \in Exchanges
      BY <2>2 DEF Init, PacketInit
    <3> QED BY <2>2, <3>1, ExchangeVerifies
  <2> QED BY <2>1, <2>2 DEF WireChecksums, Excused
<1>2. WireChecksums /\ [Next]_<<subject, content, cut>> => WireChecksums'
  BY DEF WireChecksums, Next
<1> QED BY <1>1, <1>2, PTL DEF Spec
=============================================================================

-------------------------- MODULE TraceRouteProofs ---------------------------
(* Theorems about TraceRoute, for routes of any length its time to live can *)
(* reach, any number of losses, repeats and messages of other hosts.        *)
EXTENDS TraceRoute, FiniteSetTheorems, SequenceTheorems, TLAPS

(* A message the program takes for that of a router on the way.             *)
Understood(m) == HandlePacket(m) = "time exceeded"

(* Other hosts send nothing that is understood so.  (A ping of theirs is,   *)
(* which is where the theorems end: see the run trace_pinged.)              *)
ForeignIsOther ==
    \A f \in Foreign : ~Understood([type |-> f[1], code |-> f[2], from |-> Host])

RouterAnswer(k) == [type |-> 11, code |-> 0, from |-> Route[k]]

(* The n-th probe has time to live n, and the program goes on by one probe  *)
(* and one line at a time.                                                  *)
ProgramInv ==
    /\ registered \in BOOLEAN /\ (registered <=> probes # <<>>)
    /\ report = <<>> \/ probes # <<>>
    /\ probes # <<>> => Len(probes) = Len(report) + 1
    /\ time_to_live = Len(report) + 1
    /\ \A n \in 1..Len(probes) : probes[n].ttl = n

(* While the outbox is closed the one probe waits in it; once it is open    *)
(* every probe has gone out.                                                *)
OutboxInv ==
    /\ open \in BOOLEAN /\ box \in [{Target} -> Nat]
    /\ out \in Seq(Nat) /\ accepted \in Seq({Target})
    /\ ~open => out = <<>> /\ box[Target] = Len(probes) /\ report = <<>>
    /\ open => Range(out) = 1..Len(probes) /\ probes # <<>>

(* What is understood was sent by the router at which a probe ended.        *)
AnswersInv ==
    \A m \in icmp : Understood(m) =>
      \E k \in 1..Len(Route) : m = RouterAnswer(k) /\ k \in travelled

(* The routers whose answer is on its way, and those that were to answer: a *)
(* line uses up one or the other.                                           *)
Pending == {k \in 1..Len(Route) : RouterAnswer(k) \in icmp}
Reached == travelled \cap (1..Len(Route))
LinesPaid ==
    Len(report) + Cardinality(Pending) + repeats <= Cardinality(Reached) + MaxRepeats

(* As long as nothing is repeated, only the last probe can be answered.     *)
OneByOne ==
    repeats = MaxRepeats =>
      /\ \A k \in Pending : k = Len(probes)
      /\ \A n \in 1..(Len(probes) - 1) : n \in travelled
      /\ \A k \in 1..Len(report) :
           k \in 1..Len(Route) /\ report[k] = [hop |-> k, ip |-> Route[k]]

IInv == TypeOK /\ ProgramInv /\ OutboxInv /\ AnswersInv /\ LinesPaid /\ OneByOne

-----------------------------------------------------------------------------
LEMMA RouteFacts ==
    /\ Len(Route) \in Nat /\ MaxRepeats \in Nat /\ Len(Route) + MaxRepeats < 127
    /\ DOMAIN Route = 1..Len(Route)
    /\ \A k \in 1..Len(Route) :
         Route[k] \in Range(Route) /\ Route[k] # Target /\ Route[k] # Host
    /\ \A j, k \in 1..Len(Route) : RouterAnswer(j) = RouterAnswer(k) => j = k
<1>1. Route \in Seq(Range(Route))
  BY TraceAssumption
<1>2. Len(Route) \in Nat /\ DOMAIN Route = 1..Len(Route)
  BY <1>1
<1>3. \A k \in 1..Len(Route) : Route[k] \in Range(Route)
  BY <1>2 DEF Range
<1>4. ASSUME NEW j \in 1..Len(Route), NEW k \in 1..Len(Route), RouterAnswer(j) = RouterAnswer(k)
      PROVE  j = k
  <2>1. Route[j] = Route[k]
    BY <1>4 DEF RouterAnswer
  <2> QED BY <1>2, <2>1, TraceAssumption DEF IsInjective
<1> QED BY <1>2, <1>3, <1>4, TraceAssumption

LEMMA Counts ==
    /\ IsFiniteSet(Pending) /\ Cardinality(Pending) \in Nat
    /\ IsFiniteSet(Reached) /\ Cardinality(Reached) \in Nat
    /\ Cardinality(Reached) <= Len(Route)
<1>1. IsFiniteSet(1..Len(Route)) /\ Cardinality(1..Len(Route)) = Len(Route)
  <2> DEFINE n == Len(Route)
  <2>1. n \in Nat
    BY RouteFacts
  <2> HIDE DEF n
  <2>2. IsFiniteSet(1..n) /\ Cardinality(1..n) = IF 1 > n THEN 0 ELSE n - 1 + 1
    BY <2>1, FS_Interval
  <2>3. Cardinality(1..n) = n
    BY <2>1, <2>2
  <2> QED BY <2>2, <2>3 DEF n
<1>2. Pending \in SUBSET (1..Len(Route)) /\ Reached \in SUBSET (1..Len(Route))
  BY DEF Pending, Reached
<1> QED BY <1>1, <1>2, FS_Subset, FS_CardinalityType

(* The trace never prints more lines than there are routers and repeats, so *)
(* that its time to live does not overflow.                                 *)
LEMMA LinesBounded ==
    ASSUME Len(report) \in Nat, repeats \in Nat, LinesPaid
    PROVE  Len(report) + repeats <= Len(Route) + MaxRepeats
BY RouteFacts, Counts DEF LinesPaid

LEMMA SequenceFacts ==
    ASSUME IInv
    PROVE  /\ Len(report) \in Nat /\ Len(probes) \in Nat /\ Len(accepted) = Len(probes)
           /\ DOMAIN report = 1..Len(report) /\ DOMAIN probes = 1..Len(probes)
           /\ repeats \in Nat /\ repeats <= MaxRepeats
           /\ probes = <<>> <=> Len(probes) = 0
           /\ report = <<>> <=> Len(report) = 0
<1> DEFINE Line == [hop : Octet, ip : Range(Route)]
<1>1. report \in Seq(Line) /\ probes \in Seq(Probe) /\ Len(accepted) = Len(probes)
  BY DEF IInv, TypeOK
<1>2. repeats \in Nat /\ repeats <= MaxRepeats
  <2>1. repeats \in 0..MaxRepeats
    BY DEF IInv, TypeOK
  <2> QED BY <2>1, RouteFacts
<1> HIDE DEF Line
<1>3. /\ Len(report) \in Nat /\ DOMAIN report = 1..Len(report)
      /\ report = <<>> <=> Len(report) = 0
  BY <1>1, EmptySeq
<1>4. /\ Len(probes) \in Nat /\ DOMAIN probes = 1..Len(probes)
      /\ probes = <<>> <=> Len(probes) = 0
  BY <1>1, EmptySeq
<1> QED BY <1>1, <1>2, <1>3, <1>4

LEMMA RangeOfAppend ==
    ASSUME NEW S, NEW s \in Seq(S), NEW x
    PROVE  /\ Append(s, x) \in Seq(S \cup {x}) /\ Len(Append(s, x)) = Len(s) + 1
           /\ \A k \in 1..Len(s) : Append(s, x)[k] = s[k]
           /\ Append(s, x)[Len(s) + 1] = x
           /\ DOMAIN Append(s, x) = 1..(Len(s) + 1)
           /\ Range(Append(s, x)) = Range(s) \cup {x}
<1>1. s \in Seq(S \cup {x}) /\ x \in S \cup {x}
  BY SeqMonotonic
<1>2. /\ Append(s, x) \in Seq(S \cup {x}) /\ Len(Append(s, x)) = Len(s) + 1 /\ Len(s) \in Nat
      /\ \A k \in 1..Len(s) : Append(s, x)[k] = s[k]
      /\ Append(s, x)[Len(s) + 1] = x
      /\ DOMAIN Append(s, x) = 1..(Len(s) + 1) /\ DOMAIN s = 1..Len(s)
  BY <1>1, AppendProperties, LenProperties
<1>3. 1..(Len(s) + 1) = (1..Len(s)) \cup {Len(s) + 1}
  BY <1>2
<1> HIDE DEF Range
<1>4. Range(Append(s, x)) = Range(s) \cup {x}
  BY <1>2, <1>3 DEF Range
<1> QED BY <1>2, <1>4

(* Routers answer for themselves.                                           *)
LEMMA AnswersLessOne ==
    ASSUME NEW k \in 1..Len(Route), RouterAnswer(k) \in icmp, icmp' = icmp \ {RouterAnswer(k)}
    PROVE  Cardinality(Pending') = Cardinality(Pending) - 1
<1>1. k \in Pending
  BY DEF Pending
<1>2. Pending' = Pending \ {k}
  BY RouteFacts DEF Pending
<1> QED BY <1>1, <1>2, Counts, FS_RemoveElement

LEMMA FewerAnswers ==
    ASSUME icmp' \subseteq icmp
    PROVE  /\ Pending' \subseteq Pending
           /\ Cardinality(Pending') \in Nat /\ Cardinality(Pending') <= Cardinality(Pending)
<1>1. Pending' \in SUBSET Pending
  BY DEF Pending
<1>2. IsFiniteSet(Pending') /\ Cardinality(Pending') <= Cardinality(Pending)
  BY <1>1, Counts, FS_Subset
<1> QED BY <1>1, <1>2, FS_CardinalityType

-----------------------------------------------------------------------------
(* A step in which the program prints a line and sends the next probe.      *)
Advance(m) ==
    /\ Understood(m) /\ registered /\ HandleData(m.from)
    /\ \/ icmp' = icmp \ {m} /\ UNCHANGED repeats
       \/ icmp' = icmp /\ repeats > 0 /\ repeats' = repeats - 1
    /\ UNCHANGED <<travelled, silent, foreign, losses>>

LEMMA AdvanceFacts ==
    ASSUME IInv, NEW m \in icmp, Advance(m), NEW R, R = Len(report)
    PROVE  /\ \E k \in 1..Len(Route) : m = RouterAnswer(k) /\ k \in travelled
           /\ R \in Nat /\ Len(probes) = R + 1 /\ time_to_live = R + 1 /\ open
           /\ report' = Append(report, [hop |-> R + 1, ip |-> m.from])
           /\ Len(report') = R + 1 /\ DOMAIN report' = 1..(R + 1)
           /\ \A k \in 1..R : report'[k] = report[k]
           /\ report'[R + 1] = [hop |-> R + 1, ip |-> m.from]
           /\ out' = Append(out, R + 2) /\ box' = box /\ open' = open
           /\ accepted' = Append(accepted, Target)
           /\ repeats' \in Nat /\ repeats' <= repeats /\ icmp' \subseteq icmp
<1>1. PICK k \in 1..Len(Route) : m = RouterAnswer(k) /\ k \in travelled
  BY DEF Advance, IInv, AnswersInv
<1>2. /\ R \in Nat /\ Len(accepted) = Len(probes) /\ repeats \in Nat
      /\ DOMAIN report = 1..R
  BY SequenceFacts
<1>3. Len(probes) = R + 1 /\ time_to_live = R + 1
  BY DEF Advance, IInv, ProgramInv
<1>4. open
  <2>1. k \in Range(out)
    BY <1>1 DEF IInv, TypeOK
  <2>2. out # <<>>
    BY <2>1 DEF Range
  <2> QED BY <2>2 DEF IInv, OutboxInv
<1>5. /\ out' = Append(out, R + 2) /\ box' = box /\ open' = open
      /\ accepted' = Append(accepted, Target)
  <2>1. Outbox!Submit(Target)
    BY DEF Advance, HandleData, StartTraceRoute
  <2>2. Len(accepted) + 1 = R + 2
    BY <1>2, <1>3
  <2> QED BY <1>4, <2>1, <2>2 DEF Outbox!Submit
<1>6. report' = Append(report, [hop |-> R + 1, ip |-> m.from])
  BY <1>3 DEF Advance, HandleData
<1>7. /\ Len(report') = R + 1 /\ DOMAIN report' = 1..(R + 1)
      /\ \A j \in 1..R : report'[j] = report[j]
      /\ report'[R + 1] = [hop |-> R + 1, ip |-> m.from]
  <2>1. report \in Seq([hop : Octet, ip : Range(Route)])
    BY DEF IInv, TypeOK
  <2> QED BY <1>6, <2>1, RangeOfAppend
<1>8. repeats' \in Nat /\ repeats' <= repeats /\ icmp' \subseteq icmp
  BY <1>2 DEF Advance
<1> QED BY <1>1, <1>2, <1>3, <1>4, <1>5, <1>6, <1>7, <1>8

LEMMA AdvancePaid == ASSUME IInv, NEW m \in icmp, Advance(m) PROVE LinesPaid'
<1> DEFINE R == Len(report)
<1>1. PICK k \in 1..Len(Route) : m = RouterAnswer(k) /\ k \in travelled
  BY AdvanceFacts
<1>2. Len(report') = R + 1 /\ R \in Nat
  BY AdvanceFacts
<1> HIDE DEF R
<1>3. R + Cardinality(Pending) + repeats <= Cardinality(Reached) + MaxRepeats
  BY DEF IInv, LinesPaid, R
<1>4. Reached' = Reached /\ Cardinality(Reached) \in Nat /\ Cardinality(Pending) \in Nat
      /\ repeats \in Nat /\ MaxRepeats \in Nat
  BY Counts, SequenceFacts, RouteFacts DEF Advance, Reached
<1>5. CASE icmp' = icmp \ {m} /\ UNCHANGED repeats
  <2>1. Cardinality(Pending') = Cardinality(Pending) - 1
    BY <1>1, <1>5, AnswersLessOne
  <2> QED BY <1>2, <1>3, <1>4, <1>5, <2>1 DEF LinesPaid
<1>6. CASE icmp' = icmp /\ repeats > 0 /\ repeats' = repeats - 1
  <2>1. Pending' = Pending
    BY <1>6 DEF Pending
  <2> QED BY <1>2, <1>3, <1>4, <1>6, <2>1 DEF LinesPaid
<1> QED BY <1>5, <1>6 DEF Advance

LEMMA Octets == ASSUME NEW n \in Nat, n < 256 PROVE n \in Octet
BY DEF Octet

LEMMA Ports == ASSUME NEW n \in Nat, n < 65536 PROVE n \in Port
BY DEF Port

LEMMA PortWraps == ASSUME NEW n \in Port PROVE (n + 1) % 65536 \in Port
<1>1. ASSUME NEW k \in Int PROVE k % 65536 \in Nat /\ k % 65536 < 65536
  OBVIOUS
<1>2. n + 1 \in Int
  BY DEF Port
<1> DEFINE k == (n + 1) % 65536
<1>3. k \in Nat /\ k < 65536
  BY <1>1, <1>2
<1> HIDE DEF k
<1>4. k \in Port
  BY <1>3, Ports
<1> QED BY <1>4 DEF k

(* The next probe has the next time to live, which has not overflowed.      *)
LEMMA AdvanceProbe ==
    ASSUME IInv, NEW m \in icmp, Advance(m), NEW R, R = Len(report)
    PROVE  /\ time_to_live' = R + 2 /\ R + 2 <= 127
           /\ dest_port' \in Port
           /\ probes' = Append(probes, [ttl |-> R + 2, port |-> dest_port'])
           /\ probes' \in Seq(Probe) /\ Len(probes') = R + 2 /\ DOMAIN probes' = 1..(R + 2)
           /\ \A n \in 1..(R + 1) : probes'[n] = probes[n]
           /\ probes'[R + 2] = [ttl |-> R + 2, port |-> dest_port']
           /\ registered'
<1>1. /\ Len(report') = R + 1 /\ R \in Nat /\ time_to_live = R + 1 /\ Len(probes) = R + 1
      /\ repeats' \in Nat /\ icmp' \subseteq icmp
  BY AdvanceFacts
<1>2. Len(report') + Cardinality(Pending') + repeats' <= Cardinality(Reached') + MaxRepeats
  BY AdvancePaid DEF LinesPaid
<1>3. Reached' = Reached
  BY DEF Advance, Reached
<1>4. Cardinality(Pending') \in Nat /\ Cardinality(Reached) \in Nat /\ Cardinality(Reached) <= Len(Route)
  BY <1>1, FewerAnswers, Counts
<1>5. R + 2 <= 127
  BY <1>1, <1>2, <1>3, <1>4, RouteFacts
<1>6. time_to_live' = R + 2
  <2>1. time_to_live' = (time_to_live + 1) % 256
    BY DEF Advance, HandleData
  <2> QED BY <1>1, <1>5, <2>1
<1>7. dest_port' \in Port
  <2>1. dest_port' = (dest_port + 1) % 65536
    BY DEF Advance, HandleData
  <2>2. dest_port \in Port
    BY DEF IInv, TypeOK
  <2> QED BY <2>1, <2>2, PortWraps
<1>8. probes' = Append(probes, [ttl |-> R + 2, port |-> dest_port']) /\ registered'
  BY <1>6 DEF Advance, HandleData, StartTraceRoute
<1>9. [ttl |-> R + 2, port |-> dest_port'] \in Probe
  <2>1. R \in Nat
    BY <1>1
  <2>2. R + 2 \in Octet
    BY <1>5, <2>1, Octets
  <2> QED BY <1>7, <2>2 DEF Probe
<1>10. /\ probes' \in Seq(Probe) /\ Len(probes') = R + 2 /\ DOMAIN probes' = 1..(R + 2)
       /\ \A n \in 1..(R + 1) : probes'[n] = probes[n]
       /\ probes'[R + 2] = [ttl |-> R + 2, port |-> dest_port']
  <2> DEFINE new == [ttl |-> R + 2, port |-> dest_port']
  <2>1. probes \in Seq(Probe)
    BY DEF IInv, TypeOK
  <2>2. new \in Probe /\ probes' = Append(probes, new)
    BY <1>8, <1>9
  <2> HIDE DEF new
  <2>3. Probe \cup {new} = Probe
    BY <2>2
  <2>4. /\ probes' \in Seq(Probe) /\ Len(probes') = Len(probes) + 1
        /\ \A n \in 1..Len(probes) : probes'[n] = probes[n]
        /\ probes'[Len(probes) + 1] = new
        /\ DOMAIN probes' = 1..(Len(probes) + 1)
    BY <2>1, <2>2, <2>3, RangeOfAppend
  <2>5. Len(probes) + 1 = R + 2
    BY <1>1
  <2> QED BY <1>1, <2>4, <2>5 DEF new
<1> QED BY <1>5, <1>6, <1>7, <1>8, <1>10

LEMMA AdvanceStep == ASSUME IInv, NEW m \in icmp, Advance(m) PROVE IInv'
<1> DEFINE R == Len(report)
<1>1. PICK k \in 1..Len(Route) : m = RouterAnswer(k) /\ k \in travelled
  BY AdvanceFacts
<1>2. /\ R \in Nat /\ Len(probes) = R + 1 /\ open
      /\ report' = Append(report, [hop |-> R + 1, ip |-> m.from])
      /\ Len(report') = R + 1 /\ DOMAIN report' = 1..(R + 1)
      /\ \A j \in 1..R : report'[j] = report[j]
      /\ report'[R + 1] = [hop |-> R + 1, ip |-> m.from]
      /\ out' = Append(out, R + 2) /\ box' = box /\ open' = open
      /\ accepted' = Append(accepted, Target)
      /\ repeats' \in Nat /\ repeats' <= repeats /\ icmp' \subseteq icmp
  BY AdvanceFacts
<1>3. /\ time_to_live' = R + 2 /\ R + 2 <= 127 /\ dest_port' \in Port
      /\ probes' \in Seq(Probe) /\ Len(probes') = R + 2 /\ DOMAIN probes' = 1..(R + 2)
      /\ \A n \in 1..(R + 1) : probes'[n] = probes[n]
      /\ probes'[R + 2] = [ttl |-> R + 2, port |-> dest_port']
      /\ registered'
  BY AdvanceProbe
<1>4. m.from = Route[k]
  BY <1>1 DEF RouterAnswer
<1>5. UNCHANGED <<travelled, foreign, losses>>
  BY DEF Advance
<1>6. DOMAIN report = 1..R /\ Len(accepted) = Len(probes)
  BY SequenceFacts
<1>7. LinesPaid'
  BY AdvancePaid
<1> HIDE DEF R
<1>8. /\ accepted' \in Seq({Target}) /\ Len(accepted') = R + 2
  <2>1. accepted \in Seq({Target}) /\ Target \in {Target} /\ {Target} \cup {Target} = {Target}
    BY DEF IInv, OutboxInv
  <2>2. Append(accepted, Target) \in Seq({Target}) /\ Len(Append(accepted, Target)) = Len(accepted) + 1
    BY <2>1, RangeOfAppend
  <2> QED BY <1>2, <1>6, <2>2
<1>9. out' \in Seq(Nat) /\ Range(out') = Range(out) \cup {R + 2}
  <2>1. out \in Seq(Nat) /\ R + 2 \in Nat
    BY <1>2 DEF IInv, OutboxInv
  <2>2. Range(Append(out, R + 2)) = Range(out) \cup {R + 2}
    BY <2>1, RangeOfAppend
  <2>3. Append(out, R + 2) \in Seq(Nat)
    BY <2>1
  <2> QED BY <1>2, <2>2, <2>3
<1>10. report' \in Seq([hop : Octet, ip : Range(Route)])
  <2> DEFINE Line == [hop : Octet, ip : Range(Route)]
             line == [hop |-> R + 1, ip |-> m.from]
  <2>0. R + 1 \in Octet
    BY <1>2, <1>3, Octets
  <2>1. report \in Seq(Line) /\ line \in Line
    BY <1>1, <1>4, <2>0, RouteFacts DEF IInv, TypeOK
  <2>2. report' = Append(report, line)
    BY <1>2
  <2> HIDE DEF Line, line
  <2>3. report' \in Seq(Line)
    BY <2>1, <2>2
  <2> QED BY <2>3 DEF Line
<1>11. TypeOK'
  <2>1. time_to_live' \in Octet
    BY <1>2, <1>3, Octets
  <2>2. repeats' \in 0..MaxRepeats
    BY <1>2, SequenceFacts, RouteFacts
  <2>3. travelled' \subseteq Range(out')
    BY <1>5, <1>9 DEF IInv, TypeOK
  <2>4. registered' \in BOOLEAN
    BY DEF Advance, HandleData, StartTraceRoute
  <2>5. foreign' \in 0..MaxForeign /\ losses' \in 0..MaxLosses
    BY <1>5 DEF IInv, TypeOK
  <2> QED BY <1>2, <1>3, <1>8, <1>10, <2>1, <2>2, <2>3, <2>4, <2>5 DEF TypeOK
<1>12. probes' # <<>>
  <2>1. Len(<<>>) = 0
    OBVIOUS
  <2> QED BY <1>2, <1>3, <2>1
<1>13. ProgramInv'
  <2>1. registered' = TRUE
    BY DEF Advance, HandleData, StartTraceRoute
  <2>2. \A n \in 1..(R + 1) : probes[n].ttl = n
    BY <1>2 DEF IInv, ProgramInv
  <2>3. \A n \in 1..(R + 2) : probes'[n].ttl = n
    BY <1>2, <1>3, <2>2
  <2> QED BY <1>2, <1>3, <1>12, <2>1, <2>3 DEF ProgramInv
<1>14. OutboxInv'
  <2>1. Range(out) = 1..(R + 1)
    BY <1>2 DEF IInv, OutboxInv
  <2>2. Range(out') = 1..(R + 2)
    <3>1. 1..(R + 2) = (1..(R + 1)) \cup {R + 2}
      BY <1>2
    <3> QED BY <1>9, <2>1, <3>1
  <2> QED BY <1>2, <1>3, <1>8, <1>9, <1>12, <2>2 DEF IInv, OutboxInv
<1>15. AnswersInv'
  BY <1>2, <1>5 DEF IInv, AnswersInv
<1>16. OneByOne'
  <2> SUFFICES ASSUME repeats' = MaxRepeats
               PROVE  /\ Pending' = {}
                      /\ \A n \in 1..(R + 1) : n \in travelled
                      /\ \A j \in 1..(R + 1) :
                           j \in 1..Len(Route) /\ report'[j] = [hop |-> j, ip |-> Route[j]]
    BY <1>2, <1>3, <1>5 DEF OneByOne
  <2>1. repeats = MaxRepeats /\ icmp' = icmp \ {m}
    BY SequenceFacts, RouteFacts, <1>2 DEF Advance
  <2>2. \A j \in Pending : j = R + 1
    BY <1>2, <2>1 DEF IInv, OneByOne
  <2>3. k \in Pending /\ k = R + 1
    BY <1>1, <2>2 DEF Pending
  <2>4. Pending' = {}
    BY <1>1, <2>1, <2>2, <2>3 DEF Pending
  <2>5. \A n \in 1..R : n \in travelled
    BY <1>2, <2>1 DEF IInv, OneByOne
  <2>6. \A j \in 1..R : j \in 1..Len(Route) /\ report[j] = [hop |-> j, ip |-> Route[j]]
    BY <2>1 DEF IInv, OneByOne, R
  <2>7. \A n \in 1..(R + 1) : n \in 1..R \/ n = k
    BY <1>2, <2>3
  <2>8. ASSUME NEW j \in 1..(R + 1)
        PROVE  j \in 1..Len(Route) /\ report'[j] = [hop |-> j, ip |-> Route[j]]
    BY <1>2, <1>4, <2>3, <2>6, <2>7
  <2> QED BY <1>1, <2>4, <2>5, <2>7, <2>8
<1> QED BY <1>7, <1>11, <1>13, <1>14, <1>15, <1>16 DEF IInv

-----------------------------------------------------------------------------
(* A step of the network, or one in which a message is taken and not        *)
(* understood: what is on its way may change, and the program does not.     *)
LEMMA NetworkStep ==
    ASSUME IInv, UNCHANGED <<trace, outbox>>,
           travelled \subseteq travelled', travelled' \subseteq Range(out),
           foreign' \in 0..MaxForeign, losses' \in 0..MaxLosses,
           repeats' \in Nat, repeats' <= repeats,
           AnswersInv',
           Cardinality(Pending') \in Nat, Cardinality(Reached') \in Nat,
           Cardinality(Pending') + Cardinality(Reached) <= Cardinality(Pending) + Cardinality(Reached'),
           repeats = MaxRepeats => \A k \in Pending' \ Pending : k = Len(probes)
    PROVE  IInv'
<1>1. repeats' \in 0..MaxRepeats
  BY SequenceFacts, RouteFacts
<1>2. TypeOK'
  BY <1>1 DEF IInv, TypeOK, trace, outbox
<1>3. ProgramInv' /\ OutboxInv'
  BY DEF IInv, ProgramInv, OutboxInv, trace, outbox
<1>4. LinesPaid'
  <2>1. report' = report
    BY DEF trace
  <2>2. Len(report) + Cardinality(Pending) + repeats <= Cardinality(Reached) + MaxRepeats
    BY DEF IInv, LinesPaid
  <2>3. Len(report) \in Nat /\ repeats \in Nat /\ MaxRepeats \in Nat
    BY SequenceFacts, RouteFacts
  <2>4. Len(report) + Cardinality(Pending') + repeats' <= Cardinality(Reached') + MaxRepeats
    BY <2>2, <2>3, Counts
  <2> QED BY <2>1, <2>4 DEF LinesPaid
<1>5. OneByOne'
  <2> SUFFICES ASSUME repeats' = MaxRepeats
               PROVE  /\ \A k \in Pending' : k = Len(probes)
                      /\ \A n \in 1..(Len(probes) - 1) : n \in travelled'
                      /\ \A k \in 1..Len(report) :
                           k \in 1..Len(Route) /\ report[k] = [hop |-> k, ip |-> Route[k]]
    BY DEF OneByOne, trace
  <2>1. repeats = MaxRepeats
    BY SequenceFacts, RouteFacts
  <2> QED BY <2>1 DEF IInv, OneByOne
<1> QED BY <1>2, <1>3, <1>4, <1>5 DEF IInv

LEMMA MoreReached ==
    ASSUME travelled \subseteq travelled'
    PROVE  Cardinality(Reached') \in Nat /\ Cardinality(Reached) <= Cardinality(Reached')
<1>1. IsFiniteSet(1..Len(Route))
  BY RouteFacts, FS_Interval
<1>2. Reached' \in SUBSET (1..Len(Route)) /\ Reached \in SUBSET Reached'
  BY DEF Reached
<1>3. IsFiniteSet(Reached')
  BY <1>1, <1>2, FS_Subset
<1> QED BY <1>2, <1>3, FS_Subset, FS_CardinalityType

(* Messages are lost, or taken without being understood.                    *)
LEMMA QuietStep ==
    ASSUME IInv, UNCHANGED <<trace, outbox>>, icmp' \subseteq icmp,
           travelled \subseteq travelled', travelled' \subseteq Range(out),
           foreign' \in 0..MaxForeign, losses' \in 0..MaxLosses,
           repeats' \in Nat, repeats' <= repeats
    PROVE  IInv'
<1>1. AnswersInv'
  BY DEF IInv, AnswersInv
<1>2. /\ Cardinality(Pending') \in Nat /\ Cardinality(Pending') <= Cardinality(Pending)
      /\ Pending' \subseteq Pending
  BY FewerAnswers
<1>3. Cardinality(Reached') \in Nat /\ Cardinality(Reached) <= Cardinality(Reached')
  BY MoreReached
<1>4. Cardinality(Pending') + Cardinality(Reached) <= Cardinality(Pending) + Cardinality(Reached')
  BY <1>2, <1>3, Counts
<1> QED BY <1>1, <1>2, <1>3, <1>4, NetworkStep

LEMMA ReceiveStep == ASSUME IInv, ReceiveICMP PROVE IInv'
<1>1. PICK m \in icmp :
        /\ \/ icmp' = icmp \ {m} /\ UNCHANGED repeats
           \/ icmp' = icmp /\ repeats > 0 /\ repeats' = repeats - 1
        /\ HandleICMPPacket(m)
        /\ UNCHANGED <<travelled, silent, foreign, losses>>
  BY DEF ReceiveICMP
<1>2. CASE Advance(m)
  BY <1>2, AdvanceStep
<1>3. CASE UNCHANGED <<trace, outbox>>
  <2>1. icmp' \subseteq icmp /\ repeats' \in Nat /\ repeats' <= repeats
    BY <1>1, SequenceFacts
  <2>2. travelled' = travelled /\ travelled \subseteq Range(out)
        /\ foreign' \in 0..MaxForeign /\ losses' \in 0..MaxLosses
    BY <1>1 DEF IInv, TypeOK
  <2> QED BY <1>3, <2>1, <2>2, QuietStep
<1>4. Advance(m) \/ UNCHANGED <<trace, outbox>>
  BY <1>1 DEF HandleICMPPacket, Understood, Advance
<1> QED BY <1>2, <1>3, <1>4

LEMMA LoseStep == ASSUME IInv, Lose PROVE IInv'
<1>1. losses' \in 0..MaxLosses
  <2>1. losses \in 0..MaxLosses /\ losses > 0 /\ losses' = losses - 1 /\ MaxLosses \in Nat
    BY TraceAssumption DEF Lose, IInv, TypeOK
  <2> QED BY <2>1
<1>2. icmp' \subseteq icmp /\ travelled \subseteq travelled' /\ travelled' \subseteq Range(out)
  BY DEF Lose, IInv, TypeOK
<1>3. UNCHANGED <<trace, outbox>> /\ foreign' \in 0..MaxForeign /\ repeats' = repeats
  BY DEF Lose, IInv, TypeOK
<1>4. repeats' \in Nat /\ repeats' <= repeats
  BY <1>3, SequenceFacts
<1> QED BY <1>1, <1>2, <1>3, <1>4, QuietStep

LEMMA ForeignStep == ASSUME IInv, ForeignIsOther, ForeignMessage PROVE IInv'
<1>1. PICK f \in Foreign : icmp' = icmp \cup {[type |-> f[1], code |-> f[2], from |-> Host]}
  BY DEF ForeignMessage
<1> DEFINE m == [type |-> f[1], code |-> f[2], from |-> Host]
<1>2. ~Understood(m)
  BY DEF ForeignIsOther
<1>3. \A k \in 1..Len(Route) : RouterAnswer(k) # m
  <2> SUFFICES ASSUME NEW k \in 1..Len(Route), RouterAnswer(k) = m PROVE FALSE
    OBVIOUS
  <2>1. RouterAnswer(k).from = Host /\ RouterAnswer(k).from = Route[k]
    BY DEF RouterAnswer
  <2> QED BY <2>1, RouteFacts
<1>4. /\ UNCHANGED <<trace, outbox>> /\ travelled' = travelled /\ repeats' = repeats
      /\ losses' = losses
  BY DEF ForeignMessage
<1>5. foreign' \in 0..MaxForeign
  <2>1. foreign \in 0..MaxForeign /\ foreign > 0 /\ foreign' = foreign - 1 /\ MaxForeign \in Nat
    BY TraceAssumption DEF ForeignMessage, IInv, TypeOK
  <2> QED BY <2>1
<1>6. icmp' = icmp \cup {m}
  BY <1>1
<1> HIDE DEF m
<1>7. AnswersInv'
  BY <1>2, <1>4, <1>6 DEF IInv, AnswersInv
<1>8. Pending' = Pending /\ Reached' = Reached
  BY <1>3, <1>4, <1>6 DEF Pending, Reached
<1>9. travelled \subseteq Range(out) /\ losses \in 0..MaxLosses
  BY DEF IInv, TypeOK
<1> QED BY <1>4, <1>5, <1>7, <1>8, <1>9, Counts, SequenceFacts, NetworkStep

(* The n-th probe reaches the end of its way.                               *)
LEMMA TravelStep == ASSUME IInv, ProbeTravels PROVE IInv'
<1>1. PICK n \in Range(out) \ travelled :
        travelled' = travelled \cup {n} /\ icmp' = icmp \cup Answers(probes[n])
  BY DEF ProbeTravels
<1>2. /\ UNCHANGED <<trace, outbox>> /\ repeats' = repeats /\ losses' = losses /\ foreign' = foreign
  BY DEF ProbeTravels, bounds
<1>3. /\ repeats \in Nat /\ foreign \in 0..MaxForeign /\ losses \in 0..MaxLosses
      /\ travelled \subseteq Range(out)
  BY SequenceFacts DEF IInv, TypeOK
<1>4. n \in 1..Len(probes) /\ probes[n].ttl = n /\ Len(probes) \in Nat
  <2>1. open
    <3>1. out # <<>>
      BY <1>1 DEF Range
    <3> QED BY <3>1 DEF IInv, OutboxInv
  <2>2. n \in 1..Len(probes)
    BY <1>1, <2>1 DEF IInv, OutboxInv
  <2> QED BY <2>2, SequenceFacts DEF IInv, ProgramInv
<1>5. \/ n \in 1..Len(Route) /\ Answers(probes[n]) \subseteq {RouterAnswer(n)}
      \/ n \notin 1..Len(Route) /\ Answers(probes[n]) = {[type |-> 3, code |-> 3, from |-> Target]}
  BY <1>4, RouteFacts DEF Answers, RouterAnswer
<1>6. repeats = MaxRepeats => n = Len(probes)
  BY <1>1, <1>4 DEF IInv, OneByOne
<1>7. n \notin Reached
  BY <1>1 DEF Reached
<1>8. CASE n \in 1..Len(Route) /\ Answers(probes[n]) \subseteq {RouterAnswer(n)}
  <2>1. Reached' = Reached \cup {n}
    BY <1>1, <1>8 DEF Reached
  <2>2. Cardinality(Reached') = Cardinality(Reached) + 1
    BY <1>7, <2>1, Counts, FS_AddElement
  <2>3. Pending' = Pending \/ Pending' = Pending \cup {n}
    BY <1>1, <1>8, RouteFacts DEF Pending
  <2>4. Cardinality(Pending') \in Nat /\ Cardinality(Pending') <= Cardinality(Pending) + 1
    <3>1. Cardinality(Pending \cup {n}) =
            IF n \in Pending THEN Cardinality(Pending) ELSE Cardinality(Pending) + 1
      BY Counts, FS_AddElement
    <3>2. Cardinality(Pending) \in Nat
      BY Counts
    <3>3. CASE Pending' = Pending
      BY <3>2, <3>3
    <3>4. CASE Pending' = Pending \cup {n}
      BY <3>1, <3>2, <3>4
    <3> QED BY <2>3, <3>3, <3>4
  <2>5. AnswersInv'
    BY <1>1, <1>8 DEF IInv, AnswersInv
  <2>6. repeats = MaxRepeats => \A k \in Pending' \ Pending : k = Len(probes)
    BY <1>6, <2>3
  <2>7. travelled' \subseteq Range(out)
    BY <1>1, <1>3
  <2>8. Cardinality(Pending') + Cardinality(Reached) <= Cardinality(Pending) + Cardinality(Reached')
    BY <2>2, <2>4, Counts
  <2>9. Cardinality(Reached') \in Nat
    BY <2>2, Counts
  <2> QED BY <1>1, <1>2, <1>3, <2>4, <2>5, <2>6, <2>7, <2>8, <2>9, NetworkStep
<1>9. CASE n \notin 1..Len(Route) /\ Answers(probes[n]) = {[type |-> 3, code |-> 3, from |-> Target]}
  <2> DEFINE m == [type |-> 3, code |-> 3, from |-> Target]
  <2>1. ~Understood(m)
    BY DEF Understood, HandlePacket, Echo, TimeStamp, TimeExceeded, ICMP_ECHO_REPLY_TYPE,
           ICMP_TIMESTAMP_REPLY_TYPE, ICMP_TIME_EXCEEDED_TYPE, ICMP_TIME_EXCEEDED_CODE
  <2>2. \A k \in 1..Len(Route) : RouterAnswer(k) # m
    BY DEF RouterAnswer
  <2>3. icmp' = icmp \cup {m}
    BY <1>1, <1>9
  <2> HIDE DEF m
  <2>4. AnswersInv'
    BY <1>1, <2>1, <2>3 DEF IInv, AnswersInv
  <2>5. Pending' = Pending /\ Reached' = Reached
    BY <1>1, <1>9, <2>2, <2>3 DEF Pending, Reached
  <2>6. travelled' \subseteq Range(out)
    BY <1>1, <1>3
  <2> QED BY <1>1, <1>2, <1>3, <2>4, <2>5, <2>6, Counts, NetworkStep
<1> QED BY <1>5, <1>8, <1>9

(* The outbox opens: its one probe goes out.                                *)
LEMMA ReceiveARPStep == ASSUME IInv, ReceiveARP PROVE IInv'
<1>1. /\ probes # <<>> /\ ~open /\ open' /\ open' \in BOOLEAN
      /\ \E order \in Outbox!SetToSeqs(Outbox!Boxed) : out' = out \o order
      /\ box' = [d \in {Target} |-> 0] /\ accepted' = accepted
      /\ UNCHANGED <<trace, travelled, icmp, silent, bounds>>
  BY DEF ReceiveARP, Outbox!Open
<1>2. out = <<>> /\ Len(probes) = 1 /\ box[Target] = 1 /\ report = <<>>
  <2>1. out = <<>> /\ box[Target] = Len(probes) /\ report = <<>>
    BY <1>1 DEF IInv, OutboxInv
  <2>2. Len(probes) = Len(report) + 1
    BY <1>1 DEF IInv, ProgramInv
  <2> QED BY <2>1, <2>2, SequenceFacts
<1>3. Outbox!Boxed = {1}
  BY <1>2 DEF Outbox!Boxed
<1>4. PICK order \in Outbox!SetToSeqs({1}) : out' = out \o order
  BY <1>1, <1>3
<1>5. order \in [1..1 -> {1}]
  <2>1. Outbox!Cardinality({1}) = 1
    BY FS_Singleton DEF Outbox!Cardinality, Cardinality
  <2> QED BY <1>4, <2>1 DEF Outbox!SetToSeqs
<1>6. order \in Seq(Nat) /\ Range(order) = {1}
  <2>1. order \in [1..1 -> Nat] /\ DOMAIN order = {1} /\ order[1] = 1
    BY <1>5
  <2>2. \E n \in Nat : order \in [1..n -> Nat]
    BY <2>1
  <2>3. order \in Seq(Nat)
    BY <2>2, SeqDef
  <2> QED BY <2>1, <2>3 DEF Range
<1>7. out' = order
  BY <1>2, <1>4, <1>6, ConcatEmptySeq
<1>8. OutboxInv'
  <2>1. Range(out') = 1..Len(probes)
    BY <1>2, <1>6, <1>7
  <2>2. box' \in [{Target} -> Nat] /\ accepted' \in Seq({Target}) /\ out' \in Seq(Nat)
    BY <1>1, <1>6, <1>7 DEF IInv, OutboxInv
  <2> QED BY <1>1, <2>1, <2>2 DEF OutboxInv, trace
<1>9. TypeOK'
  <2>1. Range(out) = {}
    BY <1>2 DEF Range
  <2>2. travelled' \subseteq Range(out')
    BY <1>1, <2>1 DEF IInv, TypeOK
  <2> QED BY <1>1, <2>2 DEF IInv, TypeOK, trace, bounds
<1>10. ProgramInv' /\ AnswersInv' /\ LinesPaid' /\ OneByOne'
  BY <1>1 DEF IInv, ProgramInv, AnswersInv, LinesPaid, OneByOne, Pending, Reached, trace, bounds
<1> QED BY <1>8, <1>9, <1>10 DEF IInv

(* The first probe goes into the outbox, which is still closed.             *)
LEMMA StartStep == ASSUME IInv, MainStarts PROVE IInv'
<1>1. /\ probes = <<>> /\ UNCHANGED <<time_to_live, dest_port, report>>
      /\ UNCHANGED <<travelled, icmp, silent, bounds>>
      /\ probes' = Append(<<>>, [ttl |-> time_to_live, port |-> dest_port])
      /\ registered' = TRUE
      /\ Outbox!Submit(Target)
  BY DEF MainStarts, StartTraceRoute
<1>2. ~open /\ out = <<>> /\ Len(accepted) = 0 /\ report = <<>> /\ Len(report) = 0 /\ time_to_live = 1
  BY <1>1, SequenceFacts DEF IInv, OutboxInv, ProgramInv
<1>3. /\ accepted' = Append(accepted, Target) /\ out' = out /\ open' = open
      /\ box' = [box EXCEPT ![Target] = 1]
  BY <1>1, <1>2 DEF Outbox!Submit
<1> DEFINE first == [ttl |-> time_to_live, port |-> dest_port]
<1>4. first \in Probe /\ first.ttl = 1
  BY <1>2 DEF IInv, TypeOK, Probe
<1> HIDE DEF first
<1>5. /\ probes' \in Seq(Probe) /\ Len(probes') = 1 /\ probes' # <<>>
      /\ DOMAIN probes' = 1..1 /\ probes'[1] = first
  <2>1. probes' = <<first>>
    BY <1>1 DEF first
  <2> QED BY <1>4, <2>1
<1>6. accepted' \in Seq({Target}) /\ Len(accepted') = 1
  <2>1. accepted \in Seq({Target})
    BY DEF IInv, OutboxInv
  <2> QED BY <1>2, <1>3, <2>1
<1>7. TypeOK'
  BY <1>1, <1>3, <1>5, <1>6 DEF IInv, TypeOK, bounds
<1>8. ProgramInv'
  BY <1>1, <1>2, <1>4, <1>5 DEF ProgramInv
<1>9. OutboxInv'
  BY <1>1, <1>2, <1>3, <1>5, <1>6 DEF IInv, OutboxInv
<1>10. AnswersInv' /\ LinesPaid'
  BY <1>1 DEF IInv, AnswersInv, LinesPaid, Pending, Reached, bounds
<1>11. Pending = {}
  <2> SUFFICES ASSUME NEW k \in Pending PROVE FALSE
    OBVIOUS
  <2>1. Understood(RouterAnswer(k))
    BY DEF RouterAnswer, Understood, HandlePacket, Echo, TimeStamp, TimeExceeded, ICMP_ECHO_REPLY_TYPE,
           ICMP_TIMESTAMP_REPLY_TYPE, ICMP_TIME_EXCEEDED_TYPE, ICMP_TIME_EXCEEDED_CODE
  <2>2. RouterAnswer(k) \in icmp
    BY DEF Pending
  <2>3. \E n \in 1..Len(Route) : n \in travelled
    BY <2>1, <2>2 DEF IInv, AnswersInv
  <2>4. Range(out) = {}
    BY <1>2 DEF Range
  <2> QED BY <2>3, <2>4 DEF IInv, TypeOK
<1>12. OneByOne'
  BY <1>1, <1>2, <1>5, <1>11 DEF OneByOne, Pending
<1> QED BY <1>7, <1>8, <1>9, <1>10, <1>12 DEF IInv

LEMMA InitIInv == Init => IInv
<1> SUFFICES ASSUME Init PROVE IInv
  OBVIOUS
<1>1. /\ time_to_live = 1 /\ dest_port = 33434 /\ registered = FALSE /\ report = <<>> /\ probes = <<>>
      /\ travelled = {} /\ icmp = {}
      /\ foreign = MaxForeign /\ losses = MaxLosses /\ repeats = MaxRepeats
      /\ open = FALSE /\ box = [d \in {Target} |-> 0] /\ out = <<>> /\ accepted = <<>>
  BY DEF Init, Outbox!Init
<1>2. time_to_live \in Octet /\ dest_port \in Port
  BY <1>1, Octets, Ports
<1>3. foreign \in 0..MaxForeign /\ losses \in 0..MaxLosses /\ repeats \in 0..MaxRepeats
  BY <1>1, TraceAssumption
<1>4. TypeOK
  <2>1. report \in Seq([hop : Octet, ip : Range(Route)]) /\ probes \in Seq(Probe)
    BY <1>1, EmptySeq
  <2>2. registered = FALSE
    BY <1>1
  <2>3. registered \in BOOLEAN
    BY <2>2
  <2>4. travelled \subseteq Range(out) /\ Len(probes) = Len(accepted)
    BY <1>1
  <2> QED BY <1>2, <1>3, <2>1, <2>3, <2>4 DEF TypeOK
<1>5. ProgramInv /\ OutboxInv /\ AnswersInv
  <2>1. Len(report) = 0 /\ Len(probes) = 0
    BY <1>1, EmptySeq
  <2>2. ProgramInv
    <3>1. registered = FALSE /\ report = <<>> /\ probes = <<>> /\ time_to_live = 1
      BY <1>1
    <3>2. registered \in BOOLEAN /\ ~registered
      BY <3>1
    <3>3. \A n \in 1..Len(probes) : probes[n].ttl = n
      BY <2>1
    <3> QED BY <2>1, <3>1, <3>2, <3>3 DEF ProgramInv
  <2>3. box \in [{Target} -> Nat] /\ box[Target] = 0
    BY <1>1
  <2>4. out \in Seq(Nat) /\ accepted \in Seq({Target})
    BY <1>1, EmptySeq
  <2>5. open \in BOOLEAN /\ ~open
    <3>1. open = FALSE
      BY <1>1
    <3> QED BY <3>1
  <2>6. OutboxInv
    BY <1>1, <2>1, <2>3, <2>4, <2>5 DEF OutboxInv
  <2>7. AnswersInv
    BY <1>1 DEF AnswersInv
  <2> QED BY <2>2, <2>6, <2>7
<1>6. Pending = {} /\ Reached = {}
  BY <1>1 DEF Pending, Reached
<1>7. LinesPaid
  <2>1. Len(report) = 0
    BY <1>1, EmptySeq
  <2>2. Cardinality(Pending) = 0 /\ Cardinality(Reached) = 0
    BY <1>6, FS_EmptySet
  <2>3. MaxRepeats \in Nat
    BY RouteFacts
  <2> QED BY <1>1, <2>1, <2>2, <2>3 DEF LinesPaid
<1>8. OneByOne
  BY <1>1, <1>6 DEF OneByOne
<1> QED BY <1>4, <1>5, <1>7, <1>8 DEF IInv

LEMMA NextIInv == ForeignIsOther /\ IInv /\ [Next]_vars => IInv'
<1> SUFFICES ASSUME ForeignIsOther, IInv, [Next]_vars PROVE IInv'
  OBVIOUS
<1>1. CASE UNCHANGED vars
  BY <1>1 DEF vars, trace, outbox, bounds, IInv, TypeOK, ProgramInv, OutboxInv, AnswersInv,
              LinesPaid, OneByOne, Pending, Reached
<1>2. CASE Next
  BY <1>2, StartStep, ReceiveStep, ReceiveARPStep, TravelStep, LoseStep, ForeignStep DEF Next
<1> QED BY <1>1, <1>2

LEMMA AlwaysIInv == ForeignIsOther => (Spec => []IInv)
<1> SUFFICES ASSUME ForeignIsOther PROVE Spec => []IInv
  OBVIOUS
<1>1. IInv /\ [Next]_vars => IInv'
  BY NextIInv
<1> QED BY <1>1, InitIInv, PTL DEF Spec

(* The time to live never overflows and every line names a router on the    *)
(* way.                                                                     *)
THEOREM TypeCorrect == ForeignIsOther => (Spec => []TypeOK)
<1>1. IInv => TypeOK
  BY DEF IInv
<1> QED BY <1>1, AlwaysIInv, PTL

(* On a network that repeats nothing the k-th line names the k-th router,   *)
(* whatever is lost and whatever other hosts send that is understood.       *)
THEOREM RouteTrue == ForeignIsOther => (Spec => []RouteIsTrue)
<1>1. IInv => RouteIsTrue
  BY SequenceFacts, RouteFacts DEF IInv, OneByOne, RouteIsTrue
<1> QED BY <1>1, AlwaysIInv, PTL

(* No probe is replaced in the box in which it waits for the router's link  *)
(* address.                                                                 *)
THEOREM NoProbeReplaced == ForeignIsOther => (Spec => []EveryProbeSent)
<1>1. ASSUME IInv PROVE EveryProbeSent
  <2>1. CASE open
    BY <1>1, <2>1, SequenceFacts DEF IInv, OutboxInv, EveryProbeSent
  <2>2. CASE ~open
    <3>1. box[Target] = Len(probes) /\ report = <<>>
      BY <1>1, <2>2 DEF IInv, OutboxInv
    <3>2. probes # <<>> => Len(probes) = 1
      BY <1>1, <3>1, SequenceFacts DEF IInv, ProgramInv
    <3> QED BY <1>1, <3>1, <3>2, SequenceFacts DEF EveryProbeSent
  <2> QED BY <2>1, <2>2
<1> QED BY <1>1, AlwaysIInv, PTL

(* A line is printed for each router that answers and for each answer that  *)
(* is repeated, and no more: the trace stops at the target.                 *)
THEOREM TraceStops == ForeignIsOther => (Spec => []StopsAtTarget)
<1>1. IInv => StopsAtTarget
  BY SequenceFacts, LinesBounded DEF IInv, StopsAtTarget
<1> QED BY <1>1, AlwaysIInv, PTL
=============================================================================

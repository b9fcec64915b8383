-------------------------- MODULE EventStream_proofs --------------------------
(***************************************************************************)
(* Proofs about the SSE stream, for any number of pages, jobs and broken   *)
(* connections.  The inductive invariant StreamInv relates what a page has *)
(* received, what is in flight and what the generator still holds to the   *)
(* log of the job: they are consecutive stretches of it.  The store keeps  *)
(* changing under the stream: JobInv (JobContract_proofs) says that its log*)
(* is numbered, LogGrows that it is only appended to.                      *)
(***************************************************************************)
EXTENDS EventStream, JobContract_proofs, FiniteSetTheorems

-----------------------------------------------------------------------------
\* What events_since returns on a numbered log: the rest of it.

\* The number of positions after n up to m.
LEMMA StretchSize ==
  ASSUME NEW n \in Nat, NEW m \in Nat, n <= m
  PROVE  Cardinality((n + 1)..m) = m - n
<1>1. n + 1 \in Int /\ m \in Int
  OBVIOUS
<1>2. Cardinality((n + 1)..m) = IF n + 1 > m THEN 0 ELSE m - (n + 1) + 1
  BY <1>1, FS_Interval
<1> QED BY <1>2

\* The k-th event with an id greater than n is the one at n + k.
LEMMA RestOfLog ==
  ASSUME NEW j \in Jobs, log[j] \in Seq(Event),
         \A i \in 1..Len(log[j]) : log[j][i].id = i,
         NEW n \in Nat, n <= Len(log[j])
  PROVE  EventsSince(j, n) = [k \in 1..(Len(log[j]) - n) |-> log[j][n + k]]
<1> DEFINE L       == Len(log[j])
           later   == {i \in 1..L : log[j][i].id > n}
           Rank(i) == Cardinality({h \in later : h <= i})
<1>0. L \in Nat /\ n <= L
  OBVIOUS
<1>1. later = (n + 1)..L
  BY <1>0
<1>2. Cardinality(later) = L - n
  <2> HIDE DEF later, L
  <2> QED BY <1>0, <1>1, StretchSize
<1>3. \A i \in later : Rank(i) = i - n
  <2> SUFFICES ASSUME NEW i \in later PROVE Rank(i) = i - n
    OBVIOUS
  <2>1. i \in Nat /\ n + 1 <= i /\ i <= L
    BY <1>0, <1>1
  <2>2. {h \in later : h <= i} = (n + 1)..i
    <3> HIDE DEF later, L
    <3> QED BY <1>0, <1>1, <2>1
  <2>3. Cardinality((n + 1)..i) = i - n
    BY <2>1, StretchSize
  <2> QED BY <2>2, <2>3
<1>4. ASSUME NEW k \in 1..(L - n) PROVE (CHOOSE i \in later : Rank(i) = k) = n + k
  <2> HIDE DEF later, Rank, L
  <2>1. n + k \in later /\ Rank(n + k) = k
    BY <1>0, <1>1, <1>3
  <2>2. \A i \in later : Rank(i) = k => i = n + k
    BY <1>0, <1>1, <1>3
  <2> QED BY <2>1, <2>2
<1>5. EventsSince(j, n) = [k \in 1..Cardinality(later) |-> log[j][CHOOSE i \in later : Rank(i) = k]]
  BY DEF EventsSince
<1> HIDE DEF later, Rank
<1> QED BY <1>2, <1>4, <1>5

\* The same, as a sequence with a length and elements.
LEMMA EventsSinceIsRest ==
  ASSUME NEW j \in Jobs, log[j] \in Seq(Event),
         \A i \in 1..Len(log[j]) : log[j][i].id = i,
         NEW n \in Nat, n <= Len(log[j])
  PROVE  /\ EventsSince(j, n) \in Seq(Event)
         /\ Len(EventsSince(j, n)) = Len(log[j]) - n
         /\ \A k \in 1..(Len(log[j]) - n) : EventsSince(j, n)[k] = log[j][n + k]
<1>1. EventsSince(j, n) = [k \in 1..(Len(log[j]) - n) |-> log[j][n + k]]
  BY RestOfLog
<1>2. Len(log[j]) - n \in Nat /\ \A k \in 1..(Len(log[j]) - n) : log[j][n + k] \in Event
  OBVIOUS
<1> QED BY <1>1, <1>2

-----------------------------------------------------------------------------
\* The invariant of one page.

PageLog(v) == log[target[v]]

Connected(v) == gen[v] \notin {"closed", "left"}

\* A page without a job has done nothing; a page watches a job that exists.
Watching(v) ==
    /\ target[v] = Null => gen[v] = "closed" /\ received[v] = <<>> /\ cursor[v] = 0
    /\ target[v] # Null => job[target[v]] # Null

\* What was received is the beginning of the log.
ReceivedIsPrefix(v) ==
    /\ \A i \in 1..Len(received[v]) : received[v][i] = i
    /\ target[v] # Null => Len(received[v]) <= Len(PageLog(v))

\* What is in flight continues what was received up to the cursor, and the
\* generator's batch continues it from there: both are stretches of the log.
StretchesOfLog(v) ==
    /\ Connected(v) =>
          /\ Len(received[v]) + Len(wire[v]) = cursor[v]
          /\ cursor[v] + Len(batch[v]) <= Len(PageLog(v))
          /\ \A i \in 1..Len(wire[v]) : wire[v][i] = PageLog(v)[Len(received[v]) + i]
          /\ \A i \in 1..Len(batch[v]) : batch[v][i] = PageLog(v)[cursor[v] + i]
    /\ ~ Connected(v) => wire[v] = <<>>
    /\ gen[v] # "send" => batch[v] = <<>>

\* The terminal status the generator once read is still the job's, and when the
\* generator has ended the event that reports it is behind the cursor.
EndIsTrue(v) ==
    /\ final[v] => target[v] # Null /\ IsTerminal(job[target[v]])
    /\ gen[v] = "ended" =>
          \E i \in 1..cursor[v] : PageLog(v)[i].status \in Terminal

PageInv(v) == Watching(v) /\ ReceivedIsPrefix(v) /\ StretchesOfLog(v) /\ EndIsTrue(v)

StreamInv == JobInv /\ StreamTypeOK /\ \A v \in Viewers : PageInv(v)

-----------------------------------------------------------------------------
\* The store changes under the stream: a job stays, its log is only appended
\* to, and a terminal status stays terminal.
LEMMA LogGrows ==
  ASSUME JobInv, [Next]_vars, NEW j \in Jobs, job[j] # Null
  PROVE  /\ job'[j] # Null
         /\ Len(log[j]) <= Len(log'[j])
         /\ \A i \in 1..Len(log[j]) : log'[j][i] = log[j][i]
         /\ job[j].status \in Terminal => job'[j].status \in Terminal
<1> DEFINE Grown ==
        /\ job'[j] # Null
        /\ Len(log[j]) <= Len(log'[j])
        /\ \A i \in 1..Len(log[j]) : log'[j][i] = log[j][i]
        /\ job[j].status \in Terminal => job'[j].status \in Terminal
<1>1. JobInv' /\ job[j] \in Envelope /\ log[j] \in Seq(Event)
  BY JobInvNext DEF JobInv
<1>2. CASE job'[j] = job[j] /\ log'[j] = log[j]
  BY <1>2
<1>3. ASSUME NEW k \in Jobs, Create(k) PROVE Grown
  <2>1. k # j
    BY <1>3 DEF Create, Exists
  <2> QED BY <1>2, <1>3, <2>1 DEF Create, JobInv
<1>4. ASSUME NEW k \in Jobs, NEW f, NEW name, NEW record, Commit(k, f, name, record),
             f \in Envelope, k = j => (job[j].status \in Terminal => f.status \in Terminal)
      PROVE  Grown
  <2>1. CASE k # j
    <3>1. job'[j] = job[j] /\ log'[j] = log[j]
      BY <1>4, <2>1 DEF Commit, JobInv
    <3> QED BY <1>2, <3>1
  <2>2. CASE k = j
    <3>1. job'[j] = f /\ f # Null
      BY <1>4, <2>2, NullAssumption DEF Commit, JobInv
    <3>2. PICK v : log'[j] = Append(log[j], v)
      BY <1>4, <2>2 DEF Commit, JobInv
    <3>3. Len(log'[j]) = Len(log[j]) + 1 /\ \A i \in 1..Len(log[j]) : log'[j][i] = log[j][i]
      BY <1>1, <3>2
    <3> QED BY <1>1, <1>4, <2>2, <3>1, <3>3
  <2> QED BY <2>1, <2>2
<1>5. ASSUME NEW k \in Jobs, NEW s \in SettableStatus, UpdateStatus(k, s) PROVE Grown
  <2>1. job[k] \in Envelope /\ job[k].status \notin Terminal
    BY <1>5 DEF UpdateStatus, Exists, IsTerminal, JobInv
  <2>2. [job[k] EXCEPT !.status = s] \in Envelope
    BY <2>1 DEF Envelope, SettableStatus, JobStatus, Terminal
  <2> QED BY <1>4, <1>5, <2>1, <2>2 DEF UpdateStatus
<1>6. ASSUME NEW k \in Jobs, NEW r \in ResultStatus, SetResult(k, r) PROVE Grown
  <2>1. job[k] \in Envelope /\ job[k].status \notin Terminal
    BY <1>6 DEF SetResult, Exists, IsTerminal, JobInv
  <2>2. [job[k] EXCEPT !.status = r, !.result = r] \in Envelope
    BY <2>1 DEF Envelope, ResultStatus, JobStatus, Terminal
  <2> QED BY <1>4, <1>6, <2>1, <2>2 DEF SetResult
<1>7. ASSUME NEW k \in Jobs, NEW d \in DecisionRecord, RecordDecision(k, d) PROVE Grown
  <2>1. job[k] \in Envelope
    BY <1>7 DEF RecordDecision, Exists, JobInv
  <2>2. /\ [job[k] EXCEPT !.decision = d] \in Envelope
        /\ [job[k] EXCEPT !.decision = d].status = job[k].status
    BY <2>1 DEF Envelope
  <2> QED BY <1>4, <1>7, <2>1, <2>2 DEF RecordDecision
<1>8. CASE UNCHANGED vars
  BY <1>2, <1>8 DEF vars
<1> QED BY <1>3, <1>5, <1>6, <1>7, <1>8 DEF Next

\* Positions of what is in flight and of the batch are positions of the log.
LEMMA Stretches ==
  ASSUME NEW r \in Nat, NEW w \in Nat, NEW b \in Nat, NEW c \in Nat, NEW n \in Nat,
         c + b <= n, r + w = c
  PROVE  /\ \A i \in 1..w : r + i \in 1..n
         /\ \A i \in 1..b : c + i \in 1..n
OBVIOUS

\* A page that does nothing keeps its invariant while the store changes.
LEMMA PageInherits ==
  ASSUME StreamInv, [Next]_vars, NEW v \in Viewers,
         target'[v] = target[v], gen'[v] = gen[v], final'[v] = final[v],
         cursor'[v] = cursor[v], batch'[v] = batch[v], wire'[v] = wire[v],
         received'[v] = received[v]
  PROVE  PageInv(v)'
<1> USE DEF PageLog, Connected
<1>0. /\ PageInv(v) /\ target[v] \in Jobs \cup {Null}
      /\ cursor[v] \in Nat /\ received[v] \in Seq(Nat)
      /\ wire[v] \in Seq(Event) /\ batch[v] \in Seq(Event)
  BY DEF StreamInv, StreamTypeOK
<1>1. CASE target[v] = Null
  <2>1. /\ gen[v] = "closed" /\ received[v] = <<>> /\ wire[v] = <<>>
        /\ cursor[v] = 0 /\ batch[v] = <<>> /\ ~ final[v]
    BY <1>0, <1>1 DEF PageInv, Watching, StretchesOfLog, EndIsTrue
  <2> QED BY <1>1, <2>1 DEF PageInv, Watching, ReceivedIsPrefix, StretchesOfLog, EndIsTrue
<1>2. CASE target[v] # Null
  <2> DEFINE j == target[v]
  <2>1. j \in Jobs /\ job[j] # Null /\ j = target'[v]
    BY <1>0, <1>2 DEF PageInv, Watching
  <2>2. /\ job'[j] # Null
        /\ Len(log[j]) <= Len(log'[j])
        /\ \A i \in 1..Len(log[j]) : log'[j][i] = log[j][i]
        /\ job[j].status \in Terminal => job'[j].status \in Terminal
    BY <2>1, LogGrows DEF StreamInv
  <2>3. log[j] \in Seq(Event) /\ log'[j] \in Seq(Event)
    BY <2>1, JobInvNext DEF StreamInv, JobInv
  <2>4. Watching(v)'
    BY <1>2, <2>1, <2>2 DEF Watching
  <2>5. ReceivedIsPrefix(v)'
    BY <1>0, <2>1, <2>2, <2>3 DEF ReceivedIsPrefix, PageInv
  <2>6. CASE Connected(v)
    <3>1. cursor[v] + Len(batch[v]) <= Len(log[j]) /\ Len(received[v]) + Len(wire[v]) = cursor[v]
      BY <1>0, <2>6 DEF PageInv, StretchesOfLog
    <3>2. ASSUME NEW i \in 1..Len(wire[v])
          PROVE  wire[v][i] = log'[j][Len(received[v]) + i]
      <4>0. /\ Len(received[v]) \in Nat /\ Len(wire[v]) \in Nat
            /\ Len(batch[v]) \in Nat /\ Len(log[j]) \in Nat /\ cursor[v] \in Nat
        BY <1>0, <2>3
      <4>1. Len(received[v]) + i \in 1..Len(log[j])
        BY <3>1, <4>0, Stretches
      <4> QED BY <1>0, <2>2, <2>6, <4>1 DEF PageInv, StretchesOfLog
    <3>3. ASSUME NEW i \in 1..Len(batch[v])
          PROVE  batch[v][i] = log'[j][cursor[v] + i]
      <4>1. cursor[v] + i \in 1..Len(log[j])
        BY <1>0, <2>3, <3>1
      <4> QED BY <1>0, <2>2, <2>6, <4>1 DEF PageInv, StretchesOfLog
    <3>4. cursor[v] + Len(batch[v]) <= Len(log'[j])
      BY <1>0, <2>2, <2>3, <3>1
    <3>5. StretchesOfLog(v)'
      BY <1>0, <2>1, <2>6, <3>1, <3>2, <3>3, <3>4 DEF StretchesOfLog, PageInv
    <3>6. EndIsTrue(v)'
      <4>1. gen[v] = "ended" => \E i \in 1..cursor[v] : log'[j][i].status \in Terminal
        <5>1. 1..cursor[v] \subseteq 1..Len(log[j])
          BY <1>0, <2>3, <3>1
        <5> QED BY <1>0, <2>2, <5>1 DEF PageInv, EndIsTrue
      <4> QED BY <1>0, <2>1, <2>2, <4>1 DEF PageInv, EndIsTrue, IsTerminal
    <3> QED BY <2>4, <2>5, <3>5, <3>6 DEF PageInv
  <2>7. CASE ~ Connected(v)
    <3>1. StretchesOfLog(v)'
      BY <1>0, <2>7 DEF PageInv, StretchesOfLog
    <3>2. EndIsTrue(v)'
      BY <1>0, <2>1, <2>2, <2>7 DEF PageInv, EndIsTrue, IsTerminal
    <3> QED BY <2>4, <2>5, <3>1, <3>2 DEF PageInv
  <2> QED BY <2>6, <2>7
<1> QED BY <1>1, <1>2

-----------------------------------------------------------------------------
\* The steps of one page and its generator.

\* Nothing changes but this page's part of the stream.
OnlyPage(v) ==
    /\ UNCHANGED vars
    /\ \A w \in Viewers \ {v} :
          /\ target'[w] = target[w] /\ gen'[w] = gen[w] /\ final'[w] = final[w]
          /\ cursor'[w] = cursor[w] /\ batch'[w] = batch[w] /\ wire'[w] = wire[w]
          /\ received'[w] = received[w]

\* What the steps of a page that watches a job start from.
LEMMA PageFacts ==
  ASSUME StreamInv, NEW v \in Viewers
  PROVE  /\ PageInv(v)
         /\ received[v] \in Seq(Nat) /\ wire[v] \in Seq(Event) /\ batch[v] \in Seq(Event)
         /\ cursor[v] \in Nat
         /\ Len(received[v]) \in Nat /\ Len(wire[v]) \in Nat /\ Len(batch[v]) \in Nat
         /\ target[v] # Null =>
               /\ target[v] \in Jobs /\ job[target[v]] # Null
               /\ PageLog(v) \in Seq(Event) /\ Len(PageLog(v)) \in Nat
               /\ \A i \in 1..Len(PageLog(v)) : PageLog(v)[i].id = i
               /\ PageLog(v) # <<>>
               /\ PageLog(v)[Len(PageLog(v))].status = job[target[v]].status
         /\ gen[v] # "closed" => target[v] # Null
<1>1. /\ PageInv(v) /\ target[v] \in Jobs \cup {Null} /\ cursor[v] \in Nat
      /\ received[v] \in Seq(Nat) /\ wire[v] \in Seq(Event) /\ batch[v] \in Seq(Event)
  BY DEF StreamInv, StreamTypeOK
<1>2. Len(received[v]) \in Nat /\ Len(wire[v]) \in Nat /\ Len(batch[v]) \in Nat
  BY <1>1
<1>3. ASSUME target[v] # Null
      PROVE  /\ target[v] \in Jobs /\ job[target[v]] # Null
             /\ PageLog(v) \in Seq(Event) /\ Len(PageLog(v)) \in Nat
             /\ \A i \in 1..Len(PageLog(v)) : PageLog(v)[i].id = i
             /\ PageLog(v) # <<>>
             /\ PageLog(v)[Len(PageLog(v))].status = job[target[v]].status
  <2>1. target[v] \in Jobs /\ job[target[v]] # Null
    BY <1>1, <1>3 DEF PageInv, Watching
  <2>2. Consistent(job[target[v]], PageLog(v))
    BY <2>1 DEF StreamInv, JobInv, PageLog
  <2> QED BY <2>1, <2>2 DEF Consistent, Numbered, Current
<1>4. gen[v] # "closed" => target[v] # Null
  BY <1>1 DEF PageInv, Watching
<1> QED BY <1>1, <1>2, <1>3, <1>4

\* A page that opens has everything of the log before it.
LEMMA OpenStep ==
  ASSUME StreamInv, NEW v \in Viewers, NEW j \in Jobs, Open(v, j)
  PROVE  StreamTypeOK' /\ OnlyPage(v) /\ PageInv(v)'
<1>0. StreamTypeOK
  BY DEF StreamInv
<1>1. StreamTypeOK'
  BY <1>0 DEF StreamTypeOK, Open, Step, GenPoints, TypeOK, vars
<1>2. OnlyPage(v)
  BY <1>0 DEF OnlyPage, Open, Step, StreamTypeOK
<1>3. /\ received[v] = <<>> /\ wire[v] = <<>> /\ batch[v] = <<>> /\ ~ final[v]
      /\ cursor[v] = 0
  BY PageFacts DEF PageInv, Watching, StretchesOfLog, EndIsTrue, Open, Connected, Step
<1>4. /\ target'[v] = j /\ gen'[v] = "poll" /\ received'[v] = <<>> /\ wire'[v] = <<>>
      /\ batch'[v] = <<>> /\ ~ final'[v] /\ cursor'[v] = 0 /\ job' = job /\ log' = log
  BY <1>0, <1>3 DEF Open, Step, StreamTypeOK, vars
<1>5. j # Null /\ job[j] # Null /\ Len(log[j]) \in Nat
  BY TargetAssumption DEF Open, Exists, StreamInv, JobInv
<1>6. Watching(v)' /\ ReceivedIsPrefix(v)' /\ EndIsTrue(v)'
  BY <1>4, <1>5 DEF Watching, ReceivedIsPrefix, EndIsTrue, PageLog
<1>7. StretchesOfLog(v)'
  BY <1>4, <1>5 DEF StretchesOfLog, PageLog, Connected
<1> QED BY <1>1, <1>2, <1>6, <1>7 DEF PageInv

\* A reconnected page asks for what follows the last event it received.
LEMMA ReconnectStep ==
  ASSUME StreamInv, NEW v \in Viewers, Reconnect(v)
  PROVE  StreamTypeOK' /\ OnlyPage(v) /\ PageInv(v)'
<1>0. StreamTypeOK
  BY DEF StreamInv
<1>1. LastEventId(v) = Len(received[v])
  BY PageFacts DEF LastEventId, PageInv, ReceivedIsPrefix
<1>2. StreamTypeOK'
  <2>1. cursor' \in [Viewers -> Nat] /\ gen' \in [Viewers -> GenPoints]
    BY <1>0, <1>1, PageFacts DEF StreamTypeOK, Reconnect, Step, GenPoints
  <2> QED BY <1>0, <2>1 DEF StreamTypeOK, Reconnect, TypeOK, vars
<1>3. OnlyPage(v)
  BY <1>0 DEF OnlyPage, Reconnect, Step, StreamTypeOK
<1>4. /\ target'[v] = target[v] /\ gen'[v] = "poll" /\ received' = received /\ wire' = wire
      /\ batch' = batch /\ final' = final /\ cursor'[v] = Len(received[v])
      /\ job' = job /\ log' = log /\ target[v] # Null /\ gen[v] = "closed"
  BY <1>0, <1>1 DEF Reconnect, Step, StreamTypeOK, vars
<1>5. wire[v] = <<>> /\ batch[v] = <<>>
  BY <1>4, PageFacts DEF PageInv, StretchesOfLog, Connected
<1>6. Watching(v)' /\ ReceivedIsPrefix(v)' /\ EndIsTrue(v)'
  BY <1>4, PageFacts DEF PageInv, Watching, ReceivedIsPrefix, EndIsTrue, PageLog
<1>7. StretchesOfLog(v)'
  <2>1. Len(received[v]) <= Len(PageLog(v)) /\ Len(received[v]) \in Nat
    BY <1>4, PageFacts DEF PageInv, ReceivedIsPrefix
  <2>2. Len(received[v]) + 0 = Len(received[v])
    BY <2>1
  <2> QED BY <1>4, <1>5, <2>1, <2>2 DEF StretchesOfLog, PageLog, Connected
<1> QED BY <1>2, <1>3, <1>6, <1>7 DEF PageInv

\* The event received next has the number that follows.
LEMMA ReceiveStep ==
  ASSUME StreamInv, NEW v \in Viewers, Receive(v)
  PROVE  StreamTypeOK' /\ OnlyPage(v) /\ PageInv(v)'
<1> DEFINE r == Len(received[v])
           e == Head(wire[v])
<1>0. StreamTypeOK
  BY DEF StreamInv
<1>1. wire[v] # <<>> /\ Connected(v) /\ target[v] # Null
  BY PageFacts DEF Receive, PageInv, StretchesOfLog, Connected
<1>2. /\ r + Len(wire[v]) = cursor[v] /\ cursor[v] + Len(batch[v]) <= Len(PageLog(v))
      /\ \A i \in 1..Len(wire[v]) : wire[v][i] = PageLog(v)[r + i]
      /\ \A i \in 1..Len(batch[v]) : batch[v][i] = PageLog(v)[cursor[v] + i]
  BY <1>1, PageFacts DEF PageInv, StretchesOfLog
<1>3. r \in Nat /\ Len(wire[v]) \in Nat \ {0} /\ e = wire[v][1]
  BY <1>1, PageFacts
<1>4. r + 1 \in 1..Len(PageLog(v))
  <2>1. Len(PageLog(v)) \in Nat /\ Len(batch[v]) \in Nat /\ cursor[v] \in Nat
        /\ 1 \in 1..Len(wire[v])
    BY <1>1, <1>3, PageFacts
  <2> QED BY <1>2, <1>3, <2>1, Stretches
<1>5. e = PageLog(v)[r + 1] /\ e.id = r + 1
  BY <1>1, <1>2, <1>3, <1>4, PageFacts
<1>6. /\ received'[v] = Append(received[v], r + 1) /\ wire'[v] = Tail(wire[v])
      /\ target' = target /\ gen' = gen /\ final' = final /\ cursor' = cursor
      /\ batch' = batch /\ job' = job /\ log' = log
  BY <1>0, <1>5 DEF Receive, StreamTypeOK, vars
<1>7. StreamTypeOK'
  <2>1. wire' \in [Viewers -> Seq(Event)]
    BY <1>0, <1>1 DEF Receive, StreamTypeOK
  <2>2. received' \in [Viewers -> Seq(Nat)]
    BY <1>0, <1>3, <1>5 DEF Receive, StreamTypeOK
  <2> QED BY <1>0, <2>1, <2>2 DEF StreamTypeOK, Receive, TypeOK, vars
<1>8. OnlyPage(v)
  BY <1>0 DEF OnlyPage, Receive, StreamTypeOK
<1>9. Len(received'[v]) = r + 1 /\ Len(wire'[v]) = Len(wire[v]) - 1
      /\ (\A i \in 1..r : received'[v][i] = received[v][i]) /\ received'[v][r + 1] = r + 1
      /\ \A i \in 1..(Len(wire[v]) - 1) : wire'[v][i] = wire[v][i + 1]
  BY <1>1, <1>3, <1>6, PageFacts
<1>10. ReceivedIsPrefix(v)'
  <2>1. \A i \in 1..r : received[v][i] = i
    BY PageFacts DEF PageInv, ReceivedIsPrefix
  <2>2. \A i \in 1..(r + 1) : received'[v][i] = i
    <3> HIDE DEF r
    <3> QED BY <1>3, <1>9, <2>1
  <2> QED BY <1>4, <1>6, <1>9, <2>2 DEF ReceivedIsPrefix, PageLog
<1>11. StretchesOfLog(v)'
  <2> DEFINE w == Len(wire[v])
  <2>0. r \in Nat /\ w \in Nat
    BY <1>3
  <2>1. Len(received'[v]) + Len(wire'[v]) = cursor'[v]
    <3>1. r + w = cursor[v] /\ Len(received'[v]) = r + 1 /\ Len(wire'[v]) = w - 1
      BY <1>2, <1>9
    <3> HIDE DEF r, w
    <3> QED BY <2>0, <3>1, <1>6
  <2>2. \A i \in 1..Len(wire'[v]) : wire'[v][i] = PageLog(v)[(r + 1) + i]
    <3> SUFFICES ASSUME NEW i \in 1..(Len(wire[v]) - 1) PROVE wire[v][i + 1] = PageLog(v)[(r + 1) + i]
      BY <1>9
    <3>1. i \in 1..(w - 1)
      OBVIOUS
    <3>2. i + 1 \in 1..w /\ r + (i + 1) = (r + 1) + i
      <4> HIDE DEF r, w
      <4> QED BY <2>0, <3>1
    <3> QED BY <1>2, <3>2
  <2>3. (gen[v] # "send" => batch[v] = <<>>) /\ PageLog(v)' = PageLog(v)
    BY <1>6, PageFacts DEF PageInv, StretchesOfLog, PageLog
  <2> QED BY <1>1, <1>2, <1>6, <1>9, <2>1, <2>2, <2>3 DEF StretchesOfLog, Connected
<1>12. Watching(v)' /\ EndIsTrue(v)'
  BY <1>1, <1>6, PageFacts DEF PageInv, Watching, EndIsTrue, PageLog
<1> QED BY <1>7, <1>8, <1>10, <1>11, <1>12 DEF PageInv

LEMMA SeeClosedStep ==
  ASSUME StreamInv, NEW v \in Viewers, SeeClosed(v)
  PROVE  StreamTypeOK' /\ OnlyPage(v) /\ PageInv(v)'
<1>0. StreamTypeOK
  BY DEF StreamInv
<1>1. StreamTypeOK'
  BY <1>0 DEF StreamTypeOK, SeeClosed, Step, GenPoints, TypeOK, vars
<1>2. OnlyPage(v)
  BY <1>0 DEF OnlyPage, SeeClosed, Step, StreamTypeOK
<1>3. /\ target' = target /\ gen'[v] = "closed" /\ received' = received /\ wire' = wire
      /\ batch' = batch /\ final' = final /\ cursor' = cursor
      /\ job' = job /\ log' = log /\ gen[v] \in {"ended", "expired"} /\ wire[v] = <<>>
  BY <1>0 DEF SeeClosed, Step, StreamTypeOK, vars
<1> QED
  BY <1>1, <1>2, <1>3, PageFacts
     DEF PageInv, Watching, ReceivedIsPrefix, StretchesOfLog, EndIsTrue, Connected, PageLog

\* A page that leaves and a connection that breaks forget what was on its way.
LEMMA DisconnectStep ==
  ASSUME StreamInv, NEW v \in Viewers, Leave(v) \/ Cut(v)
  PROVE  StreamTypeOK' /\ OnlyPage(v) /\ PageInv(v)'
<1>0. StreamTypeOK
  BY DEF StreamInv
<1>1. StreamTypeOK'
  <2>1. gen' \in [Viewers -> GenPoints] /\ final' \in [Viewers -> BOOLEAN]
    BY <1>0 DEF StreamTypeOK, Leave, Cut, GenPoints
  <2>2. batch' \in [Viewers -> Seq(Event)] /\ wire' \in [Viewers -> Seq(Event)]
    <3>1. /\ batch' = [batch EXCEPT ![v] = <<>>] /\ wire' = [wire EXCEPT ![v] = <<>>]
          /\ <<>> \in Seq(Event)
      BY DEF Leave, Cut
    <3> QED BY <1>0, <3>1 DEF StreamTypeOK
  <2>3. cuts' \in Nat
    BY <1>0 DEF StreamTypeOK, Leave, Cut
  <2> QED BY <1>0, <2>1, <2>2, <2>3 DEF StreamTypeOK, Leave, Cut, TypeOK, vars
<1>2. OnlyPage(v)
  BY <1>0 DEF OnlyPage, Leave, Cut, StreamTypeOK
<1>3. /\ target' = target /\ gen'[v] \in {"closed", "left"} /\ received' = received
      /\ wire'[v] = <<>> /\ batch'[v] = <<>> /\ ~ final'[v] /\ cursor' = cursor
      /\ job' = job /\ log' = log /\ target[v] # Null
  BY <1>0, PageFacts DEF Leave, Cut, StreamTypeOK, vars
<1> QED
  BY <1>1, <1>2, <1>3, PageFacts
     DEF PageInv, Watching, ReceivedIsPrefix, StretchesOfLog, EndIsTrue, Connected, PageLog

\* A step of the generator that moves no event.
LEMMA NothingMoves ==
  ASSUME StreamInv, NEW v \in Viewers, Connected(v), batch[v] = <<>>,
         target' = target, received' = received, wire' = wire, batch' = batch,
         cursor' = cursor, job' = job, log' = log, gen'[v] \notin {"closed", "left"}
  PROVE  Watching(v)' /\ ReceivedIsPrefix(v)' /\ StretchesOfLog(v)'
<1>1. PageInv(v) /\ target[v] # Null
  BY PageFacts DEF Connected
<1>2. Watching(v)'
  BY <1>1 DEF PageInv, Watching
<1>3. ReceivedIsPrefix(v)'
  BY <1>1 DEF PageInv, ReceivedIsPrefix, PageLog
<1>4. /\ Len(received[v]) + Len(wire[v]) = cursor[v]
      /\ cursor[v] + Len(batch[v]) <= Len(PageLog(v))
      /\ \A i \in 1..Len(wire[v]) : wire[v][i] = PageLog(v)[Len(received[v]) + i]
      /\ \A i \in 1..Len(batch[v]) : batch[v][i] = PageLog(v)[cursor[v] + i]
  BY <1>1 DEF PageInv, StretchesOfLog
<1>5. PageLog(v)' = PageLog(v) /\ Connected(v)'
  BY DEF PageLog, Connected
<1>6. StretchesOfLog(v)'
  BY <1>4, <1>5 DEF StretchesOfLog
<1> QED BY <1>2, <1>3, <1>6

\* The generator's reads and its decisions where to go on.
LEMMA PollEnvelopeStep ==
  ASSUME StreamInv, NEW v \in Viewers, PollEnvelope(v)
  PROVE  StreamTypeOK' /\ OnlyPage(v) /\ PageInv(v)'
<1>0. StreamTypeOK
  BY DEF StreamInv
<1>1. StreamTypeOK'
  <2>1. gen' \in [Viewers -> GenPoints] /\ final' \in [Viewers -> BOOLEAN]
    BY <1>0 DEF StreamTypeOK, PollEnvelope, Step, GenPoints, IsTerminal
  <2> QED BY <1>0, <2>1 DEF StreamTypeOK, PollEnvelope, TypeOK, vars
<1>2. OnlyPage(v)
  BY <1>0 DEF OnlyPage, PollEnvelope, Step, StreamTypeOK
<1>3. /\ target' = target /\ gen'[v] = "fetch" /\ received' = received /\ wire' = wire
      /\ batch' = batch /\ final'[v] = IsTerminal(job[target[v]]) /\ cursor' = cursor
      /\ job' = job /\ log' = log /\ gen[v] = "poll" /\ target[v] # Null
  BY <1>0, PageFacts DEF PollEnvelope, Step, StreamTypeOK, vars
<1>4. Connected(v) /\ batch[v] = <<>>
  BY <1>3, PageFacts DEF Connected, PageInv, StretchesOfLog
<1>5. Watching(v)' /\ ReceivedIsPrefix(v)' /\ StretchesOfLog(v)'
  BY <1>3, <1>4, NothingMoves
<1>6. EndIsTrue(v)'
  BY <1>3 DEF EndIsTrue, IsTerminal
<1> QED BY <1>1, <1>2, <1>5, <1>6 DEF PageInv

LEMMA FetchEventsStep ==
  ASSUME StreamInv, NEW v \in Viewers, FetchEvents(v)
  PROVE  StreamTypeOK' /\ OnlyPage(v) /\ PageInv(v)'
<1> DEFINE b == EventsSince(target[v], cursor[v])
           n == Len(PageLog(v))
<1>0. StreamTypeOK
  BY DEF StreamInv
<1>1. gen[v] = "fetch" /\ target[v] # Null /\ batch[v] = <<>> /\ Connected(v)
  BY PageFacts DEF FetchEvents, Step, PageInv, StretchesOfLog, Connected
<1>2. /\ Len(received[v]) + Len(wire[v]) = cursor[v] /\ cursor[v] <= n
      /\ \A i \in 1..Len(wire[v]) : wire[v][i] = PageLog(v)[Len(received[v]) + i]
  <2>1. /\ Len(received[v]) + Len(wire[v]) = cursor[v] /\ cursor[v] + Len(batch[v]) <= n
        /\ \A i \in 1..Len(wire[v]) : wire[v][i] = PageLog(v)[Len(received[v]) + i]
    BY <1>1, PageFacts DEF PageInv, StretchesOfLog
  <2>2. cursor[v] \in Nat /\ n \in Nat /\ Len(batch[v]) = 0
    BY <1>1, PageFacts
  <2>3. cursor[v] <= n
    <3> HIDE DEF n
    <3> QED BY <2>1, <2>2
  <2> QED BY <2>1, <2>3
<1>3. b \in Seq(Event) /\ Len(b) = n - cursor[v]
      /\ \A i \in 1..(n - cursor[v]) : b[i] = PageLog(v)[cursor[v] + i]
  BY <1>1, <1>2, PageFacts, EventsSinceIsRest DEF PageLog
<1>4. StreamTypeOK'
  <2>1. gen' \in [Viewers -> GenPoints] /\ batch' \in [Viewers -> Seq(Event)]
    BY <1>0, <1>3 DEF StreamTypeOK, FetchEvents, Step, GenPoints
  <2> QED BY <1>0, <2>1 DEF StreamTypeOK, FetchEvents, TypeOK, vars
<1>5. OnlyPage(v)
  BY <1>0 DEF OnlyPage, FetchEvents, Step, StreamTypeOK
<1>6. /\ target' = target /\ gen'[v] = "send" /\ received' = received /\ wire' = wire
      /\ batch'[v] = b /\ final' = final /\ cursor' = cursor
      /\ job' = job /\ log' = log
  BY <1>0 DEF FetchEvents, Step, StreamTypeOK, vars
<1>7. Watching(v)' /\ ReceivedIsPrefix(v)' /\ EndIsTrue(v)'
  BY <1>1, <1>6, PageFacts DEF PageInv, Watching, ReceivedIsPrefix, EndIsTrue, PageLog
<1>8. StretchesOfLog(v)'
  <2>1. cursor[v] + Len(b) <= n
    <3>1. cursor[v] \in Nat /\ n \in Nat
      BY <1>1, PageFacts
    <3> HIDE DEF n, b
    <3> QED BY <1>3, <3>1
  <2> QED BY <1>2, <1>3, <1>6, <2>1 DEF StretchesOfLog, Connected, PageLog
<1> QED BY <1>4, <1>5, <1>7, <1>8 DEF PageInv

\* The head of the batch moves to the end of what is in flight.
LEMMA SendEventStep ==
  ASSUME StreamInv, NEW v \in Viewers, SendEvent(v)
  PROVE  StreamTypeOK' /\ OnlyPage(v) /\ PageInv(v)'
<1> DEFINE r == Len(received[v])
           w == Len(wire[v])
           b == Len(batch[v])
           n == Len(PageLog(v))
           e == Head(batch[v])
<1>0. StreamTypeOK
  BY DEF StreamInv
<1>1. gen[v] = "send" /\ target[v] # Null /\ batch[v] # <<>> /\ Connected(v)
  BY PageFacts DEF SendEvent, Connected
<1>2. /\ r + w = cursor[v] /\ cursor[v] + b <= n
      /\ \A i \in 1..w : wire[v][i] = PageLog(v)[r + i]
      /\ \A i \in 1..b : batch[v][i] = PageLog(v)[cursor[v] + i]
  BY <1>1, PageFacts DEF PageInv, StretchesOfLog
<1>3. /\ r \in Nat /\ w \in Nat /\ n \in Nat /\ cursor[v] \in Nat
      /\ b \in Nat \ {0} /\ e = batch[v][1] /\ e \in Event
  BY <1>1, PageFacts
<1>4. cursor[v] + 1 \in 1..n
  <2> HIDE DEF r, w, b, n
  <2>1. 1 \in 1..b
    BY <1>3
  <2> QED BY <1>2, <1>3, <2>1, Stretches
<1>5. e = PageLog(v)[cursor[v] + 1] /\ e.id = cursor[v] + 1
  <2>1. 1 \in 1..b
    <3> HIDE DEF b
    <3> QED BY <1>3
  <2> QED BY <1>1, <1>2, <1>3, <1>4, <2>1, PageFacts
<1>6. /\ wire'[v] = Append(wire[v], e) /\ batch'[v] = Tail(batch[v])
      /\ cursor'[v] = cursor[v] + 1
      /\ target' = target /\ gen' = gen /\ final' = final /\ received' = received
      /\ job' = job /\ log' = log
  BY <1>0, <1>5 DEF SendEvent, StreamTypeOK, vars
<1>7. StreamTypeOK'
  <2>1. cursor' \in [Viewers -> Nat] /\ wire' \in [Viewers -> Seq(Event)]
    BY <1>0, <1>3, <1>5 DEF SendEvent, StreamTypeOK
  <2>2. batch' \in [Viewers -> Seq(Event)]
    BY <1>0, <1>1 DEF SendEvent, StreamTypeOK
  <2> QED BY <1>0, <2>1, <2>2 DEF StreamTypeOK, SendEvent, TypeOK, vars
<1>8. OnlyPage(v)
  BY <1>0 DEF OnlyPage, SendEvent, StreamTypeOK
<1>9. /\ Len(wire'[v]) = w + 1 /\ Len(batch'[v]) = b - 1
      /\ \A i \in 1..w : wire'[v][i] = wire[v][i]
      /\ wire'[v][w + 1] = e
      /\ \A i \in 1..(b - 1) : batch'[v][i] = batch[v][i + 1]
  BY <1>1, <1>3, <1>6, PageFacts
<1>10. Watching(v)' /\ ReceivedIsPrefix(v)' /\ EndIsTrue(v)'
  BY <1>1, <1>6, PageFacts DEF PageInv, Watching, ReceivedIsPrefix, EndIsTrue, PageLog
<1>11. StretchesOfLog(v)'
  <2>1. r + (w + 1) = cursor'[v] /\ cursor'[v] + (b - 1) <= n
    <3> HIDE DEF r, w, b, n
    <3> QED BY <1>2, <1>3, <1>6
  <2>2. \A i \in 1..(w + 1) : wire'[v][i] = PageLog(v)[r + i]
    <3>1. r + (w + 1) = cursor[v] + 1
      BY <1>6, <2>1
    <3>2. \A i \in 1..(w + 1) : i \in 1..w \/ i = w + 1
      <4> HIDE DEF w
      <4> QED BY <1>3
    <3> HIDE DEF r, w
    <3> QED BY <1>2, <1>5, <1>9, <3>1, <3>2
  <2>3. \A i \in 1..(b - 1) : batch'[v][i] = PageLog(v)[cursor'[v] + i]
    <3> SUFFICES ASSUME NEW i \in 1..(b - 1)
                 PROVE  batch[v][i + 1] = PageLog(v)[cursor'[v] + i]
      BY <1>9
    <3>1. cursor'[v] = cursor[v] + 1 /\ i \in 1..(b - 1)
      BY <1>6
    <3>2. i + 1 \in 1..b /\ cursor[v] + (i + 1) = cursor'[v] + i
      <4> HIDE DEF b
      <4> QED BY <1>3, <3>1
    <3> QED BY <1>2, <3>2
  <2>4. PageLog(v)' = PageLog(v)
    BY <1>6 DEF PageLog
  <2> QED BY <1>1, <1>6, <1>9, <2>1, <2>2, <2>3, <2>4 DEF StretchesOfLog, Connected
<1> QED BY <1>7, <1>8, <1>10, <1>11 DEF PageInv

LEMMA BatchSentStep ==
  ASSUME StreamInv, NEW v \in Viewers, BatchSent(v) \/ Wake(v)
  PROVE  StreamTypeOK' /\ OnlyPage(v) /\ PageInv(v)'
<1>0. StreamTypeOK
  BY DEF StreamInv
<1>1. StreamTypeOK'
  <2>1. gen' \in [Viewers -> GenPoints]
    BY <1>0 DEF StreamTypeOK, BatchSent, Wake, Step, GenPoints
  <2> QED BY <1>0, <2>1 DEF StreamTypeOK, BatchSent, Wake, TypeOK, vars
<1>2. OnlyPage(v)
  BY <1>0 DEF OnlyPage, BatchSent, Wake, Step, StreamTypeOK
<1>3. /\ target' = target /\ gen'[v] \in {"check", "poll", "expired"}
      /\ received' = received /\ wire' = wire
      /\ batch' = batch /\ final' = final /\ cursor' = cursor /\ batch[v] = <<>>
      /\ job' = job /\ log' = log /\ gen[v] \in {"send", "sleep"} /\ target[v] # Null
  BY <1>0, PageFacts DEF BatchSent, Wake, Step, StreamTypeOK, vars, PageInv, StretchesOfLog
<1>4. Watching(v)' /\ ReceivedIsPrefix(v)' /\ StretchesOfLog(v)'
  BY <1>3, NothingMoves DEF Connected
<1>5. EndIsTrue(v)'
  BY <1>3, PageFacts DEF PageInv, EndIsTrue
<1> QED BY <1>1, <1>2, <1>4, <1>5 DEF PageInv

\* When the generator ends, its cursor is at the end of the log of a job that
\* is over: the last event there reports the terminal status.
LEMMA CheckEndStep ==
  ASSUME StreamInv, NEW v \in Viewers, CheckEnd(v)
  PROVE  StreamTypeOK' /\ OnlyPage(v) /\ PageInv(v)'
<1> DEFINE n == Len(PageLog(v))
           rest == EventsSince(target[v], cursor[v])
<1>0. StreamTypeOK
  BY DEF StreamInv
<1>1. gen[v] = "check" /\ target[v] # Null /\ Connected(v) /\ batch[v] = <<>>
  BY PageFacts DEF CheckEnd, Step, Connected, PageInv, StretchesOfLog
<1>2. StreamTypeOK'
  <2>1. gen' \in [Viewers -> GenPoints] /\ final' \in [Viewers -> BOOLEAN]
    BY <1>0 DEF StreamTypeOK, CheckEnd, Step, GenPoints
  <2> QED BY <1>0, <2>1 DEF StreamTypeOK, CheckEnd, TypeOK, vars
<1>3. OnlyPage(v)
  BY <1>0 DEF OnlyPage, CheckEnd, Step, StreamTypeOK
<1>4. /\ target' = target /\ gen'[v] \in {"ended", "sleep"} /\ received' = received
      /\ wire' = wire /\ batch' = batch /\ ~ final'[v] /\ cursor' = cursor
      /\ job' = job /\ log' = log
      /\ gen'[v] = "ended" => final[v] /\ rest = <<>>
  BY <1>0 DEF CheckEnd, Step, StreamTypeOK, vars
<1>5. cursor[v] <= n /\ cursor[v] \in Nat /\ n \in Nat /\ n # 0
  <2>1. cursor[v] + Len(batch[v]) <= n /\ Len(batch[v]) = 0
    BY <1>1, PageFacts DEF PageInv, StretchesOfLog
  <2>2. cursor[v] \in Nat /\ n \in Nat /\ n # 0
    BY <1>1, PageFacts
  <2> HIDE DEF n
  <2> QED BY <2>1, <2>2
<1>6. ASSUME gen'[v] = "ended"
      PROVE  \E i \in 1..cursor[v] : PageLog(v)[i].status \in Terminal
  <2>1. Len(rest) = n - cursor[v] /\ rest = <<>>
    BY <1>1, <1>4, <1>5, <1>6, PageFacts, EventsSinceIsRest DEF PageLog
  <2>2. Len(rest) = 0
    BY <2>1
  <2>3. cursor[v] = n /\ n \in 1..cursor[v]
    <3> HIDE DEF n, rest
    <3> QED BY <1>5, <2>1, <2>2
  <2>4. PageLog(v)[n].status \in Terminal
    BY <1>1, <1>4, <1>6, PageFacts DEF PageInv, EndIsTrue, IsTerminal
  <2> QED BY <2>3, <2>4
<1>7. EndIsTrue(v)'
  BY <1>4, <1>6 DEF EndIsTrue, PageLog
<1>8. Watching(v)' /\ ReceivedIsPrefix(v)' /\ StretchesOfLog(v)'
  BY <1>1, <1>4, NothingMoves
<1> QED BY <1>2, <1>3, <1>7, <1>8 DEF PageInv

-----------------------------------------------------------------------------
\* The invariant of all pages.

LEMMA StreamInvInit == StreamInit => StreamInv
<1> SUFFICES ASSUME StreamInit PROVE StreamInv
  OBVIOUS
<1>1. JobInv /\ TypeOK
  BY JobInvInit, JobInvImplies DEF StreamInit
<1>2. <<>> \in Seq(Event) /\ <<>> \in Seq(Nat) /\ Len(<<>>) = 0
  OBVIOUS
<1>3. StreamTypeOK
  BY <1>1, <1>2 DEF StreamInit, StreamTypeOK, GenPoints
<1>4. ASSUME NEW v \in Viewers PROVE PageInv(v)
  BY <1>2 DEF StreamInit, PageInv, Watching, ReceivedIsPrefix, StretchesOfLog, EndIsTrue,
              Connected
<1> QED BY <1>1, <1>3, <1>4 DEF StreamInv

\* A step of one page leaves the invariant of the others alone.
LEMMA OnePageMoves ==
  ASSUME StreamInv, NEW v \in Viewers, StreamTypeOK', OnlyPage(v), PageInv(v)'
  PROVE  StreamInv'
<1>1. JobInv'
  BY JobInvNext DEF StreamInv, OnlyPage
<1>2. ASSUME NEW w \in Viewers \ {v} PROVE PageInv(w)'
  BY PageInherits DEF OnlyPage
<1> QED BY <1>1, <1>2 DEF StreamInv

LEMMA StreamInvNext == StreamInv /\ [StreamNext]_viewVars => StreamInv'
<1> SUFFICES ASSUME StreamInv, [StreamNext]_viewVars PROVE StreamInv'
  OBVIOUS
<1>1. ASSUME JobStep \/ UNCHANGED viewVars PROVE StreamInv'
  <2>1. [Next]_vars /\ UNCHANGED streamVars
    BY <1>1 DEF JobStep, viewVars
  <2>2. JobInv' /\ TypeOK'
    <3>1. JobInv'
      BY <2>1, JobInvNext DEF StreamInv
    <3> QED BY <3>1 DEF JobInv, TypeOK
  <2>3. StreamTypeOK'
    BY <2>1, <2>2 DEF StreamInv, StreamTypeOK, streamVars
  <2>4. ASSUME NEW v \in Viewers PROVE PageInv(v)'
    BY <2>1, PageInherits DEF streamVars
  <2> QED BY <2>2, <2>3, <2>4 DEF StreamInv
<1>2. ASSUME NEW v \in Viewers, NEW j \in Jobs, Open(v, j) PROVE StreamInv'
  BY <1>2, OpenStep, OnePageMoves
<1>3. ASSUME NEW v \in Viewers, PageStep(v) \/ Cut(v) PROVE StreamInv'
  <2>1. CASE Reconnect(v)
    BY <2>1, ReconnectStep, OnePageMoves
  <2>2. CASE Receive(v)
    BY <2>2, ReceiveStep, OnePageMoves
  <2>3. CASE SeeClosed(v)
    BY <2>3, SeeClosedStep, OnePageMoves
  <2>4. CASE Leave(v) \/ Cut(v)
    BY <2>4, DisconnectStep, OnePageMoves
  <2> QED BY <1>3, <2>1, <2>2, <2>3, <2>4 DEF PageStep
<1>4. ASSUME NEW v \in Viewers, GenStep(v) PROVE StreamInv'
  <2>1. CASE PollEnvelope(v)
    BY <2>1, PollEnvelopeStep, OnePageMoves
  <2>2. CASE FetchEvents(v)
    BY <2>2, FetchEventsStep, OnePageMoves
  <2>3. CASE SendEvent(v)
    BY <2>3, SendEventStep, OnePageMoves
  <2>4. CASE BatchSent(v) \/ Wake(v)
    BY <2>4, BatchSentStep, OnePageMoves
  <2>5. CASE CheckEnd(v)
    BY <2>5, CheckEndStep, OnePageMoves
  <2> QED BY <1>4, <2>1, <2>2, <2>3, <2>4, <2>5 DEF GenStep
<1> QED BY <1>1, <1>2, <1>3, <1>4 DEF StreamNext

\* Every reachable state satisfies the invariant.
THEOREM StreamInvariant == StreamSpec => []StreamInv
<1>1. StreamInit => StreamInv
  BY StreamInvInit
<1>2. StreamInv /\ [StreamNext]_viewVars => StreamInv'
  BY StreamInvNext
<1> QED BY <1>1, <1>2, PTL DEF StreamSpec

\* The variables of the stream have their types.
THEOREM StreamTypeCorrect == StreamSpec => []StreamTypeOK
<1>1. StreamInv => StreamTypeOK
  BY DEF StreamInv
<1> QED BY <1>1, StreamInvariant, PTL

\* Over all its connections a page receives the events of its job in order and
\* each exactly once (Last-Event-ID resumption in stream_events), and what is in
\* flight continues what was received.
THEOREM EventsComeOnce == StreamSpec => []EachEventOnce
<1>1. StreamInv => EachEventOnce
  <2> SUFFICES ASSUME StreamInv, NEW v \in Viewers
               PROVE  /\ \A i \in 1..Len(received[v]) : received[v][i] = i
                      /\ gen[v] \notin {"closed", "left"} =>
                            /\ Len(received[v]) + Len(wire[v]) = cursor[v]
                            /\ \A i \in 1..Len(wire[v]) :
                                  wire[v][i].id = Len(received[v]) + i
    BY DEF EachEventOnce
  <2>1. \A i \in 1..Len(received[v]) : received[v][i] = i
    BY PageFacts DEF PageInv, ReceivedIsPrefix
  <2>2. ASSUME Connected(v)
        PROVE  /\ Len(received[v]) + Len(wire[v]) = cursor[v]
               /\ \A i \in 1..Len(wire[v]) : wire[v][i].id = Len(received[v]) + i
    <3>1. /\ target[v] # Null
          /\ Len(received[v]) + Len(wire[v]) = cursor[v]
          /\ cursor[v] + Len(batch[v]) <= Len(PageLog(v))
          /\ \A i \in 1..Len(wire[v]) : wire[v][i] = PageLog(v)[Len(received[v]) + i]
      BY <2>2, PageFacts DEF PageInv, StretchesOfLog, Connected
    <3>2. /\ Len(received[v]) \in Nat /\ Len(wire[v]) \in Nat /\ Len(batch[v]) \in Nat
          /\ cursor[v] \in Nat /\ Len(PageLog(v)) \in Nat
          /\ \A i \in 1..Len(PageLog(v)) : PageLog(v)[i].id = i
      BY <3>1, PageFacts
    <3>3. \A i \in 1..Len(wire[v]) : Len(received[v]) + i \in 1..Len(PageLog(v))
      BY <3>1, <3>2, Stretches
    <3> QED BY <3>1, <3>2, <3>3
  <2> QED BY <2>1, <2>2 DEF Connected
<1> QED BY <1>1, StreamInvariant, PTL

\* The generator (_event_generator) ends a stream for good only after it sent the
\* event that reports the terminal status, although it reads the envelope and the
\* events at different times.
THEOREM EndFollowsTerminalEvent == StreamSpec => []EndedAfterTerminalEvent
<1>1. StreamInv => EndedAfterTerminalEvent
  BY DEF StreamInv, PageInv, EndIsTrue, PageLog, EndedAfterTerminalEvent
<1> QED BY <1>1, StreamInvariant, PTL

=============================================================================

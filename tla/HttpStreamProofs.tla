--------------------------- MODULE HttpStreamProofs ---------------------------
(***************************************************************************)
(* What holds of the HTTP journal backend for every number of producers,   *)
(* of appends and of faults.  The server's record of the producer bounds   *)
(* its stream and the stream holds everything up to that record: the rest  *)
(* follows from who may be answered what.                                  *)
(***************************************************************************)
EXTENDS HttpStream, TLAPS

\* What a worker has to post was appended, in a number the event's identity allows.
QueueIsAppended ==
  \A p \in Producer :
    /\ nextSeq[p] <= Appends[p]
    /\ \A i \in DOMAIN queue[p] : queue[p][i] < nextSeq[p]

\* Only an outstanding post has an answer.
AnswersArePosted == \A p \in Producer : posting[p] = {} => reply[p] = "none"

\* The server's record is the last event stored, and no later one is in the stream.
RecordBoundsLog ==
  /\ \A i \in DOMAIN log :
       \/ log[i][1] < last.epoch
       \/ log[i][1] = last.epoch /\ log[i][2] <= last.seq
  /\ last.epoch # 0 => Stored(<<last.epoch, last.seq>>)

\* The stream holds every producer's events up to the last one of it that it holds.
PrefixClosed == \A x \in Event : Stored(x) => \A m \in 0 .. x[2] : Stored(<<x[1], m>>)

\* An answer that resolves, and a resolved append, are about a stored event.
PositiveIsStored ==
  /\ \A p \in Producer : reply[p] \in {"stored", "duplicate"} => \A n \in posting[p] : Stored(<<p, n>>)
  /\ \A x \in Event : appended[x] = "resolved" => Stored(x)

StreamInv ==
  TypeOK /\ QueueIsAppended /\ AnswersArePosted /\ RecordBoundsLog /\ PrefixClosed /\ PositiveIsStored

LEMMA ProducerIsNat == \A p \in Producer : p \in Nat /\ p >= 1 /\ Appends[p] \in Nat
  BY AppendsAssumption DEF AppendsAssumption, Producer

LEMMA EventIs ==
  /\ \A p \in Producer, n \in Nat : <<p, n>> \in Event <=> n < Appends[p]
  /\ \A x \in Event : x[1] \in Producer /\ x[2] \in Nat /\ x[2] < Appends[x[1]] /\ x = <<x[1], x[2]>>
<1>1. ASSUME NEW p \in Producer, NEW n \in Nat, n < Appends[p] PROVE <<p, n>> \in Event
  <2>1. <<p, n>> \in {p} \X (0 .. Appends[p] - 1)
    BY <1>1, ProducerIsNat
  <2> QED
    BY <2>1 DEF Event
<1>2. ASSUME NEW x \in Event
      PROVE  x[1] \in Producer /\ x[2] \in Nat /\ x[2] < Appends[x[1]] /\ x = <<x[1], x[2]>>
  <2>1. PICK q \in Producer : x \in {q} \X (0 .. Appends[q] - 1)
    BY <1>2 DEF Event
  <2> QED
    BY <2>1, ProducerIsNat
<1>3. ASSUME NEW p \in Producer, NEW n \in Nat, <<p, n>> \in Event PROVE n < Appends[p]
  BY <1>2, <1>3
<1> QED
  BY <1>1, <1>2, <1>3

\* What a step that leaves the stream alone has to show.
LogKept == UNCHANGED <<log, last>>

LEMMA LogRests ==
  ASSUME StreamInv, LogKept
  PROVE  /\ RecordBoundsLog' /\ PrefixClosed'
         /\ \A x : Stored(x)' <=> Stored(x)
<1>1. \A x : Stored(x)' <=> Stored(x)
  BY DEF LogKept, Stored
<1> QED
  BY <1>1 DEF StreamInv, LogKept, RecordBoundsLog, PrefixClosed

LEMMA StreamInitially == Init => StreamInv
<1> SUFFICES ASSUME Init PROVE StreamInv
  OBVIOUS
<1>1. TypeOK
  BY DEF Init, TypeOK
<1>2. QueueIsAppended /\ AnswersArePosted /\ RecordBoundsLog /\ PrefixClosed /\ PositiveIsStored
  BY ProducerIsNat
     DEF Init, QueueIsAppended, AnswersArePosted, RecordBoundsLog, PrefixClosed, PositiveIsStored, Stored
<1> QED
  BY <1>1, <1>2 DEF StreamInv

\* append(), and a caller that goes away: nothing is posted or answered.
LEMMA AppendKept ==
  ASSUME StreamInv, NEW p \in Producer, AppendEvent(p)
  PROVE  StreamInv'
<1>1. /\ nextSeq[p] \in Nat /\ queue[p] \in Seq(Nat) /\ Appends[p] \in Nat /\ nextSeq[p] < Appends[p]
      /\ UNCHANGED <<phase, posting, fatal, wire, reply, log, last, faults>>
  BY ProducerIsNat DEF StreamInv, TypeOK, AppendEvent, server
<1>2. /\ nextSeq' = [nextSeq EXCEPT ![p] = @ + 1]
      /\ queue' = [queue EXCEPT ![p] = Append(@, nextSeq[p])]
      /\ appended' = [appended EXCEPT ![<<p, nextSeq[p]>>] = "waiting"]
  BY DEF AppendEvent
<1>3. TypeOK'
  <2>1. nextSeq' \in [Producer -> Nat] /\ queue' \in [Producer -> Seq(Nat)]
    BY <1>1, <1>2 DEF StreamInv, TypeOK
  <2>2. appended' \in [Event -> {"no", "waiting", "resolved", "rejected", "abandoned"}]
    BY <1>2 DEF StreamInv, TypeOK
  <2> QED
    BY <1>1, <2>1, <2>2 DEF StreamInv, TypeOK
<1>4. QueueIsAppended'
  <2>1. \A q \in Producer : q # p => nextSeq'[q] = nextSeq[q] /\ queue'[q] = queue[q]
    BY <1>2 DEF StreamInv, TypeOK
  <2>2. nextSeq'[p] = nextSeq[p] + 1 /\ queue'[p] = Append(queue[p], nextSeq[p])
    BY <1>2 DEF StreamInv, TypeOK
  <2>3. \A i \in DOMAIN queue[p] : queue[p][i] < nextSeq[p] /\ queue[p][i] \in Nat
    BY <1>1 DEF StreamInv, QueueIsAppended
  <2>4. \A i \in DOMAIN queue'[p] : queue'[p][i] < nextSeq'[p]
    BY <1>1, <2>2, <2>3
  <2>5. nextSeq'[p] <= Appends[p]
    BY <1>1, <2>2
  <2>6. \A q \in Producer : q # p => /\ nextSeq'[q] <= Appends[q]
                                     /\ \A i \in DOMAIN queue'[q] : queue'[q][i] < nextSeq'[q]
    BY <2>1 DEF StreamInv, QueueIsAppended
  <2> QED
    BY <2>4, <2>5, <2>6 DEF QueueIsAppended
<1>5. AnswersArePosted' /\ RecordBoundsLog' /\ PrefixClosed'
  BY <1>1, LogRests DEF LogKept, StreamInv, AnswersArePosted
<1>6. PositiveIsStored'
  BY <1>1, <1>2, LogRests DEF LogKept, StreamInv, PositiveIsStored, TypeOK
<1> QED
  BY <1>3, <1>4, <1>5, <1>6 DEF StreamInv

LEMMA CallerKept ==
  ASSUME StreamInv, (\E x \in Event : Abandon(x)) \/ (\E p \in Producer : Open(p))
  PROVE  StreamInv'
<1>1. UNCHANGED <<nextSeq, queue, posting, fatal, wire, reply, log, last, faults>>
  BY DEF Abandon, Open, server
<1>2. TypeOK'
  BY <1>1 DEF StreamInv, TypeOK, Abandon, Open
<1>3. \A y \in Event : appended'[y] = "resolved" => appended[y] = "resolved"
  BY DEF Abandon, Open, StreamInv, TypeOK
<1> QED
  BY <1>1, <1>2, <1>3, LogRests
     DEF LogKept, StreamInv, QueueIsAppended, AnswersArePosted, PositiveIsStored

\* The worker takes an event off the queue, to post or to reject it.
LEMMA TakeKept ==
  ASSUME StreamInv, NEW p \in Producer, queue[p] # <<>>
  PROVE  /\ Head(queue[p]) \in Nat /\ <<p, Head(queue[p])>> \in Event
         /\ [queue EXCEPT ![p] = Tail(@)] \in [Producer -> Seq(Nat)]
         /\ queue' = [queue EXCEPT ![p] = Tail(@)] /\ UNCHANGED nextSeq => QueueIsAppended'
<1>1. queue[p] \in Seq(Nat) /\ nextSeq[p] \in Nat /\ Appends[p] \in Nat /\ queue \in [Producer -> Seq(Nat)]
  BY ProducerIsNat DEF StreamInv, TypeOK
<1>2. Head(queue[p]) \in Nat /\ Head(queue[p]) < Appends[p]
  BY <1>1 DEF StreamInv, QueueIsAppended
<1>3. Tail(queue[p]) \in Seq(Nat) /\ \A i \in DOMAIN Tail(queue[p]) : Tail(queue[p])[i] < nextSeq[p]
  BY <1>1 DEF StreamInv, QueueIsAppended
<1>4. ASSUME queue' = [queue EXCEPT ![p] = Tail(@)], UNCHANGED nextSeq PROVE QueueIsAppended'
  BY <1>1, <1>3, <1>4 DEF StreamInv, QueueIsAppended
<1> QED
  BY <1>1, <1>2, <1>3, <1>4, EventIs

LEMMA PostKept ==
  ASSUME StreamInv, NEW p \in Producer, Post(p)
  PROVE  StreamInv'
<1> DEFINE n == Head(queue[p])
<1>1. /\ n \in Nat /\ <<p, n>> \in Event /\ queue' \in [Producer -> Seq(Nat)] /\ QueueIsAppended'
      /\ UNCHANGED <<phase, nextSeq, fatal, appended, reply, log, last, faults>>
  BY TakeKept DEF Post, server
<1>2. posting' = [posting EXCEPT ![p] = {n}] /\ wire' = wire \cup {<<p, n>>} /\ reply[p] = "none"
  BY DEF Post, StreamInv, AnswersArePosted
<1> HIDE DEF n
<1>3. TypeOK'
  BY <1>1, <1>2 DEF StreamInv, TypeOK
<1>4. AnswersArePosted' /\ PositiveIsStored'
  BY <1>1, <1>2, LogRests DEF LogKept, StreamInv, TypeOK, AnswersArePosted, PositiveIsStored
<1> QED
  BY <1>1, <1>3, <1>4, LogRests DEF LogKept, StreamInv

\* Settling an append as anything but resolved resolves nothing.
LEMMA SettledTypes ==
  ASSUME StreamInv, NEW x, NEW how \in {"resolved", "rejected"}, Settled(x, how)
  PROVE  /\ appended' \in [Event -> {"no", "waiting", "resolved", "rejected", "abandoned"}]
         /\ \A y \in Event : appended'[y] = "resolved" => appended[y] = "resolved" \/ (y = x /\ how = "resolved")
  BY DEF StreamInv, TypeOK, Settled

LEMMA RejectKept ==
  ASSUME StreamInv, NEW p \in Producer, RejectQueued(p)
  PROVE  StreamInv'
<1>1. /\ queue' \in [Producer -> Seq(Nat)] /\ QueueIsAppended' /\ Settled(<<p, Head(queue[p])>>, "rejected")
      /\ UNCHANGED <<phase, nextSeq, posting, fatal, wire, reply, log, last, faults>>
  BY TakeKept DEF RejectQueued, server
<1>2. TypeOK'
  BY <1>1, SettledTypes DEF StreamInv, TypeOK
<1>3. AnswersArePosted' /\ PositiveIsStored'
  BY <1>1, SettledTypes, LogRests DEF LogKept, StreamInv, AnswersArePosted, PositiveIsStored
<1> QED
  BY <1>1, <1>2, <1>3, LogRests DEF LogKept, StreamInv

\* The outstanding post is over: its append is settled, as resolved only on an answer
\* that says the event is stored.
LEMMA PostEnds ==
  ASSUME StreamInv, NEW p \in Producer, NEW n \in posting[p], NEW how \in {"resolved", "rejected"},
         how = "resolved" => reply[p] \in {"stored", "duplicate"},
         Settled(<<p, n>>, how),
         posting' = [posting EXCEPT ![p] = @ \ {n}], reply' = [reply EXCEPT ![p] = "none"],
         fatal' \in [Producer -> BOOLEAN], wire' \subseteq wire, faults' \in Nat,
         UNCHANGED <<phase, nextSeq, queue, log, last>>
  PROVE  StreamInv'
<1>1. TypeOK'
  <2>1. appended' \in [Event -> {"no", "waiting", "resolved", "rejected", "abandoned"}]
    BY SettledTypes
  <2>2. posting' \in [Producer -> SUBSET Nat] /\ \A q \in Producer : posting'[q] \subseteq posting[q]
    BY DEF StreamInv, TypeOK
  <2>3. reply' \in [Producer -> {"none", "stored", "duplicate", "stale", "invalid", "gap", "error"}]
    BY DEF StreamInv, TypeOK
  <2>4. \A q \in Producer : \A i, j \in posting'[q] : i = j
    BY <2>2 DEF StreamInv, TypeOK
  <2> QED
    BY <2>1, <2>2, <2>3, <2>4 DEF StreamInv, TypeOK
<1>2. QueueIsAppended' /\ RecordBoundsLog' /\ PrefixClosed'
  BY LogRests DEF LogKept, StreamInv, QueueIsAppended
<1>3. \A q \in Producer : q # p => posting'[q] = posting[q] /\ reply'[q] = reply[q]
  BY DEF StreamInv, TypeOK
<1>4. reply'[p] = "none"
  BY DEF StreamInv, TypeOK
<1>5. AnswersArePosted'
  BY <1>3, <1>4 DEF StreamInv, AnswersArePosted
<1>6. PositiveIsStored'
  <2>1. how = "resolved" => Stored(<<p, n>>)
    BY DEF StreamInv, PositiveIsStored
  <2>2. \A x : Stored(x)' <=> Stored(x)
    BY LogRests DEF LogKept
  <2>3. \A y \in Event : appended'[y] = "resolved" => Stored(y)
    BY <2>1, SettledTypes DEF StreamInv, PositiveIsStored
  <2> QED
    BY <1>3, <1>4, <2>2, <2>3 DEF StreamInv, PositiveIsStored
<1> QED
  BY <1>1, <1>2, <1>5, <1>6 DEF StreamInv

LEMMA AnswerKept ==
  ASSUME StreamInv, NEW p \in Producer, Answer(p) \/ BodyLost(p) \/ NetworkFails(p)
  PROVE  StreamInv'
<1>1. /\ fatal' \in [Producer -> BOOLEAN] /\ faults' \in Nat /\ wire' \subseteq wire
      /\ reply' = [reply EXCEPT ![p] = "none"] /\ UNCHANGED <<phase, nextSeq, queue, log, last>>
  <2>1. fatal \in [Producer -> BOOLEAN] /\ faults \in Nat
    BY DEF StreamInv, TypeOK
  <2>2. UNCHANGED fatal \/ fatal' = [fatal EXCEPT ![p] = TRUE]
    BY DEF Answer, Answered, BodyLost, NetworkFails
  <2>3. fatal' \in [Producer -> BOOLEAN]
    BY <2>1, <2>2
  <2>4. wire' \subseteq wire
    BY DEF Answer, BodyLost, NetworkFails
  <2>5. faults' \in Nat
    BY <2>1 DEF Answer, BodyLost, NetworkFails, Fault
  <2> QED
    BY <2>3, <2>4, <2>5 DEF Answer, BodyLost, NetworkFails, server
<1>2. \E n \in posting[p], how \in {"resolved", "rejected"} :
        /\ how = "resolved" => reply[p] \in {"stored", "duplicate"}
        /\ Settled(<<p, n>>, how)
        /\ posting' = [posting EXCEPT ![p] = @ \ {n}]
  BY DEF Answer, Answered, BodyLost, NetworkFails
<1> QED
  BY <1>1, <1>2, PostEnds

LEMMA GoneKept ==
  ASSUME StreamInv, NEW p \in Producer, Gone(p)
  PROVE  StreamInv'
<1>1. UNCHANGED <<nextSeq, fatal, wire, log, last, faults>>
  BY DEF Gone, server
<1>2. /\ \A q \in Producer : q # p => /\ posting'[q] = posting[q] /\ reply'[q] = reply[q]
                                      /\ queue'[q] = queue[q]
      /\ posting'[p] = {} /\ reply'[p] = "none" /\ queue'[p] = <<>>
  BY DEF Gone, StreamInv, TypeOK
<1>3. \A y \in Event : appended'[y] = "resolved" => appended[y] = "resolved"
  BY DEF Gone
<1>4. TypeOK'
  BY <1>1 DEF Gone, StreamInv, TypeOK
<1>5. QueueIsAppended' /\ AnswersArePosted'
  BY <1>1, <1>2 DEF StreamInv, QueueIsAppended, AnswersArePosted
<1>6. PositiveIsStored'
  BY <1>1, <1>2, <1>3, LogRests DEF LogKept, StreamInv, PositiveIsStored
<1> QED
  BY <1>1, <1>4, <1>5, <1>6, LogRests DEF LogKept, StreamInv

Verdicts == {"stored", "duplicate", "stale", "invalid", "gap", "error"}

\* The answer of the server reaches a post that is still outstanding.
LEMMA RespondKept ==
  ASSUME StreamInv, NEW p \in Producer, NEW n \in Nat, NEW verdict \in Verdicts, Respond(p, n, verdict),
         UNCHANGED <<phase, nextSeq, queue, posting, fatal, appended>>, wire' \subseteq wire, faults' \in Nat,
         log' \in Seq(Event), last' \in [epoch : Nat, seq : Nat],
         \A x \in Event : Stored(x) => Stored(x)',
         \A q \in Producer, m \in Nat : Stored(<<q, m>>) => Stored(<<q, m>>)',
         verdict \in {"stored", "duplicate"} => Stored(<<p, n>>)'
  PROVE  TypeOK' /\ QueueIsAppended' /\ AnswersArePosted' /\ PositiveIsStored'
<1>1. TypeOK'
  BY DEF StreamInv, TypeOK, Respond, Verdicts
<1>2. /\ \A q \in Producer : q # p => reply'[q] = reply[q]
      /\ n \notin posting[p] => reply'[p] = reply[p]
      /\ n \in posting[p] => reply'[p] = verdict /\ posting[p] = {n}
  BY DEF StreamInv, TypeOK, Respond
<1>3. QueueIsAppended' /\ AnswersArePosted'
  BY <1>2 DEF StreamInv, QueueIsAppended, AnswersArePosted
<1>4. \A q \in Producer : reply'[q] \in {"stored", "duplicate"} => \A m \in posting[q] : Stored(<<q, m>>)'
  BY <1>2 DEF StreamInv, PositiveIsStored, TypeOK
<1>5. \A x \in Event : appended'[x] = "resolved" => Stored(x)'
  BY DEF StreamInv, PositiveIsStored
<1> QED
  BY <1>1, <1>3, <1>4, <1>5 DEF PositiveIsStored

LEMMA AppendStores ==
  ASSUME StreamInv, NEW x \in Event, log' = Append(log, x)
  PROVE  /\ \A y : Stored(y)' <=> Stored(y) \/ y = x
         /\ \A i \in DOMAIN log' : (i \in DOMAIN log /\ log'[i] = log[i]) \/ log'[i] = x
<1>1. log \in Seq(Event)
  BY DEF StreamInv, TypeOK
<1>2. /\ DOMAIN log' = DOMAIN log \cup {Len(log) + 1} /\ log'[Len(log) + 1] = x
      /\ \A i \in DOMAIN log : log'[i] = log[i]
  BY <1>1
<1> QED
  BY <1>2 DEF Stored

\* A stored post is the one the record awaits; a duplicate is at or below the record.
LEMMA VerdictIs ==
  ASSUME StreamInv, NEW p \in Producer, NEW n \in Nat
  PROVE  /\ Verdict(p, n) \in Verdicts
         /\ Verdict(p, n) = "stored" =>
              (p > last.epoch /\ n = 0) \/ (p = last.epoch /\ n = last.seq + 1)
         /\ Verdict(p, n) = "duplicate" => p = last.epoch /\ n <= last.seq
  BY ProducerIsNat DEF StreamInv, TypeOK, Verdict, EpochOf, Verdicts

LEMMA ServeKept ==
  ASSUME StreamInv, NEW p \in Producer, NEW n \in Nat, <<p, n>> \in Event, Serve(p, n)
  PROVE  StreamInv'
<1>1. /\ UNCHANGED <<phase, nextSeq, queue, posting, fatal, appended, faults>>
      /\ wire' \subseteq wire /\ Respond(p, n, Verdict(p, n)) /\ faults' \in Nat
  BY DEF Serve, client, StreamInv, TypeOK
<1>2. last.epoch \in Nat /\ last.seq \in Nat /\ log \in Seq(Event) /\ p \in Nat /\ p >= 1
  BY ProducerIsNat DEF StreamInv, TypeOK
<1>3. CASE Verdict(p, n) = "stored"
  <2>1. log' = Append(log, <<p, n>>) /\ last' = [epoch |-> p, seq |-> n]
    BY <1>3 DEF Serve, EpochOf
  <2>2. \A y : Stored(y)' <=> Stored(y) \/ y = <<p, n>>
    BY <2>1, AppendStores
  <2>3. log' \in Seq(Event) /\ last' \in [epoch : Nat, seq : Nat] /\ last'.epoch = p /\ last'.seq = n
    BY <1>2, <2>1
  <2>4. (p > last.epoch /\ n = 0) \/ (p = last.epoch /\ n = last.seq + 1)
    BY <1>3, VerdictIs
  <2>5. RecordBoundsLog'
    <3>1. \A i \in DOMAIN log : log[i][1] \in Nat /\ log[i][2] \in Nat
      BY <1>2, EventIs, ProducerIsNat
    <3>2. \A i \in DOMAIN log : log[i][1] < p \/ (log[i][1] = p /\ log[i][2] <= n)
      BY <1>2, <2>4, <3>1 DEF StreamInv, RecordBoundsLog
    <3>3. <<p, n>>[1] = p /\ <<p, n>>[2] = n
      OBVIOUS
    <3>4. \A i \in DOMAIN log' : log'[i][1] < p \/ (log'[i][1] = p /\ log'[i][2] <= n)
      BY <2>1, <3>2, <3>3, AppendStores
    <3> QED
      BY <2>2, <2>3, <3>4 DEF RecordBoundsLog
  <2>6. PrefixClosed'
    <3>1. \A m \in 0 .. n : Stored(<<p, m>>)'
      <4>1. CASE n = 0
        BY <2>2, <4>1
      <4>2. CASE p = last.epoch /\ n = last.seq + 1
        <5>1. Stored(<<p, last.seq>>) /\ last.seq < Appends[p]
          BY <1>2, <4>2, EventIs, ProducerIsNat DEF StreamInv, RecordBoundsLog
        <5>2. <<p, last.seq>> \in Event
          BY <1>2, <5>1, EventIs
        <5>3. \A m \in 0 .. last.seq : Stored(<<p, m>>)
          BY <5>1, <5>2 DEF StreamInv, PrefixClosed
        <5> QED
          BY <1>2, <2>2, <4>2, <5>3
      <4> QED
        BY <2>4, <4>1, <4>2
    <3>2. ASSUME NEW x \in Event, Stored(x)', NEW m \in 0 .. x[2] PROVE Stored(<<x[1], m>>)'
      <4>1. CASE x = <<p, n>>
        BY <3>1, <3>2, <4>1
      <4>2. CASE Stored(x)
        BY <2>2, <3>2, <4>2 DEF StreamInv, PrefixClosed
      <4> QED
        BY <2>2, <3>2, <4>1, <4>2
    <3> QED
      BY <3>2 DEF PrefixClosed
  <2>7. TypeOK' /\ QueueIsAppended' /\ AnswersArePosted' /\ PositiveIsStored'
    BY <1>1, <2>2, <2>3, RespondKept, VerdictIs
  <2> QED
    BY <2>5, <2>6, <2>7 DEF StreamInv
<1>4. CASE Verdict(p, n) # "stored"
  <2>1. LogKept
    BY <1>4 DEF Serve, server, LogKept
  <2>2. Verdict(p, n) = "duplicate" => Stored(<<p, n>>)
    <3> SUFFICES ASSUME Verdict(p, n) = "duplicate" PROVE Stored(<<p, n>>)
      OBVIOUS
    <3>1. p = last.epoch /\ n <= last.seq
      BY VerdictIs
    <3>2. Stored(<<p, last.seq>>)
      BY <1>2, <3>1 DEF StreamInv, RecordBoundsLog
    <3>3. <<p, last.seq>> \in Event
      BY <1>2, <3>2 DEF Stored
    <3>4. <<p, last.seq>>[1] = p /\ <<p, last.seq>>[2] = last.seq /\ n \in 0 .. last.seq
      BY <1>2, <3>1
    <3> QED
      BY <3>2, <3>3, <3>4 DEF StreamInv, PrefixClosed
  <2>3. log' \in Seq(Event) /\ last' \in [epoch : Nat, seq : Nat]
    BY <2>1 DEF LogKept, StreamInv, TypeOK
  <2>4. TypeOK' /\ QueueIsAppended' /\ AnswersArePosted' /\ PositiveIsStored'
    BY <1>1, <1>4, <2>1, <2>2, <2>3, LogRests, RespondKept, VerdictIs
  <2> QED
    BY <2>1, <2>4, LogRests DEF StreamInv
<1> QED
  BY <1>3, <1>4

LEMMA ServerErrorKept ==
  ASSUME StreamInv, NEW p \in Producer, NEW n \in Nat, ServerError(p, n)
  PROVE  StreamInv'
<1>1. /\ UNCHANGED <<phase, nextSeq, queue, posting, fatal, appended>> /\ wire' \subseteq wire
      /\ Respond(p, n, "error") /\ faults' \in Nat /\ LogKept
  BY DEF ServerError, client, server, Fault, StreamInv, TypeOK, LogKept
<1>2. log' \in Seq(Event) /\ last' \in [epoch : Nat, seq : Nat] /\ "error" \in Verdicts
  BY <1>1 DEF LogKept, StreamInv, TypeOK, Verdicts
<1>3. TypeOK' /\ QueueIsAppended' /\ AnswersArePosted' /\ PositiveIsStored'
  BY <1>1, <1>2, LogRests, RespondKept
<1> QED
  BY <1>1, <1>3, LogRests DEF StreamInv

LEMMA StreamPreserved ==
  ASSUME StreamInv, [Next]_vars
  PROVE  StreamInv'
<1>1. ASSUME NEW p \in Producer,
             Open(p) \/ AppendEvent(p) \/ Work(p) \/ BodyLost(p) \/ NetworkFails(p) \/ Gone(p)
      PROVE  StreamInv'
  BY <1>1, CallerKept, AppendKept, PostKept, RejectKept, AnswerKept, GoneKept DEF Work
<1>2. ASSUME NEW x \in Event, Abandon(x) \/ Serve(x[1], x[2]) \/ ServerError(x[1], x[2]) PROVE StreamInv'
  <2>1. x[1] \in Producer /\ x[2] \in Nat /\ <<x[1], x[2]>> \in Event
    BY EventIs
  <2> QED
    BY <1>2, <2>1, CallerKept, ServeKept, ServerErrorKept
<1>3. CASE UNCHANGED vars
  <2>1. LogKept /\ UNCHANGED <<phase, nextSeq, queue, posting, fatal, appended, wire, reply, faults>>
    BY <1>3 DEF vars, client, server, LogKept
  <2> QED
    BY <2>1, LogRests
       DEF LogKept, StreamInv, TypeOK, QueueIsAppended, AnswersArePosted, PositiveIsStored
<1> QED
  BY <1>1, <1>2, <1>3 DEF Next

\* The queue, the post on the wire, its answer and the server's record stay in step
\* (append, the worker and doAppend in http-stream.ts).
THEOREM StreamIsSound == Spec => []StreamInv
<1>1. StreamInv /\ [Next]_vars => StreamInv'
  BY StreamPreserved
<1> QED
  BY <1>1, StreamInitially, PTL DEF Spec

-----------------------------------------------------------------------------
(* What the run checks, for every stream *)

\* The worker has at most one post outstanding, and everything keeps its type
\* (the serial worker of useHttpDurableStream).
THEOREM StreamTypes == Spec => []TypeOK
<1>1. StreamInv => TypeOK
  BY DEF StreamInv
<1> QED
  BY <1>1, StreamIsSound, PTL

\* A resolved append is in the stream, after everything its producer was given before
\* it (append and doAppend in http-stream.ts).
THEOREM ResolvedStaysStored == Spec => []ResolvedIsStored
<1>1. StreamInv => ResolvedIsStored
  BY DEF StreamInv, PositiveIsStored, PrefixClosed, ResolvedIsStored
<1> QED
  BY <1>1, StreamIsSound, PTL

\* A newer producer's first stored event fences every older producer for good.
THEOREM OlderProducersFenced == Spec => ZombieFenced
<1> DEFINE Fenced == \A x \in Event : Stored(x)' /\ ~Stored(x) => \A i \in DOMAIN log : log[i][1] <= x[1]
<1>1. ASSUME StreamInv, [Next]_vars PROVE Fenced
  <2> SUFFICES ASSUME NEW x \in Event, Stored(x)', ~Stored(x), NEW i \in DOMAIN log
               PROVE  log[i][1] <= x[1]
    OBVIOUS
  <2>1. ~UNCHANGED log
    BY DEF Stored
  <2>2. PICK y \in Event : Serve(y[1], y[2])
    BY <1>1, <2>1
       DEF Next, Work, Open, AppendEvent, Post, RejectQueued, Answer, BodyLost, NetworkFails, Gone,
           Abandon, ServerError, server, vars
  <2>3. y[1] \in Producer /\ y[2] \in Nat /\ y = <<y[1], y[2]>>
    BY EventIs
  <2>4. Verdict(y[1], y[2]) = "stored" /\ log' = Append(log, y)
    BY <2>1, <2>2, <2>3 DEF Serve, server
  <2>5. x = y
    BY <1>1, <2>4, AppendStores
  <2>6. y[1] >= last.epoch
    <3>1. last.epoch \in Nat /\ y[1] \in Nat
      BY <1>1, <2>3, ProducerIsNat DEF StreamInv, TypeOK
    <3>2. y[1] > last.epoch \/ y[1] = last.epoch
      BY <1>1, <2>3, <2>4, VerdictIs
    <3> QED
      BY <3>1, <3>2
  <2>7. log[i][1] \in Nat /\ last.epoch \in Nat /\ y[1] \in Nat
    <3>1. log[i] \in Event
      BY <1>1 DEF StreamInv, TypeOK
    <3> QED
      BY <1>1, <2>3, <3>1, EventIs, ProducerIsNat DEF StreamInv, TypeOK
  <2>8. log[i][1] <= last.epoch
    BY <1>1, <2>7 DEF StreamInv, RecordBoundsLog
  <2> QED
    BY <2>5, <2>6, <2>7, <2>8
<1>2. StreamInv /\ [Next]_vars => [Fenced]_vars
  BY <1>1
<1> QED
  BY <1>2, StreamIsSound, PTL DEF Spec, ZombieFenced

-----------------------------------------------------------------------------
(* What follows a fatal error *)

\* A producer that failed has no post outstanding, and a post whose caller waits for it
\* is: what is on the wire besides was let go of.
FatalInv ==
  /\ \A p \in Producer : fatal[p] => posting[p] = {}
  /\ \A x \in wire : x[2] < nextSeq[x[1]] /\ (appended[x] = "waiting" => x[2] \in posting[x[1]])

LEMMA FatalTyped ==
  ASSUME StreamInv
  PROVE  /\ fatal \in [Producer -> BOOLEAN] /\ posting \in [Producer -> SUBSET Nat]
         /\ nextSeq \in [Producer -> Nat] /\ wire \subseteq Event /\ DOMAIN appended = Event
         /\ \A p \in Producer : \A n, m \in posting[p] : n = m
  BY DEF StreamInv, TypeOK

\* append() takes a number no post has yet; a post is of an event that was appended.
LEMMA AppendKeepsFatal ==
  ASSUME StreamInv, FatalInv, NEW p \in Producer, AppendEvent(p)
  PROVE  FatalInv'
<1>1. /\ UNCHANGED <<posting, fatal, wire>> /\ nextSeq' = [nextSeq EXCEPT ![p] = @ + 1]
      /\ appended' = [appended EXCEPT ![<<p, nextSeq[p]>>] = "waiting"]
  BY DEF AppendEvent
<1>2. ASSUME NEW x \in wire
      PROVE  x[2] < nextSeq'[x[1]] /\ (appended'[x] = "waiting" => x[2] \in posting[x[1]])
  <2>1. /\ x \in Event /\ x[1] \in Producer /\ x[2] \in Nat /\ x[2] < nextSeq[x[1]]
        /\ nextSeq[x[1]] \in Nat
    BY FatalTyped, EventIs DEF FatalInv
  <2>2. x # <<p, nextSeq[p]>>
    BY <2>1
  <2> QED
    BY <1>1, <2>1, <2>2, FatalTyped DEF FatalInv
<1> QED
  BY <1>1, <1>2 DEF FatalInv

LEMMA PostKeepsFatal ==
  ASSUME StreamInv, FatalInv, NEW p \in Producer, Post(p)
  PROVE  FatalInv'
<1> DEFINE n == Head(queue[p])
<1>1. /\ n \in Nat /\ n < nextSeq[p] /\ <<p, n>>[1] = p /\ <<p, n>>[2] = n
  <2>1. queue[p] \in Seq(Nat) /\ queue[p] # <<>>
    BY DEF StreamInv, TypeOK, Post
  <2> QED
    BY <2>1 DEF StreamInv, QueueIsAppended
<1>2. /\ UNCHANGED <<nextSeq, fatal, appended>> /\ ~fatal[p] /\ posting[p] = {}
      /\ posting' = [posting EXCEPT ![p] = {n}] /\ wire' = wire \cup {<<p, n>>}
  BY DEF Post
<1> HIDE DEF n
<1>3. ASSUME NEW x \in wire'
      PROVE  x[2] < nextSeq[x[1]] /\ (appended[x] = "waiting" => x[2] \in posting'[x[1]])
  <2>1. CASE x = <<p, n>>
    BY <1>1, <1>2, <2>1, FatalTyped
  <2>2. CASE x \in wire
    <3>1. x[1] \in Producer
      BY <2>2, FatalTyped, EventIs
    <3> QED
      BY <1>2, <2>2, <3>1, FatalTyped DEF FatalInv
  <2> QED
    BY <1>2, <1>3, <2>1, <2>2
<1>4. \A q \in Producer : fatal'[q] => posting'[q] = {}
  BY <1>2, FatalTyped DEF FatalInv
<1> QED
  BY <1>2, <1>3, <1>4 DEF FatalInv

\* The worker is done with a post: whatever ends it lets its caller go.
LEMMA EndKeepsFatal ==
  ASSUME StreamInv, FatalInv, NEW p \in Producer, Answer(p) \/ BodyLost(p) \/ NetworkFails(p)
  PROVE  FatalInv'
<1>1. PICK n \in posting[p] :
        /\ posting' = [posting EXCEPT ![p] = @ \ {n}]
        /\ \E how \in {"resolved", "rejected"} : Settled(<<p, n>>, how)
  BY DEF Answer, Answered, BodyLost, NetworkFails
<1>2. /\ UNCHANGED nextSeq /\ wire' \subseteq wire
      /\ fatal' = fatal \/ fatal' = [fatal EXCEPT ![p] = TRUE]
  BY DEF Answer, Answered, BodyLost, NetworkFails, server
<1>3. posting'[p] = {} /\ \A q \in Producer \ {p} : posting'[q] = posting[q] /\ fatal'[q] = fatal[q]
  BY <1>1, <1>2, FatalTyped
<1>4. \A x \in Event : appended'[x] = "waiting" => appended[x] = "waiting" /\ x # <<p, n>>
  BY <1>1, FatalTyped DEF Settled
<1>5. ASSUME NEW x \in wire'
      PROVE  x[2] < nextSeq[x[1]] /\ (appended'[x] = "waiting" => x[2] \in posting'[x[1]])
  <2>1. /\ x \in wire /\ x \in Event /\ x[1] \in Producer /\ x = <<x[1], x[2]>>
        /\ x[2] < nextSeq[x[1]] /\ (appended[x] = "waiting" => x[2] \in posting[x[1]])
    BY <1>2, <1>5, FatalTyped, EventIs DEF FatalInv
  <2>2. ASSUME appended'[x] = "waiting" PROVE x[2] \in posting'[x[1]]
    <3>1. x[2] \in posting[x[1]] /\ x # <<p, n>>
      BY <1>4, <2>1, <2>2
    <3>2. x[1] # p
      BY <1>1, <2>1, <3>1, FatalTyped
    <3> QED
      BY <1>3, <2>1, <3>1, <3>2
  <2> QED
    BY <2>1, <2>2
<1> QED
  BY <1>2, <1>3, <1>5 DEF FatalInv

\* Nobody posts and nobody begins to wait.
LEMMA OthersKeepFatal ==
  ASSUME StreamInv, FatalInv, wire' \subseteq wire, UNCHANGED <<nextSeq, fatal>>,
         \A x \in Event : appended'[x] = "waiting" => appended[x] = "waiting" /\ posting'[x[1]] = posting[x[1]],
         \A p \in Producer : posting'[p] \subseteq posting[p]
  PROVE  FatalInv'
  BY FatalTyped DEF FatalInv

LEMMA FatalKept ==
  ASSUME StreamInv, FatalInv, [Next]_vars
  PROVE  FatalInv'
<1>1. ASSUME NEW p \in Producer, Open(p) PROVE FatalInv'
  BY <1>1, OthersKeepFatal DEF Open
<1>2. ASSUME NEW p \in Producer, RejectQueued(p) PROVE FatalInv'
  BY <1>2, OthersKeepFatal, FatalTyped DEF RejectQueued, Settled
<1>3. ASSUME NEW p \in Producer, Gone(p) PROVE FatalInv'
  <2>1. \A x \in Event : appended'[x] = "waiting" => appended[x] = "waiting" /\ x[1] # p
    BY <1>3 DEF Gone
  <2>2. \A x \in Event : x[1] \in Producer
    BY EventIs
  <2> QED
    BY <1>3, <2>1, <2>2, OthersKeepFatal, FatalTyped DEF Gone
<1>4. ASSUME NEW x \in Event, Abandon(x) PROVE FatalInv'
  BY <1>4, OthersKeepFatal, FatalTyped DEF Abandon
<1>5. ASSUME NEW x \in Event, Serve(x[1], x[2]) \/ ServerError(x[1], x[2]) PROVE FatalInv'
  BY <1>5, OthersKeepFatal DEF Serve, ServerError, client
<1>6. CASE UNCHANGED vars
  BY <1>6, OthersKeepFatal DEF vars, client
<1> QED
  BY <1>1, <1>2, <1>3, <1>4, <1>5, <1>6, AppendKeepsFatal, PostKeepsFatal, EndKeepsFatal
     DEF Next, Work

\* After a fatal error no append of the producer resolves, and what is stored late is the
\* event of a caller that was let go (the worker and both checks of fatalError).
THEOREM FatalStaysFinal == Spec => FatalIsFinal
<1> DEFINE Final ==
      \A x \in Event : fatal[x[1]] =>
        /\ appended'[x] = "resolved" => appended[x] = "resolved"
        /\ Stored(x)' /\ ~Stored(x) => appended[x] # "waiting"
<1>1. Init => FatalInv
  BY DEF Init, FatalInv
<1>2. ASSUME StreamInv, FatalInv, [Next]_vars PROVE Final
  <2> SUFFICES ASSUME NEW x \in Event, fatal[x[1]]
               PROVE  /\ appended'[x] = "resolved" => appended[x] = "resolved"
                      /\ Stored(x)' /\ ~Stored(x) => appended[x] # "waiting"
    OBVIOUS
  <2>1. x[1] \in Producer /\ x[2] \in Nat /\ x = <<x[1], x[2]>> /\ posting[x[1]] = {}
    BY <1>2, EventIs DEF FatalInv
  <2>2. appended'[x] = "resolved" => appended[x] = "resolved"
    <3>1. ASSUME NEW p \in Producer, Answer(p) \/ BodyLost(p) \/ NetworkFails(p)
          PROVE  appended'[x] = appended[x]
      <4>1. PICK n \in posting[p] : \E how : Settled(<<p, n>>, how)
        BY <3>1 DEF Answer, Answered, BodyLost, NetworkFails
      <4>2. x # <<p, n>>
        BY <2>1, <4>1
      <4> QED
        BY <1>2, <4>1, <4>2, FatalTyped DEF Settled
    <3>2. ASSUME NEW p \in Producer, AppendEvent(p) \/ RejectQueued(p) \/ Gone(p)
          PROVE  appended'[x] = "resolved" => appended[x] = "resolved"
      <4>1. DOMAIN appended = Event
        BY <1>2, FatalTyped
      <4>2. CASE AppendEvent(p)
        BY <4>1, <4>2 DEF AppendEvent
      <4>3. CASE RejectQueued(p)
        BY <4>1, <4>3 DEF RejectQueued, Settled
      <4>4. CASE Gone(p)
        BY <4>4 DEF Gone
      <4> QED
        BY <3>2, <4>2, <4>3, <4>4
    <3>3. ASSUME NEW y \in Event, Abandon(y)
          PROVE  appended'[x] = "resolved" => appended[x] = "resolved"
      BY <1>2, <3>3, FatalTyped DEF Abandon
    <3> QED
      BY <1>2, <3>1, <3>2, <3>3
         DEF Next, Work, Open, Post, Serve, ServerError, client, vars
  <2>3. ASSUME Stored(x)', ~Stored(x) PROVE appended[x] # "waiting"
    <3>1. ~UNCHANGED log
      BY <2>3 DEF Stored
    <3>2. PICK y \in Event : Serve(y[1], y[2])
      BY <1>2, <3>1
         DEF Next, Work, Open, AppendEvent, Post, RejectQueued, Answer, BodyLost, NetworkFails,
             Gone, Abandon, ServerError, server, vars
    <3>3. y = <<y[1], y[2]>>
      BY EventIs
    <3>4. log' = Append(log, y) /\ y \in wire
      BY <3>1, <3>2, <3>3 DEF Serve, server
    <3>5. x = y
      BY <1>2, <2>3, <3>4, AppendStores
    <3> QED
      BY <1>2, <2>1, <3>4, <3>5 DEF FatalInv
  <2> QED
    BY <2>2, <2>3
<1>3. StreamInv /\ FatalInv /\ [Next]_vars => [Final]_vars
  BY <1>2
<1>4. StreamInv /\ FatalInv /\ [Next]_vars => FatalInv'
  BY FatalKept
<1> QED
  BY <1>1, <1>3, <1>4, StreamIsSound, PTL DEF Spec, FatalIsFinal
==============================================================================

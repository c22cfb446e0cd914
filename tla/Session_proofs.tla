--------------------------- MODULE Session_proofs ---------------------------
(***************************************************************************)
(* What holds of the pairing and of the authentication for any number of   *)
(* secrets, sessions and records under way: only an erase separates the    *)
(* two devices; a login that fails is answered by a delay and never by a   *)
(* pairing window; the ends of a session agree and count in step; and what *)
(* the drain takes off the log the Flipper accepts.                        *)
(*                                                                         *)
(* The handlers of the model are operators on a record of what they may    *)
(* change.  The proof says first what a handler does at most (Calm, Quiet  *)
(* and Ended on the ESP32, Told and Saved on the Flipper), handler by      *)
(* handler and composed as the handlers are, and then that a step which    *)
(* does no more than that keeps the invariant SessionInv.  The second half *)
(* does the same for the session: Carries, Closes, Opens and Leaves are    *)
(* what a handler of the ESP32 may do to the books of the drain (BooksInv) *)
(* and to a dialogue, Posts and what goes with it what one of the Flipper  *)
(* may.  A dialogue goes through four states, from hello on its way to     *)
(* client_auth taken (DialogueInv), and each step of either side, of the   *)
(* link or of a failure takes it from one to the next, or ends it.         *)
(***************************************************************************)
EXTENDS Session, TLAPS, SequenceTheorems, FiniteSets

-----------------------------------------------------------------------------
(* What a message, the board and a handler of the board that is running     *)
(* look like.                                                               *)

Ids == 0 .. NSecrets + NSessions
Sids == 0 .. NSessions
Counts == 0 .. SequenceMax
Nums == 0 .. SequenceMax - 1
Fails == 0 .. MaxFails

\* The kinds of numbers there are.
LEMMA Kinds ==
  /\ 0 \in Secret /\ 1 \in Secret /\ 0 \in Ids /\ 0 \in Sids /\ 0 \in Counts /\ 1 \in Counts /\ 0 \in Nums /\ 0 \in Fails
  /\ Secret \subseteq Ids /\ Sids \subseteq Ids
  /\ Secret \subseteq Nat /\ Sids \subseteq Nat /\ Counts \subseteq Nat /\ Nums \subseteq Nat /\ Fails \subseteq Nat
  /\ \A n \in Counts : ~ n >= SequenceMax => n \in Nums /\ n + 1 \in Counts
  /\ \A n \in Fails : n < MaxFails => n + 1 \in Fails
PROOF BY SessionAssumption DEF Secret, Ids, Sids, Counts, Nums, Fails

Sent == {"capability", "status", "batch"}
Rec ==
  {m \in [type : Types, id : Ids, secret : Secret, seq : Nums] :
     /\ m.type = "hello" => m.id \in Sids
     /\ m.type = "pair_init" => m.id \in Secret}
Conns == {"none", "connecting", "up"}
States == {"idle", "init_sent", "confirm_sent", "complete_sent", "hello_sent", "authenticated"}
Dones == {"none", "complete", "disconnect", "authenticated", "drained"}
Reasons == {"normal", "auth_failed", "unknown_board"}
BoardState ==
  [nvs : Secret, mode : {"runtime", "pairing"}, window : BOOLEAN, conn : Conns, st : States,
   attempt : Secret, sid : Sids, key : Secret, seq : Counts, rx : Counts, waiting : BOOLEAN, done : Dones,
   pending : Seq(Sent), inFlight : BOOLEAN, backlog : Int, reason : Reasons,
   fails : Fails, delay : Fails]
Run == [b : BoardState, toF : Seq(Rec), toB : Seq(Rec), closing : BOOLEAN, busy : BOOLEAN]

\* No pair_complete is written.
NoNewComplete(s, t) == \A m \in Range(t) : m \in Range(s) \/ m.type # "pair_complete"

\* The same in what the invariant speaks of.
SameStanding(b, c) ==
  /\ c.nvs = b.nvs /\ c.mode = b.mode /\ c.window = b.window /\ c.conn = b.conn
  /\ c.st = b.st /\ c.reason = b.reason /\ c.fails = b.fails /\ c.key = b.key
  /\ c.done = b.done

\* A handler that neither takes a step of a dialogue nor gives a verdict on it.
Calm(h, r) ==
  /\ r.b.nvs = h.b.nvs /\ r.b.mode = h.b.mode /\ r.b.window = h.b.window
  /\ r.b.conn = h.b.conn /\ r.b.st = h.b.st
  /\ r.b.reason = h.b.reason /\ r.b.fails = h.b.fails /\ r.b.key = h.b.key
  /\ r.b.done \in {h.b.done, "none", "disconnect", "drained"}
  /\ r.toB = h.toB
  /\ link = "down" => r.toF = h.toF /\ r.closing \in {h.closing, FALSE}
  /\ NoNewComplete(h.toF, r.toF)

-----------------------------------------------------------------------------
(* Handlers of the ESP32.                                                  *)

\* What appending does to the records of a queue.
LEMMA AppendIs ==
  ASSUME NEW s \in Seq(Rec), NEW e \in Rec
  PROVE  Append(s, e) \in Seq(Rec) /\ Range(Append(s, e)) = Range(s) \cup {e}
PROOF
<1>1. Append(s, e) \in Seq(Rec) BY AppendProperties
<1>2. DOMAIN Append(s, e) = 1 .. Len(s) + 1 /\ DOMAIN s = 1 .. Len(s) /\ Len(s) \in Nat
  BY AppendProperties, LenProperties
<1>3. \A i \in 1 .. Len(s) : Append(s, e)[i] = s[i]
  BY AppendProperties
<1>4. Append(s, e)[Len(s) + 1] = e
  BY AppendProperties
<1> HIDE DEF Rec
<1>5. Range(Append(s, e)) = Range(s) \cup {e}
  BY <1>2, <1>3, <1>4 DEF Range
<1> QED BY <1>1, <1>5

\* What taking the first record does.
LEMMA TailIs ==
  ASSUME NEW s \in Seq(Rec), s # << >>
  PROVE  /\ Tail(s) \in Seq(Rec) /\ Range(Tail(s)) \subseteq Range(s)
         /\ Head(s) \in Rec /\ Head(s) \in Range(s)
PROOF
<1>1. Tail(s) \in Seq(Rec) /\ Head(s) \in Rec /\ Head(s) = s[1]
  BY HeadTailProperties
<1>2. Len(Tail(s)) = Len(s) - 1 /\ Len(s) \in Nat /\ Len(s) >= 1
      /\ \A i \in 1 .. Len(Tail(s)) : Tail(s)[i] = s[i + 1]
  BY HeadTailProperties, LenProperties, EmptySeq
<1>3. DOMAIN Tail(s) = 1 .. Len(Tail(s)) /\ DOMAIN s = 1 .. Len(s)
  BY <1>1, LenProperties
<1>4. Range(Tail(s)) \subseteq Range(s)
  BY <1>2, <1>3 DEF Range
<1>5. Head(s) \in Range(s)
  BY <1>1, <1>2, <1>3 DEF Range
<1> QED BY <1>1, <1>4, <1>5

\* A record sent is the last of the queue, unless the link is gone.
LEMMA SendIs ==
  ASSUME NEW h \in Run, NEW m \in Rec, NEW done \in Dones
  PROVE  /\ Send(h, m, done) \in Run
         /\ Send(h, m, done).b = [h.b EXCEPT !.done = done]
         /\ Send(h, m, done).toB = h.toB /\ Send(h, m, done).closing = h.closing
         /\ link = "down" => Send(h, m, done).toF = h.toF
         /\ Range(Send(h, m, done).toF) \subseteq Range(h.toF) \cup {m}
PROOF
<1> DEFINE t == IF h.closing \/ link = "down" THEN h.toF ELSE Append(h.toF, m)
           b == [h.b EXCEPT !.done = done]
<1>1. b \in BoardState
  BY DEF Run, BoardState
<1>2. t \in Seq(Rec) /\ (link = "down" => t = h.toF) /\ Range(t) \subseteq Range(h.toF) \cup {m}
  BY AppendIs DEF Run
<1>a. h = [b |-> h.b, toF |-> h.toF, toB |-> h.toB, closing |-> h.closing, busy |-> h.busy]
  BY DEF Run
<1>b. Send(h, m, done) = [[h EXCEPT !.b = b] EXCEPT !.toF = t]
  BY <1>a DEF Send
<1>3. Send(h, m, done) = [b |-> b, toF |-> t, toB |-> h.toB, closing |-> h.closing, busy |-> h.busy]
  <2> HIDE DEF b, t
  <2> QED BY <1>a, <1>b
<1>4. h.toB \in Seq(Rec) /\ h.closing \in BOOLEAN /\ h.busy \in BOOLEAN
  BY DEF Run
<1> HIDE DEF t, b
<1>5. Send(h, m, done) \in Run
  BY <1>1, <1>2, <1>3, <1>4 DEF Run
<1>6. Send(h, m, done).b = b /\ Send(h, m, done).toF = t /\ Send(h, m, done).toB = h.toB
      /\ Send(h, m, done).closing = h.closing
  BY <1>3
<1> QED BY <1>1, <1>2, <1>5, <1>6 DEF b

\* A handler with new books for the board.
LEMMA WithBoard ==
  ASSUME NEW h \in Run, NEW b \in BoardState
  PROVE  LET r == [h EXCEPT !.b = b]
         IN /\ r \in Run /\ r.b = b /\ r.toF = h.toF /\ r.toB = h.toB
            /\ r.closing = h.closing /\ r.busy = h.busy
PROOF
<1> HIDE DEF BoardState, Rec
<1> QED BY DEF Run

\* Nothing done is calm.
LEMMA CalmIsReflexive ==
  ASSUME NEW h \in Run
  PROVE  Calm(h, h)
PROOF BY DEF Calm, NoNewComplete

\* One calm handler after the other is calm.
LEMMA CalmIsTransitive ==
  ASSUME NEW h, NEW r, NEW q, h \in Run, Calm(h, r), Calm(r, q)
  PROVE  Calm(h, q)
PROOF
<1>1. q.b.done \in {h.b.done, "none", "disconnect", "drained"}
  BY DEF Calm
<1>2. link = "down" => q.toF = h.toF /\ q.closing \in {h.closing, FALSE}
  BY DEF Calm
<1>3. NoNewComplete(h.toF, q.toF)
  BY DEF Calm, NoNewComplete
<1> QED BY <1>1, <1>2, <1>3 DEF Calm

\* No record but pair_complete says anything of a secret that is stored.
LEMMA SendIsCalm ==
  ASSUME NEW h \in Run, NEW m \in Rec, m.type # "pair_complete",
         NEW done \in {"none", "disconnect", "drained"}
  PROVE  Send(h, m, done) \in Run /\ Calm(h, Send(h, m, done))
PROOF
<1> DEFINE r == Send(h, m, done)
<1>1. /\ r \in Run /\ r.b = [h.b EXCEPT !.done = done]
      /\ r.toB = h.toB /\ r.closing = h.closing
      /\ link = "down" => r.toF = h.toF
      /\ Range(r.toF) \subseteq Range(h.toF) \cup {m}
  <2>1. done \in Dones BY DEF Dones
  <2> QED BY <2>1, SendIs
<1> HIDE DEF r
<1>2. h.b \in BoardState
  BY DEF Run
<1>3. NoNewComplete(h.toF, r.toF)
  BY <1>1 DEF NoNewComplete
<1>4. /\ r.b.nvs = h.b.nvs /\ r.b.mode = h.b.mode /\ r.b.window = h.b.window
      /\ r.b.conn = h.b.conn /\ r.b.st = h.b.st
      /\ r.b.reason = h.b.reason /\ r.b.fails = h.b.fails /\ r.b.key = h.b.key
      /\ r.b.done = done
  BY <1>1, <1>2 DEF BoardState
<1>5. Calm(h, r)
  BY <1>1, <1>3, <1>4 DEF Calm
<1> QED BY <1>1, <1>5 DEF r

\* A change of the board's own books disturbs nothing.
LEMMA BooksAreCalm ==
  ASSUME NEW h \in Run, NEW b \in BoardState,
         SameStanding(h.b, b)
  PROVE  [h EXCEPT !.b = b] \in Run /\ Calm(h, [h EXCEPT !.b = b])
PROOF
<1> DEFINE r == [h EXCEPT !.b = b]
<1>1. /\ r \in Run /\ r.b = b /\ r.toF = h.toF /\ r.toB = h.toB /\ r.closing = h.closing
  BY WithBoard
<1> HIDE DEF r
<1>2. Calm(h, r)
  BY <1>1 DEF Calm, NoNewComplete, SameStanding
<1> QED BY <1>1, <1>2 DEF r

\* Asking for the end of the connection.
LEMMA TerminateIsCalm ==
  ASSUME NEW h \in Run
  PROVE  Terminate(h) \in Run /\ Calm(h, Terminate(h)) /\ Terminate(h).b = h.b
         /\ Terminate(h).toF = h.toF /\ Terminate(h).toB = h.toB
PROOF
<1> DEFINE r == Terminate(h)
<1>1. r \in Run /\ r.b = h.b /\ r.toF = h.toF /\ r.toB = h.toB /\ r.closing = (link = "up")
  <2> HIDE DEF BoardState, Rec
  <2> QED BY DEF Terminate, Run
<1> HIDE DEF r
<1>2. Calm(h, r)
  BY <1>1 DEF Calm, NoNewComplete
<1> QED BY <1>1, <1>2 DEF r

\* A record as it is built.
LEMMA MsgIs ==
  ASSUME NEW type \in Types, NEW id \in Ids, NEW secret \in Secret, NEW seq \in Nums,
         type = "hello" => id \in Sids, type = "pair_init" => id \in Secret
  PROVE  /\ Msg(type, id, secret, seq) \in Rec
         /\ Msg(type, id, secret, seq).type = type /\ Msg(type, id, secret, seq).id = id
         /\ Msg(type, id, secret, seq).secret = secret /\ Msg(type, id, secret, seq).seq = seq
PROOF BY DEF Msg, Rec

\* A ceremony given up.
LEMMA FailPairingIsCalm ==
  ASSUME NEW h \in Run
  PROVE  FailPairing(h) \in Run /\ Calm(h, FailPairing(h))
PROOF
<1> DEFINE b == [h.b EXCEPT !.attempt = 0]
           a == [h EXCEPT !.b = b]
           m == Msg("pair_error", 0, 0, 0)
<1>1. b \in BoardState /\ h.b \in BoardState
  BY Kinds DEF Run, BoardState
<1>2. a \in Run /\ Calm(h, a)
  <2>1. SameStanding(h.b, b)
    BY <1>1 DEF BoardState, SameStanding
  <2> HIDE DEF b
  <2> QED BY <1>1, <2>1, BooksAreCalm
<1>3. [h EXCEPT !.b.attempt = 0] = a
  BY DEF Run
<1>4. m \in Rec /\ m.type = "pair_error"
  BY MsgIs, Kinds DEF Types
<1>5. FailPairing(h) = Send(a, m, "disconnect")
  BY <1>3 DEF FailPairing
<1> HIDE DEF a, b, m
<1>6. Send(a, m, "disconnect") \in Run /\ Calm(a, Send(a, m, "disconnect"))
  BY <1>2, <1>4, SendIsCalm
<1> QED BY <1>2, <1>5, <1>6, CalmIsTransitive

\* The next write of the queue.
LEMMA StartNextIsCalm ==
  ASSUME NEW h \in Run
  PROVE  StartNext(h) \in Run /\ Calm(h, StartNext(h))
PROOF
<1>1. CASE h.b.pending = << >>
  BY <1>1, CalmIsReflexive DEF StartNext
<1>2. CASE h.b.pending # << >> /\ h.b.seq >= SequenceMax
  BY <1>2, TerminateIsCalm DEF StartNext
<1>3. CASE h.b.pending # << >> /\ ~ h.b.seq >= SequenceMax
  <2> DEFINE rest == Tail(h.b.pending)
             type == Head(h.b.pending)
             next == h.b.seq + 1
             b == [h.b EXCEPT !.pending = rest, !.seq = next]
             a == [h EXCEPT !.b = b]
             m == Msg(type, h.b.sid, h.b.key, h.b.seq)
             done == IF type = "batch" THEN "drained" ELSE "none"
  <2>1. h.b \in BoardState
    BY DEF Run
  <2>2. h.b.pending \in Seq(Sent) /\ h.b.seq \in Counts /\ h.b.sid \in Ids /\ h.b.key \in Secret
    BY <2>1, Kinds DEF BoardState
  <2>a. h.b.seq \in Nums /\ next \in Counts
    BY <1>3, <2>2, Kinds
  <2>3. rest \in Seq(Sent) /\ type \in Sent /\ next \in Counts
    BY <2>2, <2>a, <1>3, HeadTailProperties
  <2>6. [h EXCEPT !.b.pending = Tail(@), !.b.seq = @ + 1] = a
    BY DEF Run
  <2>8. StartNext(h) = Send(a, m, done)
    BY <1>3, <2>6 DEF StartNext
  <2> HIDE DEF rest, type, next
  <2>4. b \in BoardState
    BY <2>1, <2>3 DEF BoardState
  <2>5. a \in Run /\ Calm(h, a)
    <3>1. SameStanding(h.b, b)
      BY <2>1 DEF BoardState, SameStanding
    <3> HIDE DEF b
    <3> QED BY <2>4, <3>1, BooksAreCalm
  <2>7. m \in Rec /\ m.type # "pair_complete"
    <3>1. type \in Types /\ type \notin {"pair_complete", "hello", "pair_init"}
      BY <2>3 DEF Sent, Types
    <3>2. Msg(type, h.b.sid, h.b.key, h.b.seq).type = type
      BY DEF Msg
    <3>3. Msg(type, h.b.sid, h.b.key, h.b.seq) \in Rec
      BY <3>1, <2>2, <2>a DEF Msg, Rec
    <3> QED BY <3>1, <3>2, <3>3
  <2>9. done \in {"none", "disconnect", "drained"}
    OBVIOUS
  <2> HIDE DEF a, b, m, done
  <2>10. Send(a, m, done) \in Run /\ Calm(a, Send(a, m, done))
    BY <2>5, <2>7, <2>9, SendIsCalm
  <2> QED BY <2>5, <2>8, <2>10, CalmIsTransitive
<1> QED BY <1>1, <1>2, <1>3

\* A record of a session.
LEMMA SendProtectedIsCalm ==
  ASSUME NEW h \in Run, NEW type \in Sent
  PROVE  SendProtected(h, type) \in Run /\ Calm(h, SendProtected(h, type))
PROOF
<1> DEFINE b == [h.b EXCEPT !.pending = Append(@, type)]
           a == [h EXCEPT !.b = b]
<1>1. h.b \in BoardState
  BY DEF Run
<1>2. Append(h.b.pending, type) \in Seq(Sent)
  BY <1>1, AppendProperties DEF BoardState
<1>3. b \in BoardState
  BY <1>1, <1>2 DEF BoardState
<1>4. a \in Run /\ Calm(h, a)
  <2>1. SameStanding(h.b, b)
    BY <1>1 DEF BoardState, SameStanding
  <2> HIDE DEF b
  <2> QED BY <1>3, <2>1, BooksAreCalm
<1>5. [h EXCEPT !.b.pending = Append(@, type)] = a
  BY DEF Run
<1>6. SendProtected(h, type) = IF h.busy \/ h.b.pending # << >> THEN a ELSE StartNext(a)
  BY <1>5 DEF SendProtected
<1> HIDE DEF a, b
<1>7. StartNext(a) \in Run /\ Calm(a, StartNext(a))
  BY <1>4, StartNextIsCalm
<1>8. Calm(h, StartNext(a))
  BY <1>4, <1>7, CalmIsTransitive
<1> QED BY <1>4, <1>6, <1>7, <1>8

\* The drain, set going.
LEMMA KickSendIsCalm ==
  ASSUME NEW h \in Run
  PROVE  KickSend(h) \in Run /\ Calm(h, KickSend(h))
PROOF
<1> DEFINE b == [h.b EXCEPT !.inFlight = TRUE]
           a == [h EXCEPT !.b = b]
<1>1. h.b \in BoardState
  BY DEF Run
<1>2. b \in BoardState
  BY <1>1 DEF BoardState
<1>3. a \in Run /\ Calm(h, a)
  <2>1. SameStanding(h.b, b)
    BY <1>1 DEF BoardState, SameStanding
  <2> HIDE DEF b
  <2> QED BY <1>2, <2>1, BooksAreCalm
<1>4. [h EXCEPT !.b.inFlight = TRUE] = a
  BY DEF Run
<1>5. KickSend(h) = IF h.b.inFlight \/ h.b.backlog = 0 THEN h ELSE SendProtected(a, "batch")
  BY <1>4 DEF KickSend
<1> HIDE DEF a, b
<1>6. SendProtected(a, "batch") \in Run /\ Calm(a, SendProtected(a, "batch"))
  BY <1>3, SendProtectedIsCalm DEF Sent
<1>7. Calm(h, SendProtected(a, "batch"))
  BY <1>3, <1>6, CalmIsTransitive
<1> QED BY <1>5, <1>6, <1>7, CalmIsReflexive

\* The next batch of the drain.
LEMMA NextBatchIsCalm ==
  ASSUME NEW h \in Run
  PROVE  NextBatch(h) \in Run /\ Calm(h, NextBatch(h))
PROOF
<1> DEFINE left == h.b.backlog - 1
           b == [h.b EXCEPT !.inFlight = FALSE, !.backlog = left]
           a == [h EXCEPT !.b = b]
<1>1. h.b \in BoardState
  BY DEF Run
<1>4. [h EXCEPT !.b.inFlight = FALSE, !.b.backlog = @ - 1] = a
  BY DEF Run
<1>5. NextBatch(h) = KickSend(a)
  BY <1>4 DEF NextBatch
<1>0. left \in Int
  BY <1>1 DEF BoardState
<1> HIDE DEF left
<1>2. b \in BoardState
  BY <1>0, <1>1 DEF BoardState
<1>3. a \in Run /\ Calm(h, a)
  <2>1. SameStanding(h.b, b)
    BY <1>1 DEF BoardState, SameStanding
  <2> HIDE DEF b
  <2> QED BY <1>2, <2>1, BooksAreCalm
<1> HIDE DEF a, b
<1>6. KickSend(a) \in Run /\ Calm(a, KickSend(a))
  BY <1>3, KickSendIsCalm
<1> QED BY <1>3, <1>5, <1>6, CalmIsTransitive

\* A record received in a session.
LEMMA ProtectedRecordIsCalm ==
  ASSUME NEW h \in Run, NEW m \in Rec
  PROVE  ProtectedRecord(h, m) \in Run /\ Calm(h, ProtectedRecord(h, m))
PROOF
<1> DEFINE next == h.b.rx + 1
           b == [h.b EXCEPT !.rx = next]
           a == [h EXCEPT !.b = b]
           type == IF m.type = "query" THEN "capability" ELSE "status"
<1>1. h.b \in BoardState
  BY DEF Run
<1>4. [h EXCEPT !.b.rx = @ + 1] = a
  BY DEF Run
<1>a. CASE ~ Authentic(m, h.b.sid, h.b.key, h.b.rx)
  BY <1>a, TerminateIsCalm DEF ProtectedRecord
<1>b. CASE Authentic(m, h.b.sid, h.b.key, h.b.rx)
  <2>0. next \in Counts
    <3>1. h.b.rx \in Counts /\ h.b.rx = m.seq /\ m.seq < SequenceMax
      BY <1>1, <1>b DEF BoardState, Authentic
    <3> QED BY <3>1, Kinds, SessionAssumption DEF Counts
  <2> HIDE DEF next
  <2>2. b \in BoardState
    BY <2>0, <1>1 DEF BoardState
  <2>3. a \in Run /\ Calm(h, a)
    <3>1. SameStanding(h.b, b)
      BY <1>1 DEF BoardState, SameStanding
    <3> HIDE DEF b
    <3> QED BY <2>2, <3>1, BooksAreCalm
  <2>5. type \in Sent
    BY DEF Sent
  <2>6. ProtectedRecord(h, m) = SendProtected(a, type)
    BY <1>4, <1>b DEF ProtectedRecord
  <2> HIDE DEF a, b, type
  <2>7. SendProtected(a, type) \in Run /\ Calm(a, SendProtected(a, type))
    BY <2>3, <2>5, SendProtectedIsCalm
  <2>8. Calm(h, SendProtected(a, type))
    BY <2>3, <2>7, CalmIsTransitive
  <2> QED BY <2>6, <2>7, <2>8
<1> QED BY <1>a, <1>b

-----------------------------------------------------------------------------
(* What a turn of the board within a connection may do: nothing to its     *)
(* record, its mode or its window, at most one step of the dialogue, and a *)
(* verdict on the authentication only for a record that gives one.         *)

Plain == {"none", "disconnect", "drained"}

Turn(b, c, m) ==
  /\ c.nvs = b.nvs /\ c.mode = b.mode /\ c.window = b.window
  /\ c.conn = b.conn \/ (b.conn = "connecting" /\ c.conn = "up" /\ link = "up")
  /\ \/ c.st = b.st /\ c.done \in Plain \cup {b.done}
     \/ /\ b.mode = "runtime" /\ c.done # "complete"
        /\ c.st = b.st \/ (c.st \in {"hello_sent", "authenticated"} /\ c.conn = "up")
        /\ c.done = "authenticated" => c.st = "hello_sent"
     \/ /\ b.mode = "pairing" /\ c.conn = "up"
        /\ b.st = "init_sent" \/ (b.st = "idle" /\ b.window)
        /\ c.st \in {"init_sent", "confirm_sent"} /\ c.done \in Plain \cup {"complete"}
        /\ c.done = "complete" => c.st = "confirm_sent"
  /\ \/ c.reason = b.reason /\ c.fails = b.fails
     \/ b.mode = "runtime" /\ c.reason = "auth_failed" /\ c.fails >= b.fails /\ c.fails > 0
     \/ /\ b.mode = "runtime" /\ c.reason = "unknown_board" /\ c.fails = b.fails
        /\ m.type = "unknown_board"
     \/ /\ b.mode = "runtime" /\ c.reason = b.reason /\ c.fails = 0 /\ c.key = b.nvs
        /\ m.type = "hello_ack" /\ m.secret = b.nvs

Quiet(h, r, m) ==
  /\ r \in Run /\ Turn(h.b, r.b, m)
  /\ r.toB = h.toB
  /\ link = "down" => r.toF = h.toF /\ r.closing \in {h.closing, FALSE}
  /\ NoNewComplete(h.toF, r.toF)

\* A calm handler is a quiet one.
LEMMA CalmIsQuiet ==
  ASSUME NEW h \in Run, NEW r \in Run, NEW m, Calm(h, r)
  PROVE  Quiet(h, r, m)
PROOF BY DEF Calm, Quiet, Turn, Plain

\* So is a quiet handler with a calm end ...
LEMMA QuietThenCalm ==
  ASSUME NEW h \in Run, NEW r \in Run, NEW q \in Run, NEW m, Quiet(h, r, m), Calm(r, q)
  PROVE  Quiet(h, q, m)
PROOF
<1>1. /\ q.b.nvs = r.b.nvs /\ q.b.mode = r.b.mode /\ q.b.window = r.b.window
      /\ q.b.conn = r.b.conn /\ q.b.st = r.b.st
      /\ q.b.reason = r.b.reason /\ q.b.fails = r.b.fails /\ q.b.key = r.b.key
      /\ q.b.done \in {r.b.done, "none", "disconnect", "drained"}
  BY DEF Calm
<1>2. Turn(h.b, r.b, m)
  BY DEF Quiet
<1>3. Turn(h.b, q.b, m)
  BY <1>1, <1>2 DEF Turn, Plain
<1>4. NoNewComplete(h.toF, q.toF)
  BY DEF Calm, Quiet, NoNewComplete
<1>5. q.toB = h.toB /\ (link = "down" => q.toF = h.toF /\ q.closing \in {h.closing, FALSE})
  BY DEF Calm, Quiet
<1> QED BY <1>3, <1>4, <1>5 DEF Quiet

\* A turn that sends one record behind a change of the books.
LEMMA SendIsQuiet ==
  ASSUME NEW h \in Run, NEW b \in BoardState, NEW x \in Rec, x.type # "pair_complete",
         NEW done \in Dones, NEW m, Turn(h.b, [b EXCEPT !.done = done], m)
  PROVE  Quiet(h, Send([h EXCEPT !.b = b], x, done), m)
PROOF
<1> DEFINE a == [h EXCEPT !.b = b]
           r == Send(a, x, done)
<1>1. a \in Run /\ a.b = b /\ a.toF = h.toF /\ a.toB = h.toB /\ a.closing = h.closing
  BY WithBoard
<1> HIDE DEF a
<1>2. /\ r \in Run /\ r.b = [a.b EXCEPT !.done = done]
      /\ r.toB = a.toB /\ r.closing = a.closing
      /\ link = "down" => r.toF = a.toF
      /\ Range(r.toF) \subseteq Range(a.toF) \cup {x}
  BY <1>1, SendIs
<1> HIDE DEF r
<1>3. NoNewComplete(h.toF, r.toF)
  BY <1>1, <1>2 DEF NoNewComplete
<1>4. Turn(h.b, r.b, m)
  BY <1>1, <1>2
<1>5. Quiet(h, r, m)
  BY <1>1, <1>2, <1>3, <1>4 DEF Quiet
<1> QED BY <1>5 DEF r, a

\* The answer to pair_init.
LEMMA HandlePairReplyIsQuiet ==
  ASSUME NEW h \in Run, h.b.mode = "pairing", h.b.conn = "up", h.b.st = "init_sent",
         NEW m \in Rec
  PROVE  Quiet(h, HandlePairReply(h, m), m)
PROOF
<1> DEFINE b == [h.b EXCEPT !.waiting = FALSE]
           c == [h.b EXCEPT !.waiting = FALSE, !.st = "confirm_sent"]
           a == [h EXCEPT !.b = b]
           x == Msg("pair_confirm", m.id, m.id, 0)
<1>1. h.b \in BoardState
  BY DEF Run
<1>2. b \in BoardState /\ SameStanding(h.b, b) /\ b.attempt = h.b.attempt
  BY <1>1 DEF BoardState, SameStanding
<1>3. a \in Run /\ Calm(h, a) /\ a.b = b
  <2> HIDE DEF b
  <2> QED BY <1>2, BooksAreCalm, WithBoard
<1>4. [h EXCEPT !.b.waiting = FALSE] = a
  BY DEF Run
<1>5. [a EXCEPT !.b.st = "confirm_sent"] = [h EXCEPT !.b = c]
  BY <1>1 DEF Run, BoardState
<1>6. HandlePairReply(h, m) = IF m.id # a.b.attempt THEN FailPairing(a)
                              ELSE Send([h EXCEPT !.b = c], x, "complete")
  BY <1>4, <1>5 DEF HandlePairReply
<1>7. m.id = h.b.attempt => x \in Rec /\ x.type = "pair_confirm"
  BY <1>1, Kinds DEF Msg, Rec, Types, BoardState
<1>8. c \in BoardState
  BY <1>1 DEF BoardState, States
<1>9. Turn(h.b, [c EXCEPT !.done = "complete"], m)
  BY <1>1 DEF BoardState, Turn, Plain
<1>a. a.b.attempt = h.b.attempt
  BY <1>2, <1>3
<1> HIDE DEF b, c, a, x
<1>10. m.id = h.b.attempt => Quiet(h, Send([h EXCEPT !.b = c], x, "complete"), m)
  <2>1. "complete" \in Dones
    BY DEF Dones
  <2> QED BY <2>1, <1>7, <1>8, <1>9, SendIsQuiet
<1>11. Quiet(h, FailPairing(a), m)
  BY <1>3, FailPairingIsCalm, CalmIsTransitive, CalmIsQuiet
<1> QED BY <1>6, <1>a, <1>10, <1>11

\* A record of the ceremony.
LEMMA PairingRecordIsQuiet ==
  ASSUME NEW h \in Run, h.b.mode = "pairing", h.b.st # "idle" => h.b.conn = "up",
         NEW m \in Rec
  PROVE  Quiet(h, PairingRecord(h, m), m)
PROOF
<1>1. Quiet(h, FailPairing(h), m)
  BY FailPairingIsCalm, CalmIsQuiet
<1>2. CASE h.b.st # "init_sent"
  BY <1>1, <1>2 DEF PairingRecord
<1>3. CASE h.b.st = "init_sent" /\ m.type = "pair_reply"
  BY <1>3, HandlePairReplyIsQuiet DEF PairingRecord
<1>4. CASE h.b.st = "init_sent" /\ m.type = "pair_error"
  <2> DEFINE b == [h.b EXCEPT !.attempt = 0]
             a == [h EXCEPT !.b = b]
  <2>1. h.b \in BoardState
    BY DEF Run
  <2>2. b \in BoardState /\ SameStanding(h.b, b)
    BY <2>1, Kinds DEF BoardState, SameStanding
  <2>3. [h EXCEPT !.b.attempt = 0] = a
    BY DEF Run
  <2>4. PairingRecord(h, m) = Terminate(a)
    BY <1>4, <2>3 DEF PairingRecord
  <2>5. a \in Run /\ Calm(h, a)
    <3> HIDE DEF b
    <3> QED BY <2>2, BooksAreCalm
  <2> HIDE DEF a
  <2>6. Terminate(a) \in Run /\ Calm(a, Terminate(a))
    BY <2>5, TerminateIsCalm
  <2> QED BY <2>4, <2>5, <2>6, CalmIsTransitive, CalmIsQuiet
<1>5. CASE h.b.st = "init_sent" /\ m.type # "pair_reply" /\ m.type # "pair_error"
  BY <1>1, <1>5 DEF PairingRecord
<1> QED BY <1>2, <1>3, <1>4, <1>5

\* A turn that ends by asking for the end of the connection.
LEMMA TerminateAfter ==
  ASSUME NEW h \in Run, NEW b \in BoardState, NEW m, Turn(h.b, b, m)
  PROVE  Quiet(h, Terminate([h EXCEPT !.b = b]), m)
PROOF
<1> DEFINE a == [h EXCEPT !.b = b]
<1>1. a \in Run /\ a.b = b /\ a.toF = h.toF /\ a.toB = h.toB /\ a.closing = h.closing
  BY WithBoard
<1> HIDE DEF a
<1>2. /\ Terminate(a) \in Run /\ Calm(a, Terminate(a)) /\ Terminate(a).b = a.b
      /\ Terminate(a).toF = a.toF /\ Terminate(a).toB = a.toB
  BY <1>1, TerminateIsCalm
<1>3. link = "down" => Terminate(a).closing \in {h.closing, FALSE}
  BY <1>1, <1>2 DEF Calm
<1>4. Quiet(h, Terminate(a), m)
  BY <1>1, <1>2, <1>3 DEF Quiet, NoNewComplete
<1> QED BY <1>4 DEF a

\* ... and one with a calm beginning.
LEMMA CalmThenQuiet ==
  ASSUME NEW h \in Run, NEW r \in Run, NEW q \in Run, NEW m, Calm(h, r), Quiet(r, q, m)
  PROVE  Quiet(h, q, m)
PROOF
<1>1. /\ r.b.nvs = h.b.nvs /\ r.b.mode = h.b.mode /\ r.b.window = h.b.window
      /\ r.b.conn = h.b.conn /\ r.b.st = h.b.st
      /\ r.b.reason = h.b.reason /\ r.b.fails = h.b.fails /\ r.b.key = h.b.key
      /\ r.b.done \in {h.b.done, "none", "disconnect", "drained"}
  BY DEF Calm
<1>2. Turn(r.b, q.b, m)
  BY DEF Quiet
<1>3. Turn(h.b, q.b, m)
  BY <1>1, <1>2 DEF Turn, Plain
<1>4. NoNewComplete(h.toF, q.toF)
  BY DEF Calm, Quiet, NoNewComplete
<1>5. q.toB = h.toB /\ (link = "down" => q.toF = h.toF /\ q.closing \in {h.closing, FALSE})
  BY DEF Calm, Quiet
<1> QED BY <1>3, <1>4, <1>5 DEF Quiet

\* A proof that does not match.
LEMMA FailAuthIsQuiet ==
  ASSUME NEW h \in Run, h.b.mode = "runtime", NEW m
  PROVE  Quiet(h, FailAuth(h), m)
PROOF
<1> DEFINE n == IF h.b.fails < MaxFails THEN h.b.fails + 1 ELSE h.b.fails
           b == [h.b EXCEPT !.fails = n, !.waiting = FALSE, !.reason = "auth_failed", !.key = 0]
<1>1. h.b \in BoardState
  BY DEF Run
<1>a. h.b.fails \in Fails
  BY <1>1 DEF BoardState
<1>2. n \in Fails /\ n > 0 /\ n >= h.b.fails
  BY <1>a, SessionAssumption DEF Fails
<1>3. FailAuth(h) = Terminate([h EXCEPT !.b = b])
  BY DEF FailAuth, Run
<1> HIDE DEF n
<1>4. b \in BoardState
  BY <1>1, <1>2, Kinds DEF BoardState, Reasons
<1>5. Turn(h.b, b, m)
  BY <1>1, <1>2 DEF BoardState, Turn
<1> HIDE DEF b
<1> QED BY <1>3, <1>4, <1>5, TerminateAfter

\* The Flipper does not know the board.
LEMMA UnknownBoardIsQuiet ==
  ASSUME NEW h \in Run, h.b.mode = "runtime", NEW m, m.type = "unknown_board"
  PROVE  Quiet(h, UnknownBoard(h), m)
PROOF
<1> DEFINE b == [h.b EXCEPT !.waiting = FALSE, !.reason = "unknown_board", !.key = 0]
<1>1. h.b \in BoardState
  BY DEF Run
<1>2. UnknownBoard(h) = Terminate([h EXCEPT !.b = b])
  BY DEF UnknownBoard, Run
<1>3. b \in BoardState
  BY <1>1, Kinds DEF BoardState, Reasons
<1>4. Turn(h.b, b, m)
  BY <1>1 DEF BoardState, Turn
<1> HIDE DEF b
<1> QED BY <1>2, <1>3, <1>4, TerminateAfter

\* The answer to hello.
LEMMA HandleHelloAckIsQuiet ==
  ASSUME NEW h \in Run, h.b.mode = "runtime", h.b.st = "hello_sent",
         NEW m \in Rec, m.type = "hello_ack"
  PROVE  Quiet(h, HandleHelloAck(h, m), m)
PROOF
<1> DEFINE b == [h.b EXCEPT !.waiting = FALSE]
           a == [h EXCEPT !.b = b]
           c == [h.b EXCEPT !.waiting = FALSE, !.fails = 0, !.key = h.b.nvs]
           x == Msg("client_auth", h.b.sid, h.b.nvs, 0)
<1>1. h.b \in BoardState
  BY DEF Run
<1>2. [h EXCEPT !.b.waiting = FALSE] = a
  BY DEF Run
<1>3. HandleHelloAck(h, m) = IF m.secret # h.b.nvs THEN FailAuth(a)
                             ELSE Send([h EXCEPT !.b = c], x, "authenticated")
  BY <1>1, <1>2 DEF HandleHelloAck, Run, BoardState
<1>4. CASE m.secret # h.b.nvs
  <2>1. b \in BoardState /\ SameStanding(h.b, b)
    BY <1>1 DEF BoardState, SameStanding
  <2>2. a \in Run /\ a.b = b /\ Calm(h, a)
    <3> HIDE DEF b
    <3> QED BY <2>1, WithBoard, BooksAreCalm
  <2>3. a.b.mode = "runtime"
    BY <2>1, <2>2 DEF SameStanding
  <2> HIDE DEF a, b
  <2>4. Quiet(a, FailAuth(a), m)
    BY <2>2, <2>3, FailAuthIsQuiet
  <2>5. FailAuth(a) \in Run
    BY <2>4 DEF Quiet
  <2> QED BY <1>3, <1>4, <2>2, <2>4, <2>5, CalmThenQuiet
<1>5. CASE m.secret = h.b.nvs
  <2>1. x \in Rec /\ x.type = "client_auth"
    BY <1>1, Kinds DEF Msg, Rec, Types, BoardState
  <2>2. c \in BoardState
    BY <1>1, Kinds DEF BoardState
  <2>3. Turn(h.b, [c EXCEPT !.done = "authenticated"], m)
    BY <1>1, <1>5 DEF BoardState, Turn, Plain
  <2>4. "authenticated" \in Dones
    BY DEF Dones
  <2> HIDE DEF c, x
  <2>5. Quiet(h, Send([h EXCEPT !.b = c], x, "authenticated"), m)
    BY <2>1, <2>2, <2>3, <2>4, SendIsQuiet
  <2> QED BY <1>3, <1>5, <2>5
<1> QED BY <1>4, <1>5

\* A record of the authentication.
LEMMA RuntimeRecordIsQuiet ==
  ASSUME NEW h \in Run, h.b.mode = "runtime", NEW m \in Rec
  PROVE  Quiet(h, RuntimeRecord(h, m), m)
PROOF
<1>1. CASE h.b.st = "authenticated"
  <2>1. ProtectedRecord(h, m) \in Run /\ Calm(h, ProtectedRecord(h, m))
    BY ProtectedRecordIsCalm
  <2>2. Quiet(h, ProtectedRecord(h, m), m)
    BY <2>1, CalmIsQuiet
  <2> QED BY <1>1, <2>2 DEF RuntimeRecord
<1>2. CASE h.b.st = "hello_sent" /\ m.type = "hello_ack" /\ m.id = h.b.sid
  BY <1>2, HandleHelloAckIsQuiet DEF RuntimeRecord
<1>3. CASE h.b.st = "hello_sent" /\ m.type = "unknown_board"
  BY <1>3, UnknownBoardIsQuiet DEF RuntimeRecord
<1>4. CASE /\ h.b.st # "authenticated"
           /\ ~ (h.b.st = "hello_sent" /\ m.type = "hello_ack" /\ m.id = h.b.sid)
           /\ ~ (h.b.st = "hello_sent" /\ m.type = "unknown_board")
  BY <1>4, FailAuthIsQuiet DEF RuntimeRecord
<1> QED BY <1>1, <1>2, <1>3, <1>4

\* The new secret and the new session have a name.
FreshNames == FreshSecret \in Secret /\ FreshSession \in Sids

\* As long as there are names left, the new ones are in no other use.
LEMMA NamesAreFresh ==
  ASSUME NamesLeft
  PROVE  /\ FreshSecret \in 1 .. NSecrets /\ FreshSecret \notin SecretsInUse
         /\ FreshSession \in 1 .. NSessions /\ FreshSession \notin SessionsInUse
PROOF
<1>1. \E n \in 1 .. NSecrets : n \notin SecretsInUse
  BY DEF NamesLeft
<1>2. \E n \in 1 .. NSessions : n \notin SessionsInUse
  BY DEF NamesLeft
<1> HIDE DEF SecretsInUse, SessionsInUse
<1>3. FreshSecret \in 1 .. NSecrets /\ FreshSecret \notin SecretsInUse
  BY <1>1 DEF FreshSecret
<1>4. FreshSession \in 1 .. NSessions /\ FreshSession \notin SessionsInUse
  BY <1>2 DEF FreshSession
<1> QED BY <1>3, <1>4

\* The authentication begins.
LEMMA BeginAuthIsQuiet ==
  ASSUME NEW h \in Run, h.b.mode = "runtime", h.b.conn = "up", NEW m, FreshNames
  PROVE  Quiet(h, BeginAuth(h), m)
PROOF
<1> DEFINE n == FreshSession
           c == [h.b EXCEPT !.sid = n, !.st = "hello_sent", !.waiting = TRUE]
           x == Msg("hello", n, 0, 0)
<1>1. h.b \in BoardState /\ n \in Sids
  BY DEF Run, FreshNames
<1>2. BeginAuth(h) = Send([h EXCEPT !.b = c], x, "none")
  BY DEF BeginAuth, Run
<1> HIDE DEF n
<1>3. x \in Rec /\ x.type = "hello"
  BY <1>1, Kinds DEF Msg, Rec, Types
<1>4. c \in BoardState
  BY <1>1, Kinds DEF BoardState, States
<1>5. Turn(h.b, [c EXCEPT !.done = "none"], m)
  BY <1>1 DEF BoardState, Turn, Plain
<1>6. "none" \in Dones
  BY DEF Dones
<1> HIDE DEF c, x
<1> QED BY <1>2, <1>3, <1>4, <1>5, <1>6, SendIsQuiet

\* The ceremony begins.
LEMMA BeginPairingIsQuiet ==
  ASSUME NEW h \in Run, h.b.mode = "pairing", h.b.conn = "up", h.b.st = "idle", NEW m, FreshNames
  PROVE  Quiet(h, BeginPairing(h), m)
PROOF
<1> DEFINE n == FreshSecret
           c == [h.b EXCEPT !.attempt = n, !.st = "init_sent", !.waiting = TRUE]
           x == Msg("pair_init", n, 0, 0)
<1>1. h.b \in BoardState /\ n \in Secret
  BY DEF Run, FreshNames
<1>2. BeginPairing(h) = IF ~ h.b.window THEN FailPairing(h)
                        ELSE Send([h EXCEPT !.b = c], x, "none")
  BY DEF BeginPairing, Run
<1> HIDE DEF n
<1>3. CASE ~ h.b.window
  BY <1>2, <1>3, FailPairingIsCalm, CalmIsQuiet
<1>4. CASE h.b.window
  <2>3. x \in Rec /\ x.type = "pair_init"
    BY <1>1, Kinds DEF Msg, Rec, Types
  <2>4. c \in BoardState
    BY <1>1, Kinds DEF BoardState, States
  <2>5. Turn(h.b, [c EXCEPT !.done = "none"], m)
    BY <1>1, <1>4 DEF BoardState, Turn, Plain
  <2>6. "none" \in Dones
    BY DEF Dones
  <2> HIDE DEF c, x
  <2> QED BY <1>2, <1>4, <2>3, <2>4, <2>5, <2>6, SendIsQuiet
<1> QED BY <1>3, <1>4

\* What write_complete starts from.
Handling(h) == [h EXCEPT !.b.done = "none", !.busy = TRUE]

\* Taking note of the answer to a write.
LEMMA HandlingIsCalm ==
  ASSUME NEW h \in Run
  PROVE  /\ Handling(h) \in Run /\ Calm(h, Handling(h)) /\ Handling(h).b.done = "none"
         /\ Handling(h).b.attempt = h.b.attempt /\ Handling(h).toF = h.toF
PROOF
<1> DEFINE b == [h.b EXCEPT !.done = "none"]
           r == Handling(h)
<1>1. h.b \in BoardState
  BY DEF Run
<1>2. b \in BoardState
  BY <1>1 DEF BoardState, Dones
<1>3. /\ b.nvs = h.b.nvs /\ b.mode = h.b.mode /\ b.window = h.b.window /\ b.conn = h.b.conn
      /\ b.st = h.b.st /\ b.reason = h.b.reason /\ b.fails = h.b.fails /\ b.key = h.b.key
      /\ b.done = "none" /\ b.attempt = h.b.attempt
  BY <1>1 DEF BoardState
<1>4. h = [b |-> h.b, toF |-> h.toF, toB |-> h.toB, closing |-> h.closing, busy |-> h.busy]
      /\ h.toF \in Seq(Rec) /\ h.toB \in Seq(Rec) /\ h.closing \in BOOLEAN
  BY DEF Run
<1>5. r = [[h EXCEPT !.b = b] EXCEPT !.busy = TRUE]
  BY <1>4 DEF Handling
<1> HIDE DEF b, r
<1>6. r = [b |-> b, toF |-> h.toF, toB |-> h.toB, closing |-> h.closing, busy |-> TRUE]
  BY <1>4, <1>5
<1>7. r \in Run
  BY <1>2, <1>4, <1>6 DEF Run
<1>8. r.b = b /\ r.toF = h.toF /\ r.toB = h.toB /\ r.closing = h.closing
  BY <1>6
<1>9. Calm(h, r)
  BY <1>3, <1>8 DEF Calm, NoNewComplete
<1> QED BY <1>3, <1>7, <1>8, <1>9 DEF r

\* The end of the authentication.
LEMMA AuthenticatedIsQuiet ==
  ASSUME NEW h \in Run, h.b.mode = "runtime", h.b.conn = "up", h.b.done = "none", NEW m
  PROVE  Quiet(h, KickSend(Authenticated(h)), m)
PROOF
<1> DEFINE b == [h.b EXCEPT !.st = "authenticated", !.seq = 1, !.rx = 1]
           a == [h EXCEPT !.b = b]
<1>1. h.b \in BoardState
  BY DEF Run
<1>2. Authenticated(h) = a
  BY DEF Authenticated, Run
<1>3. b \in BoardState
  BY <1>1, Kinds DEF BoardState, States
<1>4. Turn(h.b, b, m)
  BY <1>1 DEF BoardState, Turn, Plain
<1> HIDE DEF b
<1>5. a \in Run /\ a.b = b /\ a.toF = h.toF /\ a.toB = h.toB /\ a.closing = h.closing
  BY <1>3, WithBoard
<1> HIDE DEF a
<1>6. Quiet(h, a, m)
  BY <1>4, <1>5 DEF Quiet, NoNewComplete
<1>7. KickSend(a) \in Run /\ Calm(a, KickSend(a))
  BY <1>5, KickSendIsCalm
<1> QED BY <1>2, <1>5, <1>6, <1>7, QuietThenCalm

\* write_complete, from there on.
Done(h, persists) == StartNext(Completed(Handling(h), h.b.done, persists))

\* The answer to a write that does not end a ceremony.
LEMMA DoneIsQuiet ==
  ASSUME NEW h \in Run, NEW persists, NEW m, h.b.done # "complete",
         h.b.done = "authenticated" => h.b.mode = "runtime" /\ h.b.conn = "up"
  PROVE  Quiet(h, Done(h, persists), m)
PROOF
<1> DEFINE a == Handling(h)
           c == Completed(a, h.b.done, persists)
<1>1. a \in Run /\ Calm(h, a) /\ a.b.done = "none"
  BY HandlingIsCalm
<1>2. h.b.done \in Dones
  BY DEF Run, BoardState
<1> HIDE DEF a
<1>3. Quiet(a, c, m)
  <2>1. CASE h.b.done = "disconnect"
    <3>1. Terminate(a) \in Run /\ Calm(a, Terminate(a))
      BY <1>1, TerminateIsCalm
    <3>2. Quiet(a, Terminate(a), m)
      BY <1>1, <3>1, CalmIsQuiet
    <3> QED BY <2>1, <3>2 DEF Completed
  <2>2. CASE h.b.done = "authenticated"
    <3>1. a.b.mode = "runtime" /\ a.b.conn = "up"
      BY <1>1, <2>2 DEF Calm
    <3>2. Quiet(a, KickSend(Authenticated(a)), m)
      BY <1>1, <3>1, AuthenticatedIsQuiet
    <3> QED BY <2>2, <3>2 DEF Completed
  <2>3. CASE h.b.done = "drained"
    <3>1. NextBatch(a) \in Run /\ Calm(a, NextBatch(a))
      BY <1>1, NextBatchIsCalm
    <3>2. Quiet(a, NextBatch(a), m)
      BY <1>1, <3>1, CalmIsQuiet
    <3> QED BY <2>3, <3>2 DEF Completed
  <2>4. CASE h.b.done = "none"
    <3>1. Quiet(a, a, m)
      BY <1>1, CalmIsReflexive, CalmIsQuiet
    <3> QED BY <2>4, <3>1 DEF Completed
  <2> QED BY <1>2, <2>1, <2>2, <2>3, <2>4 DEF Dones
<1>4. c \in Run
  BY <1>3 DEF Quiet
<1> HIDE DEF c
<1>5. StartNext(c) \in Run /\ Calm(c, StartNext(c))
  BY <1>4, StartNextIsCalm
<1>6. Quiet(a, StartNext(c), m)
  BY <1>1, <1>3, <1>4, <1>5, QuietThenCalm
<1>7. Quiet(h, StartNext(c), m)
  BY <1>1, <1>5, <1>6, CalmThenQuiet
<1> QED BY <1>7 DEF Done, c, a

\* The end of a ceremony: the secret of the attempt is stored and the Flipper told.
Ended(h, r) ==
  /\ r \in Run
  /\ r.b.nvs = h.b.attempt /\ r.b.mode = h.b.mode /\ r.b.window = h.b.window
  /\ r.b.conn = h.b.conn /\ r.b.st = "complete_sent"
  /\ r.b.reason = h.b.reason /\ r.b.fails = h.b.fails
  /\ r.b.done \in Plain
  /\ r.toB = h.toB
  /\ link = "down" => r.toF = h.toF /\ r.closing \in {h.closing, FALSE}
  /\ \A m \in Range(r.toF) :
       m \in Range(h.toF) \/ m.type # "pair_complete" \/ m.secret = h.b.attempt

\* finish_pairing is the end of a ceremony.
LEMMA FinishPairingEnds ==
  ASSUME NEW h \in Run
  PROVE  Ended(h, FinishPairing(h, TRUE))
PROOF
<1> DEFINE n == h.b.attempt
           b == [h.b EXCEPT !.nvs = n, !.attempt = 0, !.st = "complete_sent"]
           a == [h EXCEPT !.b = b]
           x == Msg("pair_complete", n, n, 0)
           r == Send(a, x, "disconnect")
<1>1. h.b \in BoardState /\ n \in Secret
  BY DEF Run, BoardState
<1>2. FinishPairing(h, TRUE) = r
  BY DEF FinishPairing, Run
<1> HIDE DEF n
<1>3. b \in BoardState
  BY <1>1, Kinds DEF BoardState, States
<1>4. x \in Rec /\ x.type = "pair_complete" /\ x.secret = n
  BY <1>1, Kinds DEF Msg, Rec, Types
<1>5. [b EXCEPT !.done = "disconnect"].nvs = n
  BY <1>1 DEF BoardState
<1>6. LET c == [b EXCEPT !.done = "disconnect"]
      IN /\ c.mode = h.b.mode /\ c.window = h.b.window /\ c.conn = h.b.conn
         /\ c.st = "complete_sent" /\ c.reason = h.b.reason /\ c.fails = h.b.fails
         /\ c.done = "disconnect"
  BY <1>1 DEF BoardState
<1>7. "disconnect" \in Dones
  BY DEF Dones
<1> HIDE DEF b, x
<1>8. a \in Run /\ a.b = b /\ a.toF = h.toF /\ a.toB = h.toB /\ a.closing = h.closing
  BY <1>3, WithBoard
<1> HIDE DEF a
<1>9. /\ r \in Run /\ r.b = [a.b EXCEPT !.done = "disconnect"]
      /\ r.toB = a.toB /\ r.closing = a.closing
      /\ link = "down" => r.toF = a.toF
      /\ Range(r.toF) \subseteq Range(a.toF) \cup {x}
  BY <1>4, <1>7, <1>8, SendIs
<1> HIDE DEF r
<1>10. \A m \in Range(r.toF) : m \in Range(h.toF) \/ m.type # "pair_complete" \/ m.secret = n
  BY <1>4, <1>8, <1>9
<1>11. Ended(h, r)
  BY <1>5, <1>6, <1>8, <1>9, <1>10 DEF Ended, Plain, n
<1> QED BY <1>2, <1>11

\* The answer to the write of pair_confirm ends the ceremony or, when the store fails, not.
LEMMA DoneEnds ==
  ASSUME NEW h \in Run, NEW persists \in BOOLEAN, NEW m, h.b.done = "complete"
  PROVE  Quiet(h, Done(h, persists), m) \/ Ended(h, Done(h, persists))
PROOF
<1> DEFINE a == Handling(h)
           c == FinishPairing(a, persists)
<1>1. /\ a \in Run /\ Calm(h, a) /\ a.b.attempt = h.b.attempt /\ a.toF = h.toF
  BY HandlingIsCalm
<1> HIDE DEF a
<1>2. Done(h, persists) = StartNext(c)
  BY DEF Done, Completed, a
<1>3. CASE ~ persists
  <2>1. c = FailPairing(a)
    BY <1>3 DEF FinishPairing
  <2>2. c \in Run /\ Calm(a, c)
    BY <1>1, <2>1, FailPairingIsCalm
  <2> HIDE DEF c
  <2>3. StartNext(c) \in Run /\ Calm(c, StartNext(c))
    BY <2>2, StartNextIsCalm
  <2>4. Calm(a, StartNext(c))
    BY <1>1, <2>2, <2>3, CalmIsTransitive
  <2>5. Calm(h, StartNext(c))
    BY <1>1, <2>4, CalmIsTransitive
  <2> QED BY <1>2, <2>3, <2>5, CalmIsQuiet
<1>4. CASE persists
  <2>1. Ended(a, c)
    BY <1>1, <1>4, FinishPairingEnds
  <2> HIDE DEF c
  <2>2. c \in Run
    BY <2>1 DEF Ended
  <2>3. StartNext(c) \in Run /\ Calm(c, StartNext(c))
    BY <2>2, StartNextIsCalm
  <2>4. Ended(h, StartNext(c))
    BY <1>1, <2>1, <2>3 DEF Ended, Calm, NoNewComplete, Plain
  <2> QED BY <1>2, <2>4
<1> QED BY <1>3, <1>4

-----------------------------------------------------------------------------
(* Handlers of the Flipper.                                                *)

Events == {"connected", "advertising", "fatal", "capability", "confirming", "saving", "done",
           "failed", "authenticating", "active"}
Phases == {"none", "waiting", "exchanging", "confirming", "saving", "done", "failed",
           "authenticating", "active"}
Queue == {q \in Seq(Events) : Len(q) <= EventCap}
FlipState ==
  [up : BOOLEAN, conn : BOOLEAN, file : Secret, cached : BOOLEAN, stage : {"none", "init", "confirm"},
   pair : Secret, sess : {"none", "hello", "active"}, sid : Sids, secret : Secret, key : Secret,
   out : Counts, in : Counts, known : BOOLEAN, phase : Phases, events : Queue]
FlipRun == [f : FlipState, toB : Seq(Rec), lost : BOOLEAN]

\* What the Flipper says of its own record is so when it says it.
Honest(m, file) ==
  /\ m.type = "unknown_board" => file = 0
  /\ m.type = "hello_ack" => m.secret = file

\* A handler of the Flipper that leaves the record on its card alone and writes only what is so.
Told(h, r) ==
  /\ r \in FlipRun
  /\ r.f.conn = h.f.conn /\ r.f.file = h.f.file
  /\ link = "down" => r.toB = h.toB
  /\ \A m \in Range(r.toB) : m \in Range(h.toB) \/ Honest(m, h.f.file)

\* One such handler after the other.
LEMMA ToldIsTransitive ==
  ASSUME NEW h, NEW r, NEW q, Told(h, r), Told(r, q)
  PROVE  Told(h, q)
PROOF BY DEF Told

\* A change of the Flipper's books apart from the record and the link.
LEMMA WithFlip ==
  ASSUME NEW h \in FlipRun, NEW g \in FlipState, g.conn = h.f.conn, g.file = h.f.file
  PROVE  Told(h, [h EXCEPT !.f = g]) /\ [h EXCEPT !.f = g].f = g
PROOF
<1> DEFINE r == [h EXCEPT !.f = g]
<1>1. r \in FlipRun /\ r.f = g /\ r.toB = h.toB
  <2> HIDE DEF FlipState, Rec
  <2> QED BY DEF FlipRun
<1> HIDE DEF r
<1>2. Told(h, r)
  BY <1>1 DEF Told
<1> QED BY <1>1, <1>2 DEF r

\* A notification.
LEMMA NotifyTells ==
  ASSUME NEW h \in FlipRun, NEW m \in Rec, Honest(m, h.f.file)
  PROVE  Told(h, Notify(h, m)) /\ Notify(h, m).f = h.f
PROOF
<1> DEFINE t == Append(h.toB, m)
           r == [h EXCEPT !.toB = t]
<1>1. t \in Seq(Rec) /\ Range(t) = Range(h.toB) \cup {m}
  BY AppendIs DEF FlipRun
<1>2. Notify(h, m) = IF h.lost \/ link = "down" \/ board.conn # "up" THEN h ELSE r
  BY DEF Notify
<1> HIDE DEF t
<1>3. r \in FlipRun /\ r.f = h.f /\ r.toB = t
  <2> HIDE DEF FlipState, Rec
  <2> QED BY <1>1 DEF FlipRun
<1> HIDE DEF r
<1>4. link # "down" => Told(h, r)
  BY <1>1, <1>3 DEF Told
<1>5. Told(h, h)
  BY DEF Told
<1> QED BY <1>2, <1>3, <1>4, <1>5

\* An event for the main thread.
LEMMA PostTells ==
  ASSUME NEW h \in FlipRun, NEW event \in Events
  PROVE  Told(h, Post(h, event)) /\ Post(h, event).f.file = h.f.file
         /\ Post(h, event).f.pair = h.f.pair
PROOF
<1> DEFINE t == IF Len(h.f.events) < EventCap THEN Append(h.f.events, event) ELSE h.f.events
           g == [h.f EXCEPT !.events = t]
<1>1. h.f \in FlipState
  BY DEF FlipRun
<1>2. Append(h.f.events, event) \in Seq(Events)
  BY <1>1, AppendProperties DEF FlipState, Queue
<1>3. Post(h, event) = [h EXCEPT !.f = g]
  BY DEF Post, FlipRun
<1>4. t \in Queue
  <2>1. h.f.events \in Queue /\ h.f.events \in Seq(Events) /\ Len(h.f.events) \in Nat
    BY <1>1, LenProperties DEF FlipState, Queue
  <2>2. Len(Append(h.f.events, event)) = Len(h.f.events) + 1
    BY <2>1, AppendProperties
  <2> QED BY <1>2, <2>1, <2>2, SessionAssumption DEF Queue
<1> HIDE DEF t
<1>5. g \in FlipState /\ g.conn = h.f.conn /\ g.file = h.f.file /\ g.pair = h.f.pair
  BY <1>1, <1>4 DEF FlipState
<1> HIDE DEF g
<1> QED BY <1>3, <1>5, WithFlip

\* The ceremony forgotten.
LEMMA ResetPairingTells ==
  ASSUME NEW h \in FlipRun
  PROVE  Told(h, ResetPairing(h))
PROOF
<1> DEFINE g == [h.f EXCEPT !.stage = "none", !.pair = 0]
<1>1. h.f \in FlipState
  BY DEF FlipRun
<1>2. g \in FlipState /\ g.conn = h.f.conn /\ g.file = h.f.file
  BY <1>1, Kinds DEF FlipState
<1>3. ResetPairing(h) = [h EXCEPT !.f = g]
  BY DEF ResetPairing, FlipRun
<1> HIDE DEF g
<1> QED BY <1>2, <1>3, WithFlip

\* The session forgotten.
LEMMA ResetSessionTells ==
  ASSUME NEW h \in FlipRun
  PROVE  Told(h, ResetSession(h))
PROOF
<1> DEFINE g == [h.f EXCEPT !.sess = "none", !.sid = 0, !.secret = 0, !.key = 0,
                            !.out = 0, !.in = 0]
<1>1. h.f \in FlipState
  BY DEF FlipRun
<1>2. g \in FlipState /\ g.conn = h.f.conn /\ g.file = h.f.file
  BY <1>1, Kinds DEF FlipState
<1>3. ResetSession(h) = [h EXCEPT !.f = g]
  BY DEF ResetSession, FlipRun
<1> HIDE DEF g
<1> QED BY <1>2, <1>3, WithFlip

\* Both, and the other end told.
LEMMA AbortTells ==
  ASSUME NEW h \in FlipRun
  PROVE  Told(h, Abort(h))
PROOF
<1> DEFINE x == Msg("pair_error", 0, 0, 0)
           a == Notify(h, x)
           c == ResetPairing(a)
<1>1. x \in Rec /\ Honest(x, h.f.file)
  BY Kinds DEF Msg, Rec, Types, Honest
<1> HIDE DEF x
<1>2. Told(h, a) /\ a \in FlipRun
  BY <1>1, NotifyTells DEF Told
<1> HIDE DEF a
<1>3. Told(a, c) /\ c \in FlipRun
  BY <1>2, ResetPairingTells DEF Told
<1> HIDE DEF c
<1>4. Told(c, Post(c, "failed"))
  BY <1>3, PostTells DEF Events
<1>5. Abort(h) = Post(c, "failed")
  BY DEF Abort, a, c, x
<1> QED BY <1>2, <1>3, <1>4, <1>5, ToldIsTransitive

\* A notification of a session.
LEMMA NotifyProtectedTells ==
  ASSUME NEW h \in FlipRun, NEW type \in {"query", "command"}
  PROVE  Told(h, NotifyProtected(h, type))
PROOF
<1> DEFINE x == Msg(type, h.f.sid, h.f.key, h.f.out)
           a == Notify(h, x)
           n == a.f.out + 1
           g == [a.f EXCEPT !.out = n]
<1>1. h.f \in FlipState
  BY DEF FlipRun
<1>2. Told(h, h)
  BY DEF Told
<1>3. CASE h.f.out >= SequenceMax
  BY <1>2, <1>3 DEF NotifyProtected
<1>4. CASE ~ h.f.out >= SequenceMax
  <2>1. h.f.sid \in Ids /\ h.f.key \in Secret /\ h.f.out \in Counts
    BY <1>1, Kinds DEF FlipState
  <2>2. h.f.out \in Nums /\ h.f.out + 1 \in Counts
    BY <1>4, <2>1, Kinds
  <2>3. x \in Rec /\ Honest(x, h.f.file)
    BY <2>1, <2>2 DEF Msg, Rec, Types, Honest
  <2>4. NotifyProtected(h, type) = [a EXCEPT !.f.out = @ + 1]
    BY <1>4 DEF NotifyProtected
  <2> HIDE DEF x
  <2>5. Told(h, a) /\ a \in FlipRun /\ a.f = h.f
    BY <2>3, NotifyTells DEF Told
  <2> HIDE DEF a
  <2>6. [a EXCEPT !.f.out = @ + 1] = [a EXCEPT !.f = g]
    BY <2>5 DEF FlipRun
  <2>7. n \in Counts
    BY <2>2, <2>5
  <2> HIDE DEF n
  <2>8. g \in FlipState /\ g.conn = a.f.conn /\ g.file = a.f.file
    BY <1>1, <2>5, <2>7 DEF FlipState
  <2> HIDE DEF g
  <2>9. Told(a, [a EXCEPT !.f = g])
    BY <2>5, <2>8, WithFlip
  <2> QED BY <2>4, <2>5, <2>6, <2>9, ToldIsTransitive
<1> QED BY <1>3, <1>4

\* pair_init.
LEMMA HandlePairInitTells ==
  ASSUME NEW h \in FlipRun, NEW m \in Rec, m.type = "pair_init"
  PROVE  Told(h, HandlePairInit(h, m))
PROOF
<1> DEFINE g == [h.f EXCEPT !.pair = m.id, !.stage = "init"]
           a == [h EXCEPT !.f = g]
           x == Msg("pair_reply", m.id, 0, 0)
           c == Notify(a, x)
<1>1. h.f \in FlipState
  BY DEF FlipRun
<1>2. g \in FlipState /\ g.conn = h.f.conn /\ g.file = h.f.file
  BY <1>1, Kinds DEF FlipState, Rec
<1>3. x \in Rec /\ Honest(x, a.f.file)
  BY Kinds DEF Msg, Rec, Types, Honest
<1>4. HandlePairInit(h, m) = Post(c, "confirming")
  BY DEF HandlePairInit, FlipRun
<1> HIDE DEF g, x
<1>5. Told(h, a) /\ a \in FlipRun
  BY <1>2, WithFlip DEF Told
<1> HIDE DEF a
<1>6. Told(a, c) /\ c \in FlipRun
  BY <1>3, <1>5, NotifyTells DEF Told
<1> HIDE DEF c
<1>7. Told(c, Post(c, "confirming"))
  BY <1>6, PostTells DEF Events
<1> QED BY <1>4, <1>5, <1>6, <1>7, ToldIsTransitive

\* pair_confirm.
LEMMA HandlePairConfirmTells ==
  ASSUME NEW h \in FlipRun, NEW m \in Rec
  PROVE  Told(h, HandlePairConfirm(h, m))
PROOF
<1> DEFINE g == [h.f EXCEPT !.stage = "confirm"]
           a == [h EXCEPT !.f = g]
<1>1. h.f \in FlipState
  BY DEF FlipRun
<1>2. g \in FlipState /\ g.conn = h.f.conn /\ g.file = h.f.file
  BY <1>1 DEF FlipState
<1>3. HandlePairConfirm(h, m) = IF h.f.stage # "init" THEN h
                                ELSE IF m.secret # h.f.pair THEN Abort(h) ELSE Post(a, "saving")
  BY DEF HandlePairConfirm, FlipRun
<1> HIDE DEF g
<1>4. Told(h, a) /\ a \in FlipRun
  BY <1>2, WithFlip DEF Told
<1> HIDE DEF a
<1>5. Told(a, Post(a, "saving"))
  BY <1>4, PostTells DEF Events
<1>6. Told(h, Post(a, "saving"))
  BY <1>4, <1>5, ToldIsTransitive
<1>7. Told(h, h)
  BY DEF Told
<1> QED BY <1>3, <1>6, <1>7, AbortTells

\* hello.
LEMMA HandleHelloTells ==
  ASSUME NEW h \in FlipRun, NEW m \in Rec, m.type = "hello", NEW failure, failure # "unreadable"
  PROVE  Told(h, HandleHello(h, m, failure))
PROOF
<1> DEFINE r == ResetSession(h)
           u == Msg("unknown_board", 0, 0, 0)
           g == [r.f EXCEPT !.sess = "hello", !.sid = m.id, !.secret = h.f.file]
           a == [r EXCEPT !.f = g]
           x == Msg("hello_ack", m.id, h.f.file, 0)
           c == Notify(a, x)
<1>1. Told(h, r) /\ r \in FlipRun /\ r.f.file = h.f.file
  BY ResetSessionTells DEF Told
<1>2. HandleHello(h, m, failure) = IF h.f.file = 0 THEN Notify(r, u) ELSE Post(c, "authenticating")
  <2> HIDE DEF r, u, x
  <2>1. [r EXCEPT !.f.sess = "hello", !.f.sid = m.id, !.f.secret = h.f.file] = a
    BY <1>1 DEF FlipRun
  <2>2. c = Notify([r EXCEPT !.f.sess = "hello", !.f.sid = m.id, !.f.secret = h.f.file], x)
    BY <2>1
  <2> HIDE DEF a, c
  <2> QED BY <2>2 DEF HandleHello, r, u, x
<1>3. h.f \in FlipState
  BY DEF FlipRun
<1> HIDE DEF r
<1>4. CASE h.f.file = 0
  <2>1. u \in Rec /\ Honest(u, r.f.file)
    BY <1>1, <1>4, Kinds DEF Msg, Rec, Types, Honest
  <2> HIDE DEF u
  <2>2. Told(r, Notify(r, u))
    BY <1>1, <2>1, NotifyTells
  <2> QED BY <1>1, <1>2, <1>4, <2>2, ToldIsTransitive
<1>5. CASE h.f.file # 0
  <2>1. r.f \in FlipState
    BY <1>1 DEF FlipRun
  <2>2. g \in FlipState /\ g.conn = r.f.conn /\ g.file = r.f.file
    BY <1>3, <2>1, Kinds DEF FlipState, Rec
  <2>3. x \in Rec /\ Honest(x, h.f.file)
    BY <1>3, Kinds DEF Msg, Rec, Types, Honest, FlipState
  <2> HIDE DEF g, x
  <2>4. Told(r, a) /\ a \in FlipRun /\ a.f.file = h.f.file
    BY <1>1, <2>2, WithFlip DEF Told
  <2> HIDE DEF a
  <2>5. Told(a, c) /\ c \in FlipRun
    BY <2>3, <2>4, NotifyTells DEF Told
  <2> HIDE DEF c
  <2>6. Told(c, Post(c, "authenticating"))
    BY <2>5, PostTells DEF Events
  <2> QED BY <1>1, <1>2, <1>5, <2>4, <2>5, <2>6, ToldIsTransitive
<1> QED BY <1>4, <1>5

\* A Flipper that cannot read its record: it says that it has none.
Shrugs(h, r) ==
  /\ r \in FlipRun
  /\ r.f.conn = h.f.conn /\ r.f.file = h.f.file
  /\ link = "down" => r.toB = h.toB
  /\ \A m \in Range(r.toB) : m \in Range(h.toB) \/ m.type = "unknown_board"

LEMMA UnreadHelloShrugs ==
  ASSUME NEW h \in FlipRun, NEW m \in Rec
  PROVE  Shrugs(h, HandleHello(h, m, "unreadable"))
PROOF
<1> DEFINE q == ResetSession(h)
           u == Msg("unknown_board", 0, 0, 0)
           t == Append(q.toB, u)
           r == [q EXCEPT !.toB = t]
<1>1. /\ q \in FlipRun /\ q.f.conn = h.f.conn /\ q.f.file = h.f.file
      /\ link = "down" => q.toB = h.toB
  BY ResetSessionTells DEF Told
<1>2. Range(q.toB) \subseteq Range(h.toB)
  BY DEF ResetSession
<1>3. u \in Rec /\ u.type = "unknown_board"
  BY Kinds DEF Msg, Rec, Types
<1>4. HandleHello(h, m, "unreadable") = IF q.lost \/ link = "down" \/ board.conn # "up" THEN q ELSE r
  BY DEF HandleHello, Notify
<1> HIDE DEF q, u
<1>5. t \in Seq(Rec) /\ Range(t) = Range(q.toB) \cup {u}
  BY <1>1, <1>3, AppendIs DEF FlipRun
<1> HIDE DEF t
<1>6. r \in FlipRun /\ r.f = q.f /\ r.toB = t
  <2> HIDE DEF FlipState, Rec
  <2> QED BY <1>1, <1>5 DEF FlipRun
<1> HIDE DEF r
<1>7. link # "down" => Shrugs(h, r)
  BY <1>1, <1>2, <1>3, <1>5, <1>6 DEF Shrugs
<1>8. Shrugs(h, q)
  BY <1>1, <1>2 DEF Shrugs
<1> QED BY <1>4, <1>7, <1>8

\* Nothing done.
LEMMA ToldIsReflexive ==
  ASSUME NEW h \in FlipRun
  PROVE  Told(h, h)
PROOF BY DEF Told

\* The command that opens a session.
LEMMA BootstrapTells ==
  ASSUME NEW h \in FlipRun
  PROVE  Told(h, Bootstrap(h))
PROOF
<1>1. Told(h, Post(h, "capability"))
  BY PostTells DEF Events
<1>2. Told(h, NotifyProtected(h, "query"))
  BY NotifyProtectedTells
<1> QED BY <1>1, <1>2 DEF Bootstrap

\* The question for the status.
LEMMA QueryStatusTells ==
  ASSUME NEW h \in FlipRun
  PROVE  Told(h, QueryStatus(h))
PROOF BY NotifyProtectedTells, ToldIsReflexive DEF QueryStatus

\* client_auth.
LEMMA HandleClientAuthTells ==
  ASSUME NEW h \in FlipRun, NEW m \in Rec
  PROVE  Told(h, HandleClientAuth(h, m))
PROOF
<1> DEFINE p == Post(h, "failed")
           q == ResetSession(p)
           g == [h.f EXCEPT !.sess = "active", !.key = h.f.secret, !.secret = 0, !.out = 1, !.in = 1]
           a == [h EXCEPT !.f = g]
           c == Post(a, "active")
           d == Bootstrap(c)
<1>1. h.f \in FlipState
  BY DEF FlipRun
<1>2. g \in FlipState /\ g.conn = h.f.conn /\ g.file = h.f.file
  BY <1>1, Kinds DEF FlipState
<1>3. [h EXCEPT !.f.sess = "active", !.f.key = h.f.secret, !.f.secret = 0, !.f.out = 1, !.f.in = 1]
        = a
  BY DEF FlipRun
<1>4. HandleClientAuth(h, m) = IF h.f.sess # "hello" \/ m.id # h.f.sid THEN h
                               ELSE IF m.secret # h.f.secret THEN Post(q, "fatal")
                               ELSE QueryStatus(d)
  BY <1>3 DEF HandleClientAuth
<1>5. Told(h, p) /\ p \in FlipRun
  BY PostTells DEF Events, Told
<1> HIDE DEF p
<1>6. Told(p, q) /\ q \in FlipRun
  BY <1>5, ResetSessionTells DEF Told
<1> HIDE DEF q
<1>7. Told(q, Post(q, "fatal"))
  BY <1>6, PostTells DEF Events
<1>8. Told(h, Post(q, "fatal"))
  BY <1>5, <1>6, <1>7, ToldIsTransitive
<1> HIDE DEF g
<1>9. Told(h, a) /\ a \in FlipRun
  BY <1>2, WithFlip DEF Told
<1> HIDE DEF a
<1>10. Told(a, c) /\ c \in FlipRun
  BY <1>9, PostTells DEF Events, Told
<1> HIDE DEF c
<1>11. Told(c, d) /\ d \in FlipRun
  BY <1>10, BootstrapTells DEF Told
<1> HIDE DEF d
<1>12. Told(d, QueryStatus(d))
  BY <1>11, QueryStatusTells
<1>13. Told(h, QueryStatus(d))
  BY <1>9, <1>10, <1>11, <1>12, ToldIsTransitive
<1> QED BY <1>4, <1>8, <1>13, ToldIsReflexive

\* A record of a session.
LEMMA HandleProtectedTells ==
  ASSUME NEW h \in FlipRun, NEW m \in Rec
  PROVE  Told(h, HandleProtected(h, m))
PROOF
<1> DEFINE n == h.f.in + 1
           g == [h.f EXCEPT !.in = n]
           a == [h EXCEPT !.f = g]
           q == ResetSession(h)
           k == [g EXCEPT !.cached = TRUE]
           c == [h EXCEPT !.f = k]
<1>1. h.f \in FlipState
  BY DEF FlipRun
<1>2. CASE h.f.sess # "active"
  BY <1>2, ToldIsReflexive DEF HandleProtected
<1>3. CASE h.f.sess = "active" /\ ~ Authentic(m, h.f.sid, h.f.key, h.f.in)
  <2>1. Told(h, q) /\ q \in FlipRun
    BY ResetSessionTells DEF Told
  <2>2. HandleProtected(h, m) = Post(q, "fatal")
    BY <1>3 DEF HandleProtected
  <2> HIDE DEF q
  <2>3. Told(q, Post(q, "fatal"))
    BY <2>1, PostTells DEF Events
  <2> QED BY <2>1, <2>2, <2>3, ToldIsTransitive
<1>4. CASE h.f.sess = "active" /\ Authentic(m, h.f.sid, h.f.key, h.f.in)
  <2>1. n \in Counts
    <3>1. h.f.in \in Counts /\ h.f.in = m.seq /\ m.seq < SequenceMax
      BY <1>1, <1>4 DEF FlipState, Authentic
    <3> QED BY <3>1, Kinds, SessionAssumption DEF Counts
  <2>2. [h EXCEPT !.f.in = @ + 1] = a
    BY DEF FlipRun
  <2>3. [a EXCEPT !.f.cached = TRUE] = c
    BY DEF FlipRun
  <2>4. HandleProtected(h, m) = IF m.type = "capability" THEN Post(c, "capability") ELSE a
    <3> DEFINE t == [h EXCEPT !.f.in = @ + 1]
    <3>1. HandleProtected(h, m)
            = IF m.type = "capability" THEN Post([t EXCEPT !.f.cached = TRUE], "capability") ELSE t
      BY <1>4 DEF HandleProtected
    <3>2. t = a
      BY <2>2
    <3> HIDE DEF t, a, c
    <3> QED BY <2>3, <3>1, <3>2
  <2> HIDE DEF n
  <2>5. g \in FlipState /\ g.conn = h.f.conn /\ g.file = h.f.file
    BY <1>1, <2>1 DEF FlipState
  <2> HIDE DEF g
  <2>6. k \in FlipState /\ k.conn = h.f.conn /\ k.file = h.f.file
    BY <2>5 DEF FlipState
  <2> HIDE DEF k
  <2>7. Told(h, a)
    BY <2>5, WithFlip
  <2>8. Told(h, c) /\ c \in FlipRun
    BY <2>6, WithFlip DEF Told
  <2> HIDE DEF c, a
  <2>9. Told(c, Post(c, "capability"))
    BY <2>8, PostTells DEF Events
  <2> QED BY <2>4, <2>7, <2>8, <2>9, ToldIsTransitive
<1> QED BY <1>2, <1>3, <1>4

\* What the last record of a ceremony may change is the record on the Flipper's card.
Saved(h, r, m) ==
  /\ r \in FlipRun
  /\ r.f.conn = h.f.conn /\ r.f.file \in {h.f.file, 0, m.secret}
  /\ link = "down" => r.toB = h.toB
  /\ \A x \in Range(r.toB) : x \in Range(h.toB) \/ x.type \notin {"unknown_board", "hello_ack"}

\* pair_complete: the record is saved, or refused, or was there already.
LEMMA HandlePairCompleteSaves ==
  ASSUME NEW h \in FlipRun, NEW m \in Rec, NEW failure
  PROVE  Told(h, HandlePairComplete(h, m, failure)) \/ Saved(h, HandlePairComplete(h, m, failure), m)
PROOF
<1> DEFINE file == CASE failure = "write" -> h.f.file
                     [] failure = "rename" -> 0
                     [] OTHER -> h.f.pair
           g == [h.f EXCEPT !.file = file]
           a == [h EXCEPT !.f = g]
           c == ResetPairing(a)
           event == IF failure = "none" THEN "done" ELSE "failed"
           r == HandlePairComplete(h, m, failure)
<1>1. h.f \in FlipState
  BY DEF FlipRun
<1>2. file \in Secret /\ file \in {h.f.file, 0, h.f.pair}
  BY <1>1, Kinds DEF FlipState
<1>3. a = [h EXCEPT !.f.file = CASE failure = "write" -> @
                                  [] failure = "rename" -> 0
                                  [] OTHER -> h.f.pair]
  BY DEF FlipRun
<1>4. r = IF h.f.stage # "confirm" THEN h ELSE IF m.secret # h.f.pair THEN Abort(h)
          ELSE Post(c, event)
  BY <1>3 DEF HandlePairComplete
<1> HIDE DEF file
<1>5. g \in FlipState /\ g.conn = h.f.conn /\ g.file = file
  BY <1>1, <1>2 DEF FlipState
<1> HIDE DEF g
<1>6. a \in FlipRun /\ a.f = g /\ a.toB = h.toB
  <2> HIDE DEF FlipState, Rec
  <2> QED BY <1>5 DEF FlipRun
<1> HIDE DEF a
<1>7. Told(a, c) /\ c \in FlipRun
  BY <1>6, ResetPairingTells DEF Told
<1>8. c.toB = a.toB
  BY <1>6 DEF ResetPairing, FlipRun
<1> HIDE DEF c
<1>9. event \in Events
  BY DEF Events
<1> HIDE DEF event
<1>10. Told(c, Post(c, event)) /\ Post(c, event).toB = c.toB
  BY <1>7, <1>9, PostTells DEF Post, FlipRun
<1> DEFINE p == Post(c, event)
<1>11. Told(c, p) /\ p.toB = c.toB
  BY <1>10
<1> HIDE DEF p
<1>12. CASE h.f.stage = "confirm" /\ m.secret = h.f.pair
  <2>1. p \in FlipRun /\ p.f.conn = h.f.conn /\ p.f.file = file /\ p.toB = h.toB
    BY <1>5, <1>6, <1>7, <1>8, <1>11 DEF Told
  <2>2. Saved(h, p, m)
    BY <1>2, <1>12, <2>1 DEF Saved
  <2>3. r = p
    BY <1>4, <1>12 DEF p
  <2> QED BY <2>2, <2>3
<1>13. CASE ~ (h.f.stage = "confirm" /\ m.secret = h.f.pair)
  BY <1>4, <1>13, AbortTells, ToldIsReflexive
<1> QED BY <1>12, <1>13

\* Of all records only pair_complete touches the record on the card.
LEMMA HandledTells ==
  ASSUME NEW h \in FlipRun, NEW m \in Rec, NEW failure
  PROVE  \/ Told(h, Handled(h, m, failure))
         \/ failure = "unreadable" /\ Shrugs(h, Handled(h, m, failure))
         \/ m.type = "pair_complete" /\ Saved(h, Handled(h, m, failure), m)
PROOF
<1>1. CASE m.type = "pair_init"
  BY <1>1, HandlePairInitTells DEF Handled
<1>2. CASE m.type = "pair_confirm"
  BY <1>2, HandlePairConfirmTells DEF Handled
<1>3. CASE m.type = "pair_complete"
  BY <1>3, HandlePairCompleteSaves DEF Handled
<1>4. CASE m.type = "pair_error"
  BY <1>4, ToldIsReflexive DEF Handled
<1>5. CASE m.type = "hello"
  BY <1>5, HandleHelloTells, UnreadHelloShrugs DEF Handled
<1>6. CASE m.type = "client_auth"
  BY <1>6, HandleClientAuthTells DEF Handled
<1>7. CASE m.type \notin {"pair_init", "pair_confirm", "pair_complete", "pair_error", "hello",
                          "client_auth"}
  BY <1>7, HandleProtectedTells DEF Handled
<1> QED BY <1>1, <1>2, <1>3, <1>4, <1>5, <1>6, <1>7

-----------------------------------------------------------------------------
(* The inductive invariant.                                                *)

TypeInv ==
  /\ board \in BoardState /\ flip \in FlipState
  /\ link \in {"up", "down"} /\ closing \in BOOLEAN /\ forgot \in BOOLEAN /\ unread \in BOOLEAN
  /\ toF \in Seq(Rec) /\ inbox \in Seq(Rec) /\ toB \in Seq(Rec)

\* Without a link nothing is under way, and the ESP32 is in a dialogue only while connected.
LinkInv ==
  /\ link = "down" => toF = << >> /\ toB = << >> /\ closing = FALSE
  /\ board.conn = "none" => link = "down" /\ board.reason = "normal"
  /\ board.st # "idle" => board.conn = "up"
  /\ link = "up" => flip.conn
  /\ ~ flip.conn => inbox = << >>

\* What the state of a dialogue says of the mode and of the verdict it can end in.
StepInv ==
  /\ board.done = "complete" => board.mode = "pairing" /\ board.st = "confirm_sent"
  /\ board.done = "authenticated" => board.mode = "runtime" /\ board.st = "hello_sent"
  /\ board.st = "hello_sent" => board.mode = "runtime"
  /\ board.mode = "runtime" => board.nvs # 0
  /\ board.mode = "pairing" => board.reason = "normal"

\* What the Flipper has not handled yet.
InFlight == Range(toF) \cup Range(inbox)

\* A pair_complete that is under way carries the secret the ESP32 has stored, and finds the
\* ESP32 in no other ceremony: this is what makes a late one harmless.
CompleteInv ==
  \A m \in InFlight : m.type = "pair_complete" =>
    /\ board.conn = "none" \/ (board.mode = "pairing" /\ board.st = "complete_sent")
    /\ m.secret \in {0, board.nvs} \/ (board.nvs = 0 /\ forgot)
    /\ board.mode = "pairing" /\ board.nvs # 0 /\ board.st # "complete_sent" => ~ board.window

\* A ceremony that can still end in a new secret runs only while no record can be left behind
\* by it, or its being left behind is accounted for: the Flipper has none, the two were separated
\* before, or the window opened because the Flipper could not read its record.
WindowInv ==
  /\ board.mode = "pairing" /\ board.st # "complete_sent"
  /\ board.window \/ board.st \in {"init_sent", "confirm_sent"}
  => flip.file = 0 \/ forgot \/ unread

\* The property itself, and the converse that what separated the two is over once they agree.
EraseInv ==
  /\ flip.file # 0 /\ board.nvs # flip.file => forgot
  /\ forgot => flip.file = 0 \/ flip.file # board.nvs

\* A Flipper that says it does not know the board has no record, or could not read it; and a
\* proof that failed counted as such.
UnknownInv ==
  board.mode = "runtime" =>
    /\ board.reason = "unknown_board" => flip.file = 0 \/ unread
    /\ \A m \in Range(toB) :
         \/ Honest(m, flip.file)
         \/ flip.file = 0
         \/ unread /\ m.type = "unknown_board"
    /\ board.reason = "auth_failed" => flip.file \in {0, board.nvs} \/ board.fails > 0

\* The inductive invariant.
SessionInv == TypeInv /\ LinkInv /\ StepInv /\ CompleteInv /\ WindowInv /\ EraseInv /\ UnknownInv

-----------------------------------------------------------------------------
(* The steps of the ESP32 within a connection.                             *)

\* The board as its handlers take it.
LEMMA RunOfBoard ==
  ASSUME TypeInv, NEW busy \in BOOLEAN
  PROVE  /\ OnBoard(busy) \in Run /\ OnBoard(busy).b = board /\ OnBoard(busy).toF = toF
         /\ OnBoard(busy).toB = toB /\ OnBoard(busy).closing = closing
PROOF
<1> HIDE DEF BoardState, Rec
<1> QED BY DEF TypeInv, OnBoard, Run

\* What becomes of the two notes of history, in the steps that are not a factory reset; and in
\* those that are neither the beginning of a connection nor a turn of the Flipper's worker.
Remembers == forgot' = ((forgot \/ GivenUp) /\ ~ PairedAgain)
History == Remembers /\ UNCHANGED unread

\* A turn of the board within a connection.
BoardQuiet(m) ==
  /\ board' \in BoardState /\ toF' \in Seq(Rec) /\ toB' \in Seq(Rec) /\ closing' \in BOOLEAN
  /\ Turn(board, board', m)
  /\ Range(toB') \subseteq Range(toB) /\ NoNewComplete(toF, toF')
  /\ link = "down" => toF' = << >> /\ toB' = << >> /\ closing' = FALSE
  /\ UNCHANGED <<flip, link, inbox>>
  /\ m = Ack \/ m \in Range(toB)
  /\ board.conn = "none" => board'.reason = board.reason
  /\ History

\* Which they are when both records hold the same secret.
LEMMA PairedAgainIs ==
  ASSUME Remembers, TypeInv
  PROVE  /\ forgot' \in BOOLEAN
         /\ forgot' <=> /\ forgot \/ (unread /\ board'.nvs # board.nvs)
                       /\ ~ (flip'.file # 0 /\ flip'.file = board'.nvs)
PROOF BY DEF Remembers, GivenUp, PairedAgain, TypeInv

\* A quiet turn of the board keeps the invariant.
LEMMA QuietKeeps ==
  ASSUME SessionInv, NEW m, BoardQuiet(m)
  PROVE  SessionInv'
PROOF
<1> USE DEF SessionInv
<1>1. UNCHANGED <<flip, link, inbox, unread>> /\ Remembers /\ Turn(board, board', m)
  BY DEF BoardQuiet, History
<1>2. forgot' \in BOOLEAN /\ (forgot' <=> forgot /\ ~ (flip.file # 0 /\ flip.file = board.nvs))
  BY <1>1, PairedAgainIs DEF Turn
<1>3. forgot' = forgot
  BY <1>2 DEF EraseInv, TypeInv
<1>4. TypeInv'
  BY <1>1, <1>2 DEF BoardQuiet, TypeInv
<1>5. LinkInv'
  <2>1. (link = "down" => toF = << >> /\ toB = << >> /\ closing = FALSE)'
    BY <1>1 DEF BoardQuiet
  <2>2. (board.conn = "none" => link = "down" /\ board.reason = "normal")'
    <3> SUFFICES ASSUME board'.conn = "none" PROVE link = "down" /\ board'.reason = "normal"
      BY <1>1
    <3>1. board.conn = "none" /\ link = "down" /\ board.reason = "normal"
      BY <1>1 DEF Turn, LinkInv
    <3> QED BY <3>1 DEF BoardQuiet
  <2>3. (board.st # "idle" => board.conn = "up")'
    BY <1>1 DEF Turn, LinkInv
  <2>4. (link = "up" => flip.conn)' /\ (~ flip.conn => inbox = << >>)'
    BY <1>1 DEF LinkInv
  <2> QED BY <2>1, <2>2, <2>3, <2>4 DEF LinkInv
<1>6. StepInv'
  BY <1>1 DEF Turn, StepInv, Plain
<1>7. CompleteInv'
  BY <1>1, <1>3 DEF CompleteInv, BoardQuiet, NoNewComplete, InFlight, Turn
<1>8. WindowInv'
  BY <1>1, <1>3 DEF WindowInv, Turn
<1>9. EraseInv'
  BY <1>1, <1>3 DEF EraseInv, Turn
<1>10. UnknownInv'
  BY <1>1 DEF UnknownInv, BoardQuiet, Turn, Honest, StepInv, Ack, Msg
<1> QED BY <1>4, <1>5, <1>6, <1>7, <1>8, <1>9, <1>10

\* The turn that ends a ceremony.
BoardEnded ==
  /\ board.done = "complete"
  /\ board' \in BoardState /\ toF' \in Seq(Rec) /\ toB' \in Seq(Rec) /\ closing' \in BOOLEAN
  /\ board'.nvs = board.attempt /\ board'.mode = board.mode /\ board'.window = board.window
  /\ board'.conn = board.conn /\ board'.st = "complete_sent"
  /\ board'.reason = board.reason /\ board'.fails = board.fails
  /\ board'.done \in Plain
  /\ Range(toB') \subseteq Range(toB)
  /\ link = "down" => toF' = << >> /\ toB' = << >> /\ closing' = FALSE
  /\ \A m \in Range(toF') :
       m \in Range(toF) \/ m.type # "pair_complete" \/ m.secret = board'.nvs
  /\ UNCHANGED <<flip, link, inbox>>
  /\ History

\* So does the end of a ceremony.
LEMMA EndedKeeps ==
  ASSUME SessionInv, BoardEnded
  PROVE  SessionInv'
PROOF
<1> USE DEF SessionInv
<1>1. UNCHANGED <<flip, link, inbox, unread>> /\ Remembers
  BY DEF BoardEnded, History
<1>2. /\ forgot' \in BOOLEAN
      /\ forgot' <=> /\ forgot \/ (unread /\ board'.nvs # board.nvs)
                    /\ ~ (flip.file # 0 /\ flip.file = board'.nvs)
  BY <1>1, PairedAgainIs
<1>3. board.mode = "pairing" /\ board.st = "confirm_sent" /\ board.conn = "up"
  BY DEF BoardEnded, StepInv, LinkInv
<1>4. TypeInv'
  BY <1>1, <1>2 DEF BoardEnded, TypeInv
<1>5. LinkInv'
  BY <1>1, <1>3 DEF BoardEnded, LinkInv
<1>6. StepInv'
  BY <1>1, <1>3 DEF BoardEnded, StepInv, Plain
<1>7. CompleteInv'
  <2>1. \A x \in InFlight : x.type # "pair_complete"
    BY <1>3 DEF CompleteInv
  <2> QED BY <1>1, <1>3, <2>1 DEF CompleteInv, BoardEnded, InFlight
<1>8. WindowInv'
  BY DEF WindowInv, BoardEnded
<1>9. EraseInv'
  <2>1. flip.file = 0 \/ forgot \/ unread
    BY <1>3 DEF WindowInv
  <2> QED BY <1>1, <1>2, <2>1 DEF EraseInv
<1>10. UnknownInv'
  BY <1>3 DEF UnknownInv, BoardEnded
<1> QED BY <1>4, <1>5, <1>6, <1>7, <1>8, <1>9, <1>10

\* A handler that ran quietly on the board's state is a quiet turn of it.
LEMMA QuietTurn ==
  ASSUME SessionInv, NEW h \in Run, NEW r, NEW m,
         h.b = board, h.closing \in {closing, FALSE}, NoNewComplete(toF, h.toF),
         link = "down" => h.toF = toF /\ h.toB = toB,
         Range(h.toB) \subseteq Range(toB),
         m = Ack \/ m \in Range(toB), Quiet(h, r, m), board.conn # "none",
         BoardReturns(r), UNCHANGED <<flip, link, inbox>>, History
  PROVE  BoardQuiet(m)
PROOF
<1>1. r \in Run /\ Turn(board, r.b, m) /\ r.toB = h.toB
      /\ (link = "down" => r.toF = h.toF /\ r.closing \in {h.closing, FALSE})
      /\ NoNewComplete(h.toF, r.toF)
  BY DEF Quiet
<1>2. board' = r.b /\ toF' = r.toF /\ toB' = r.toB /\ closing' = r.closing
  BY DEF BoardReturns
<1>3. r.b \in BoardState /\ r.toF \in Seq(Rec) /\ r.toB \in Seq(Rec) /\ r.closing \in BOOLEAN
  BY <1>1 DEF Run
<1>4. NoNewComplete(toF, toF')
  BY <1>1, <1>2 DEF NoNewComplete
<1>5. link = "down" => toF' = << >> /\ toB' = << >> /\ closing' = FALSE
  BY <1>1, <1>2 DEF SessionInv, LinkInv
<1>6. Turn(board, board', m)
  BY <1>1, <1>2
<1>7. Range(toB') \subseteq Range(toB)
  BY <1>1, <1>2
<1> QED BY <1>2, <1>3, <1>4, <1>5, <1>6, <1>7 DEF BoardQuiet

\* A handler that no record called for.
LEMMA QuietFromBoard ==
  ASSUME SessionInv, NEW busy \in BOOLEAN, NEW r, Quiet(OnBoard(busy), r, Ack),
         board.conn # "none" \/ r.b.reason = board.reason,
         BoardReturns(r), UNCHANGED <<flip, link, inbox>>, History
  PROVE  BoardQuiet(Ack)
PROOF
<1> DEFINE h == OnBoard(busy)
<1>0. h \in Run /\ h.b = board /\ h.toF = toF /\ h.toB = toB /\ h.closing = closing
  BY RunOfBoard DEF SessionInv
<1> HIDE DEF h
<1>1. r \in Run /\ Turn(board, r.b, Ack) /\ r.toB = toB
      /\ (link = "down" => r.toF = toF /\ r.closing \in {closing, FALSE})
      /\ NoNewComplete(toF, r.toF)
  BY <1>0 DEF Quiet, h
<1>2. board' = r.b /\ toF' = r.toF /\ toB' = r.toB /\ closing' = r.closing
  BY DEF BoardReturns
<1>3. r.b \in BoardState /\ r.toF \in Seq(Rec) /\ r.toB \in Seq(Rec) /\ r.closing \in BOOLEAN
  BY <1>1 DEF Run
<1>5. link = "down" => toF' = << >> /\ toB' = << >> /\ closing' = FALSE
  BY <1>1, <1>2 DEF SessionInv, LinkInv
<1>6. board.conn = "none" => board'.reason = board.reason
  BY <1>2
<1> QED BY <1>1, <1>2, <1>3, <1>5, <1>6 DEF BoardQuiet

\* The link stood idle for too long.
LEMMA IdleTimeoutIsQuiet ==
  ASSUME SessionInv, IdleTimeout, History
  PROVE  BoardQuiet(Ack)
PROOF
<1> DEFINE h == OnBoard(FALSE)
<1>1. h \in Run
  BY RunOfBoard DEF SessionInv
<1> HIDE DEF h
<1>2. Terminate(h) \in Run /\ Calm(h, Terminate(h))
  BY <1>1, TerminateIsCalm
<1>3. Quiet(h, Terminate(h), Ack)
  BY <1>1, <1>2, CalmIsQuiet
<1>4. board.conn # "none" /\ BoardReturns(Terminate(h)) /\ UNCHANGED <<flip, link, inbox>>
  BY DEF IdleTimeout, h
<1> QED BY <1>3, <1>4, QuietFromBoard DEF h

\* hello is not answered.
LEMMA HelloTimeoutIsQuiet ==
  ASSUME SessionInv, HelloTimeout, History
  PROVE  BoardQuiet(Ack)
PROOF
<1> DEFINE h == OnBoard(FALSE)
<1>1. h \in Run /\ h.b = board
  BY RunOfBoard DEF SessionInv
<1>2. board.conn # "none" /\ BoardReturns(FailAuth(h)) /\ UNCHANGED <<flip, link, inbox>>
      /\ board.st = "hello_sent"
  BY DEF HelloTimeout, Overdue
<1> HIDE DEF h
<1>3. Quiet(h, FailAuth(h), Ack)
  BY <1>1, <1>2, FailAuthIsQuiet DEF SessionInv, StepInv
<1> QED BY <1>2, <1>3, QuietFromBoard DEF h

\* pair_init is not answered.
LEMMA PairReplyTimeoutIsQuiet ==
  ASSUME SessionInv, PairReplyTimeout, History
  PROVE  BoardQuiet(Ack)
PROOF
<1> DEFINE h == OnBoard(FALSE)
           b == [board EXCEPT !.waiting = FALSE]
           a == [h EXCEPT !.b = b]
<1>1. h \in Run /\ h.b = board
  BY RunOfBoard DEF SessionInv
<1>2. board \in BoardState
  BY DEF SessionInv, TypeInv
<1>3. b \in BoardState /\ SameStanding(board, b)
  BY <1>2 DEF BoardState, SameStanding
<1>4. board.conn # "none" /\ UNCHANGED <<flip, link, inbox>>
      /\ BoardReturns(FailPairing([h EXCEPT !.b.waiting = FALSE]))
  BY DEF PairReplyTimeout, Overdue
<1> HIDE DEF h
<1>5. [h EXCEPT !.b.waiting = FALSE] = a
  BY <1>1 DEF Run
<1> HIDE DEF b
<1>6. a \in Run /\ Calm(h, a)
  BY <1>1, <1>3, BooksAreCalm
<1> HIDE DEF a
<1>7. FailPairing(a) \in Run /\ Calm(a, FailPairing(a))
  BY <1>6, FailPairingIsCalm
<1>8. Quiet(h, FailPairing(a), Ack)
  BY <1>1, <1>6, <1>7, CalmIsTransitive, CalmIsQuiet
<1> QED BY <1>4, <1>5, <1>8, QuietFromBoard DEF h

\* A scan has something to report.
LEMMA CaptureIsQuiet ==
  ASSUME SessionInv, Capture, History
  PROVE  BoardQuiet(Ack)
PROOF
<1>1. PICK busy \in BOOLEAN :
        BoardReturns(LET h == [OnBoard(busy) EXCEPT !.b.backlog = @ + 1]
                     IN IF board.st = "authenticated" THEN KickSend(h) ELSE h)
  BY DEF Capture
<1>2. UNCHANGED <<flip, link, inbox>>
  BY DEF Capture
<1> DEFINE h == OnBoard(busy)
           n == board.backlog + 1
           b == [board EXCEPT !.backlog = n]
           a == [h EXCEPT !.b = b]
           r == IF board.st = "authenticated" THEN KickSend(a) ELSE a
<1>3. h \in Run /\ h.b = board
  BY RunOfBoard DEF SessionInv
<1>4. [OnBoard(busy) EXCEPT !.b.backlog = @ + 1] = a
  BY <1>3 DEF Run
<1>5. BoardReturns(r)
  BY <1>1, <1>4
<1> HIDE DEF h
<1>6. board \in BoardState
  BY DEF SessionInv, TypeInv
<1>7. n \in Int
  <2>1. board.backlog \in Int BY <1>6 DEF BoardState
  <2> QED BY <2>1
<1> HIDE DEF n
<1>8. b \in BoardState /\ SameStanding(board, b)
  BY <1>6, <1>7 DEF BoardState, SameStanding
<1> HIDE DEF b
<1>9. a \in Run /\ Calm(h, a)
  BY <1>3, <1>8, BooksAreCalm
<1> HIDE DEF a
<1>10. KickSend(a) \in Run /\ Calm(a, KickSend(a))
  BY <1>9, KickSendIsCalm
<1>11. r \in Run /\ Calm(h, r)
  <2>1. Calm(h, KickSend(a))
    BY <1>3, <1>9, <1>10, CalmIsTransitive
  <2> QED BY <2>1, <1>9, <1>10
<1> HIDE DEF r
<1>12. Quiet(h, r, Ack) /\ r.b.reason = board.reason
  BY <1>3, <1>11, CalmIsQuiet DEF Calm
<1> QED BY <1>2, <1>5, <1>12, QuietFromBoard DEF h

\* A write fails.
LEMMA WriteErrorIsQuiet ==
  ASSUME SessionInv, WriteError, History
  PROVE  BoardQuiet(Ack)
PROOF
<1> DEFINE h == OnBoard(FALSE)
           b == [board EXCEPT !.attempt = 0, !.key = 0]
           rest == Tail(toF)
           a == [b |-> b, toF |-> rest, toB |-> h.toB, closing |-> h.closing, busy |-> h.busy]
           r == Terminate(a)
<1>1. board \in BoardState /\ toF \in Seq(Rec) /\ toB \in Seq(Rec) /\ closing \in BOOLEAN
  BY DEF SessionInv, TypeInv
<1>2. toF # << >> /\ UNCHANGED <<flip, link, inbox>>
      /\ BoardReturns(Terminate([h EXCEPT !.toF = Tail(@), !.b.attempt = 0, !.b.key = 0]))
  BY DEF WriteError
<1>3. rest \in Seq(Rec) /\ Range(rest) \subseteq Range(toF)
  BY <1>1, <1>2, TailIs
<1>4. /\ h \in Run /\ h.b = board /\ h.toF = toF /\ h.toB = toB /\ h.closing = closing
  BY RunOfBoard DEF SessionInv
<1> HIDE DEF h
<1>5. [h EXCEPT !.toF = Tail(@), !.b.attempt = 0, !.b.key = 0] = a
  <2>1. h = [b |-> h.b, toF |-> h.toF, toB |-> h.toB, closing |-> h.closing, busy |-> h.busy]
    BY <1>4 DEF Run
  <2>2. [h EXCEPT !.toF = Tail(@), !.b.attempt = 0, !.b.key = 0]
          = [[h EXCEPT !.b = [h.b EXCEPT !.attempt = 0, !.key = 0]] EXCEPT !.toF = Tail(h.toF)]
    BY <2>1
  <2> DEFINE c == [h EXCEPT !.b = b]
  <2> HIDE DEF b, rest
  <2>3. c = [b |-> b, toF |-> h.toF, toB |-> h.toB, closing |-> h.closing, busy |-> h.busy]
    BY <2>1
  <2> HIDE DEF c
  <2>4. [c EXCEPT !.toF = rest] = a
    BY <2>3
  <2> QED BY <1>4, <2>2, <2>4 DEF b, c, rest
<1>6. b \in BoardState
  BY <1>1, Kinds DEF BoardState
<1>7. Turn(board, b, Ack)
  BY <1>1 DEF BoardState, Turn, Plain
<1> HIDE DEF b, rest
<1>8. a \in Run
  BY <1>3, <1>4, <1>6 DEF Run
<1>9. a.b = b /\ a.toF = rest /\ a.toB = toB /\ a.closing = closing
  BY <1>4
<1> HIDE DEF a
<1>10. r \in Run /\ Calm(a, r) /\ r.b = a.b /\ r.toF = a.toF /\ r.toB = a.toB
  BY <1>8, TerminateIsCalm
<1>11. BoardReturns(r)
  BY <1>2, <1>5
<1> HIDE DEF r
<1>12. /\ board' = b /\ toF' = rest /\ toB' = toB /\ closing' \in BOOLEAN
  BY <1>9, <1>10, <1>11 DEF BoardReturns, Run
<1>13. link = "up" /\ board.conn # "none"
  BY <1>2 DEF SessionInv, LinkInv, TypeInv
<1> QED BY <1>1, <1>2, <1>3, <1>6, <1>7, <1>12, <1>13 DEF BoardQuiet, NoNewComplete

-----------------------------------------------------------------------------
(* Answers and records that reach the ESP32.                               *)

\* The board, behind the message it handles.
Behind(busy) == [OnBoard(busy) EXCEPT !.toB = Tail(@)]

\* It has the records behind the first.
LEMMA BehindIs ==
  ASSUME SessionInv, toB # << >>, NEW busy \in BOOLEAN
  PROVE  /\ Behind(busy) \in Run /\ Behind(busy).b = board /\ Behind(busy).toF = toF
         /\ Behind(busy).closing = closing /\ Range(Behind(busy).toB) \subseteq Range(toB)
         /\ Head(toB) \in Rec /\ Head(toB) \in Range(toB)
PROOF
<1> DEFINE rest == Tail(toB)
<1>1. toB \in Seq(Rec) /\ board \in BoardState /\ toF \in Seq(Rec) /\ closing \in BOOLEAN
  BY DEF SessionInv, TypeInv
<1>2. rest \in Seq(Rec) /\ Range(rest) \subseteq Range(toB)
      /\ Head(toB) \in Rec /\ Head(toB) \in Range(toB)
  BY <1>1, TailIs
<1>3. OnBoard(busy) \in Run /\ OnBoard(busy).b = board /\ OnBoard(busy).toF = toF
      /\ OnBoard(busy).toB = toB /\ OnBoard(busy).closing = closing
  BY RunOfBoard DEF SessionInv
<1> DEFINE h == OnBoard(busy)
<1>4. Behind(busy) = [h EXCEPT !.toB = rest]
  BY <1>3 DEF Behind
<1> HIDE DEF h, rest, BoardState, Rec
<1>5. [h EXCEPT !.toB = rest] \in Run /\ [h EXCEPT !.toB = rest].b = h.b
      /\ [h EXCEPT !.toB = rest].toF = h.toF /\ [h EXCEPT !.toB = rest].closing = h.closing
      /\ [h EXCEPT !.toB = rest].toB = rest
  <2>1. h \in Run BY <1>3 DEF h
  <2> QED BY <1>2, <2>1 DEF Run
<1> QED BY <1>2, <1>3, <1>4, <1>5 DEF h

\* The answer to a write, for the board behind it.
LEMMA WriteCompleteIs ==
  ASSUME SessionInv, toB # << >>, NEW persists
  PROVE  WriteComplete(OnBoard(FALSE), persists) = Done(Behind(FALSE), persists)
PROOF
<1> DEFINE h == OnBoard(FALSE)
           g == Behind(FALSE)
           rest == Tail(h.toB)
<1>1. h \in Run /\ h.b = board
  BY RunOfBoard DEF SessionInv
<1>2. g = [h EXCEPT !.toB = rest] /\ g.b = h.b
  BY <1>1, BehindIs DEF Behind
<1>3. WriteComplete(h, persists)
        = StartNext(Completed([h EXCEPT !.toB = Tail(@), !.b.done = "none", !.busy = TRUE],
                              h.b.done, persists))
  BY DEF WriteComplete
<1> HIDE DEF h, g
<1>4. h = [b |-> h.b, toF |-> h.toF, toB |-> h.toB, closing |-> h.closing, busy |-> h.busy]
  BY <1>1 DEF Run
<1>5. [h EXCEPT !.toB = Tail(@), !.b.done = "none", !.busy = TRUE]
        = [[h EXCEPT !.toB = rest] EXCEPT !.b.done = "none", !.busy = TRUE]
  BY <1>4
<1>6. [h EXCEPT !.toB = Tail(@), !.b.done = "none", !.busy = TRUE] = Handling(g)
  BY <1>2, <1>5 DEF Handling
<1> QED BY <1>2, <1>3, <1>6 DEF Done, h, g

\* A record or an answer from the Flipper.
LEMMA BoardReceivesIs ==
  ASSUME SessionInv, BoardReceives, History
  PROVE  (\E m : BoardQuiet(m)) \/ BoardEnded
PROOF
<1>1. toB # << >> /\ UNCHANGED <<flip, link, inbox>>
  BY DEF BoardReceives
<1>2. link = "up" /\ board.conn # "none"
  BY <1>1 DEF SessionInv, LinkInv, TypeInv
<1>3. ASSUME NEW r, NEW busy \in BOOLEAN, NEW m, BoardReturns(r), m = Ack \/ m \in Range(toB),
             Quiet(Behind(busy), r, m)
      PROVE  BoardQuiet(m)
  <2> DEFINE h == Behind(busy)
  <2>1. /\ h \in Run /\ h.b = board /\ h.toF = toF
        /\ h.closing = closing /\ Range(h.toB) \subseteq Range(toB)
    BY <1>1, BehindIs
  <2>2. Quiet(h, r, m)
    BY <1>3
  <2> HIDE DEF h
  <2>3. NoNewComplete(toF, h.toF)
    BY <2>1 DEF NoNewComplete
  <2> QED BY <1>1, <1>2, <1>3, <2>1, <2>2, <2>3, QuietTurn
<1>4. CASE Head(toB) = Ack
  <2>1. PICK persists \in BOOLEAN : BoardReturns(WriteComplete(OnBoard(FALSE), persists))
    BY <1>4 DEF BoardReceives
  <2> DEFINE h == Behind(FALSE)
             r == Done(h, persists)
  <2>2. /\ h \in Run /\ h.b = board /\ h.toF = toF
        /\ h.closing = closing /\ Range(h.toB) \subseteq Range(toB)
    BY <1>1, BehindIs
  <2>3. BoardReturns(r)
    BY <1>1, <2>1, WriteCompleteIs
  <2>4. CASE board.done = "complete"
    <3>1. Quiet(h, r, Ack) \/ Ended(h, r)
      <4> HIDE DEF h
      <4> QED BY <2>2, <2>4, DoneEnds
    <3>2. CASE Quiet(h, r, Ack)
      BY <1>3, <2>3, <3>2
    <3>3. CASE Ended(h, r)
      <4> HIDE DEF h, r
      <4>1. board' = r.b /\ toF' = r.toF /\ toB' = r.toB /\ closing' = r.closing
        BY <2>3 DEF BoardReturns
      <4>2. r.b \in BoardState /\ r.toF \in Seq(Rec) /\ r.toB \in Seq(Rec) /\ r.closing \in BOOLEAN
        BY <3>3 DEF Ended, Run
      <4>3. /\ r.b.nvs = board.attempt /\ r.b.mode = board.mode /\ r.b.window = board.window
            /\ r.b.conn = board.conn /\ r.b.st = "complete_sent"
            /\ r.b.reason = board.reason /\ r.b.fails = board.fails
            /\ r.b.done \in Plain /\ r.toB = h.toB
        BY <2>2, <3>3 DEF Ended
      <4>4. \A m \in Range(r.toF) :
              m \in Range(toF) \/ m.type # "pair_complete" \/ m.secret = board.attempt
        BY <2>2, <3>3 DEF Ended
      <4>5. BoardEnded
        BY <1>1, <1>2, <2>2, <2>4, <4>1, <4>2, <4>3, <4>4 DEF BoardEnded
      <4> QED BY <4>5
    <3> QED BY <3>1, <3>2, <3>3
  <2>5. CASE board.done # "complete"
    <3>1. board.done = "authenticated" => board.mode = "runtime" /\ board.conn = "up"
      BY DEF SessionInv, StepInv, LinkInv
    <3>2. Quiet(h, r, Ack)
      <4> HIDE DEF h
      <4> QED BY <2>2, <2>5, <3>1, DoneIsQuiet
    <3> QED BY <1>3, <2>3, <3>2
  <2> QED BY <2>4, <2>5
<1>5. CASE Head(toB) # Ack /\ board.mode = "pairing"
  <2> DEFINE h == Behind(FALSE)
             m == Head(toB)
             r == PairingRecord(h, m)
  <2>1. BoardReturns(r)
    BY <1>5 DEF BoardReceives, Behind
  <2>2. h \in Run /\ h.b = board /\ m \in Rec /\ m \in Range(toB)
    BY <1>1, BehindIs
  <2>3. board.st # "idle" => board.conn = "up"
    BY DEF SessionInv, LinkInv
  <2>4. Quiet(h, r, m)
    <3> HIDE DEF h, m
    <3> QED BY <1>5, <2>2, <2>3, PairingRecordIsQuiet
  <2> QED BY <1>3, <2>1, <2>2, <2>4
<1>6. CASE Head(toB) # Ack /\ board.mode # "pairing"
  <2>1. PICK busy \in BOOLEAN :
          BoardReturns(RuntimeRecord([OnBoard(busy) EXCEPT !.toB = Tail(@)], Head(toB)))
    BY <1>6 DEF BoardReceives
  <2> DEFINE h == Behind(busy)
             m == Head(toB)
             r == RuntimeRecord(h, m)
  <2>2. BoardReturns(r)
    BY <2>1 DEF Behind
  <2>3. h \in Run /\ h.b = board /\ m \in Rec /\ m \in Range(toB)
    BY <1>1, BehindIs
  <2>4. board.mode = "runtime"
    BY <1>6 DEF SessionInv, TypeInv, BoardState
  <2>5. Quiet(h, r, m)
    <3> HIDE DEF h, m
    <3> QED BY <2>3, <2>4, RuntimeRecordIsQuiet
  <2> QED BY <1>3, <2>2, <2>3, <2>5
<1> QED BY <1>4, <1>5, <1>6

\* The Flipper is found to be one and subscribed to.
LEMMA SubscribedIsQuiet ==
  ASSUME SessionInv, Subscribed, History
  PROVE  BoardQuiet(Ack)
PROOF
<1> DEFINE h == OnBoard(FALSE)
           b == [board EXCEPT !.conn = "up"]
           a == [h EXCEPT !.b = b]
           r == IF board.mode = "runtime" THEN BeginAuth(a) ELSE BeginPairing(a)
<1>1. h \in Run /\ h.b = board /\ h.toF = toF /\ h.toB = toB /\ h.closing = closing
  BY RunOfBoard DEF SessionInv
<1>2. board \in BoardState
  BY DEF SessionInv, TypeInv
<1>3. /\ b \in BoardState /\ b.nvs = board.nvs /\ b.mode = board.mode /\ b.window = board.window
      /\ b.conn = "up" /\ b.st = board.st /\ b.reason = board.reason /\ b.fails = board.fails
      /\ b.key = board.key /\ b.done = board.done
  BY <1>2 DEF BoardState, Conns
<1>4. link = "up" /\ board.conn = "connecting" /\ NamesLeft /\ UNCHANGED <<flip, link, inbox>>
      /\ BoardReturns(IF board.mode = "runtime" THEN BeginAuth([h EXCEPT !.b.conn = "up"])
                      ELSE BeginPairing([h EXCEPT !.b.conn = "up"]))
  BY DEF Subscribed
<1> HIDE DEF h
<1>5. [h EXCEPT !.b.conn = "up"] = a
  BY <1>1 DEF Run
<1>6. BoardReturns(r)
  BY <1>4, <1>5
<1> HIDE DEF b
<1>7. a \in Run /\ a.b = b /\ a.toF = toF /\ a.toB = toB /\ a.closing = closing
  BY <1>1, <1>3, WithBoard
<1> HIDE DEF a
<1>8. FreshNames
  <2>1. FreshSecret \in 1 .. NSecrets /\ FreshSession \in 1 .. NSessions
    BY <1>4, NamesAreFresh
  <2> QED BY <2>1, SessionAssumption DEF FreshNames, Secret, Sids
<1>9. board.st = "idle" /\ board.mode \in {"runtime", "pairing"}
  BY <1>2, <1>4 DEF SessionInv, LinkInv, BoardState
<1>10. Quiet(a, r, Ack)
  <2>1. CASE board.mode = "runtime"
    BY <1>3, <1>7, <1>8, <2>1, BeginAuthIsQuiet
  <2>2. CASE board.mode = "pairing"
    BY <1>3, <1>7, <1>8, <1>9, <2>2, BeginPairingIsQuiet
  <2> QED BY <1>9, <2>1, <2>2
<1> HIDE DEF r
<1>11. r \in Run /\ Turn(b, r.b, Ack) /\ r.toB = toB /\ NoNewComplete(toF, r.toF)
  BY <1>7, <1>10 DEF Quiet
<1>12. Turn(board, r.b, Ack)
  BY <1>3, <1>4, <1>11 DEF Turn
<1>13. board' = r.b /\ toF' = r.toF /\ toB' = r.toB /\ closing' = r.closing
  BY <1>6 DEF BoardReturns
<1>14. r.b \in BoardState /\ r.toF \in Seq(Rec) /\ r.toB \in Seq(Rec) /\ r.closing \in BOOLEAN
  BY <1>11 DEF Run
<1> QED BY <1>4, <1>11, <1>12, <1>13, <1>14 DEF BoardQuiet

-----------------------------------------------------------------------------
(* The initial states, and the steps that begin and end a connection.      *)

\* A step that stores no secret leaves what separated the two as it is.
LEMMA StillSeparated ==
  ASSUME SessionInv, Remembers, flip'.file \in {flip.file, 0}, board'.nvs = board.nvs
  PROVE  forgot' = forgot /\ EraseInv'
PROOF
<1>1. forgot' \in BOOLEAN /\ (forgot' <=> forgot /\ ~ (flip'.file # 0 /\ flip'.file = board.nvs))
  BY PairedAgainIs DEF SessionInv
<1>2. forgot' = forgot
  BY <1>1 DEF SessionInv, EraseInv, TypeInv
<1>3. EraseInv'
  BY <1>2 DEF SessionInv, EraseInv
<1> QED BY <1>2, <1>3

\* And most steps leave both notes of history.
LEMMA HistoryStays ==
  ASSUME SessionInv, History, flip'.file \in {flip.file, 0}, board'.nvs = board.nvs
  PROVE  forgot' = forgot /\ unread' = unread /\ EraseInv'
PROOF BY StillSeparated DEF History

\* The empty queue.
LEMMA EmptyIs ==
  << >> \in Seq(Rec) /\ Range(<< >>) = {}
PROOF
<1>1. << >> \in Seq(Rec)
  BY EmptySeq
<1>2. DOMAIN << >> = {}
  BY EmptySeq
<1> QED BY <1>1, <1>2 DEF Range

\* The board as it boots.
LEMMA BoardAtBootIs ==
  ASSUME NEW nvs \in Secret, NEW backlog \in Int
  PROVE  LET b == BoardAtBoot(nvs, backlog)
         IN /\ b \in BoardState /\ b.nvs = nvs /\ b.conn = "none" /\ b.st = "idle"
            /\ b.reason = "normal" /\ b.done = "none" /\ b.window = (nvs = 0)
            /\ b.mode = (IF nvs # 0 THEN "runtime" ELSE "pairing")
PROOF
<1> DEFINE none == << >>
<1>1. << >> \in Seq(Sent)
  BY EmptySeq
<1> QED BY <1>1, Kinds DEF BoardAtBoot, BoardState, Conns, States, Dones, Reasons

\* The Flipper without its application.
LEMMA FlipperOffIs ==
  ASSUME NEW file \in Secret, NEW cached \in BOOLEAN
  PROVE  /\ FlipperOff(file, cached) \in FlipState
         /\ FlipperOff(file, cached).file = file /\ FlipperOff(file, cached).conn = FALSE
PROOF
<1>1. << >> \in Queue
  BY EmptySeq, SessionAssumption DEF Queue
<1> QED BY <1>1, Kinds DEF FlipperOff, FlipState, Phases

\* Two devices that never met, met before, or met before the ESP32 was erased.
LEMMA InitInv == Init => SessionInv
PROOF
<1> SUFFICES ASSUME Init PROVE SessionInv
  OBVIOUS
<1> USE DEF Init
<1>1. PICK nvs \in {0, 1}, file \in {0, 1} :
        /\ nvs # 0 => file = nvs
        /\ board = BoardAtBoot(nvs, MaxBacklog) /\ flip = FlipperOff(file, FALSE)
        /\ forgot = (nvs # file) /\ unread = FALSE
  OBVIOUS
<1>2. /\ board \in BoardState /\ board.nvs = nvs /\ board.conn = "none" /\ board.st = "idle"
      /\ board.reason = "normal" /\ board.done = "none" /\ board.window = (nvs = 0)
      /\ board.mode = (IF nvs # 0 THEN "runtime" ELSE "pairing")
  BY <1>1, BoardAtBootIs, SessionAssumption, Kinds
<1>3. flip \in FlipState /\ flip.file = file /\ flip.conn = FALSE
  <2>1. file \in Secret /\ FALSE \in BOOLEAN
    BY Kinds
  <2>2. flip = FlipperOff(file, FALSE)
    BY <1>1
  <2> QED BY ONLY <2>1, <2>2, FlipperOffIs
<1>4. TypeInv
  BY <1>1, <1>2, <1>3, EmptyIs DEF TypeInv
<1>5. LinkInv
  BY <1>2 DEF LinkInv
<1>6. StepInv
  BY <1>2 DEF StepInv
<1>7. CompleteInv
  BY EmptyIs DEF CompleteInv, InFlight
<1>8. WindowInv
  BY <1>1, <1>2, <1>3 DEF WindowInv
<1>9. EraseInv
  BY <1>1, <1>2, <1>3, ZenonT(40) DEF EraseInv
<1>10. UnknownInv
  BY <1>2, EmptyIs DEF UnknownInv
<1> QED BY <1>4, <1>5, <1>6, <1>7, <1>8, <1>9, <1>10 DEF SessionInv

\* The pairing window closes.
LEMMA WindowExpiresKeeps ==
  ASSUME SessionInv, WindowExpires, History
  PROVE  SessionInv'
PROOF
<1> USE DEF SessionInv
<1>1. board \in BoardState /\ UNCHANGED <<flip, link, closing, toF, inbox, toB>>
      /\ board' = [board EXCEPT !.window = FALSE]
  BY DEF WindowExpires, TypeInv
<1>2. /\ board' \in BoardState /\ board'.nvs = board.nvs /\ board'.mode = board.mode
      /\ board'.conn = board.conn /\ board'.st = board.st /\ board'.done = board.done
      /\ board'.reason = board.reason /\ board'.fails = board.fails /\ board'.window = FALSE
  BY <1>1 DEF BoardState
<1>3. forgot' = forgot /\ unread' = unread /\ EraseInv'
  BY <1>1, <1>2, HistoryStays
<1>4. TypeInv'
  BY <1>1, <1>2, <1>3 DEF TypeInv
<1>5. LinkInv'
  BY <1>1, <1>2 DEF LinkInv
<1>6. StepInv'
  BY <1>2 DEF StepInv
<1>7. CompleteInv'
  BY <1>1, <1>2, <1>3 DEF CompleteInv, InFlight
<1>8. WindowInv'
  BY <1>1, <1>2, <1>3 DEF WindowInv
<1>9. UnknownInv'
  BY <1>1, <1>2, <1>3 DEF UnknownInv
<1> QED BY <1>3, <1>4, <1>5, <1>6, <1>7, <1>8, <1>9

\* The board connects.
LEMMA ConnectKeeps ==
  ASSUME SessionInv, Connect, Remembers
  PROVE  SessionInv'
PROOF
<1> USE DEF SessionInv
<1>1. /\ board \in BoardState /\ flip \in FlipState
      /\ link = "down" /\ board.conn = "none" /\ ~ flip.conn
      /\ board.mode = "runtime" \/ board.window
      /\ link' = "up" /\ UNCHANGED <<closing, toF, inbox, toB>>
      /\ unread' = (unread /\ board.mode = "pairing")
  BY DEF Connect, TypeInv
<1>2. toF = << >> /\ toB = << >> /\ inbox = << >>
  BY <1>1 DEF LinkInv
<1>3. /\ board' \in BoardState /\ board'.nvs = board.nvs /\ board'.mode = board.mode
      /\ board'.conn = "connecting" /\ board'.st = "idle" /\ board'.done = "none"
      /\ board'.reason = "normal" /\ board'.window = board.window
  <2>1. << >> \in Seq(Sent)
    BY EmptySeq
  <2>2. board' = [board EXCEPT !.conn = "connecting", !.st = "idle", !.reason = "normal",
                            !.waiting = FALSE, !.seq = 0, !.rx = 0, !.done = "none",
                            !.pending = << >>, !.inFlight = FALSE, !.delay = 0]
    BY DEF Connect
  <2> QED BY <1>1, <2>1, <2>2, Kinds DEF BoardState, Conns, States, Dones, Reasons
<1>4. flip' \in FlipState /\ flip'.file = flip.file /\ flip'.conn = TRUE
  <2> DEFINE h == OnFlipper(FALSE)
             r == Post(h, "connected")
  <2>1. h \in FlipRun /\ h.f = flip
    BY DEF TypeInv, OnFlipper, FlipRun
  <2>2. flip' = [r.f EXCEPT !.conn = TRUE]
    BY DEF Connect
  <2> HIDE DEF h
  <2>3. r \in FlipRun /\ r.f.file = flip.file
    BY <2>1, PostTells DEF Events, Told
  <2> HIDE DEF r
  <2>4. r.f \in FlipState
    BY <2>3 DEF FlipRun
  <2> QED BY <2>2, <2>3, <2>4 DEF FlipState
<1>5. forgot' = forgot /\ EraseInv'
  BY <1>3, <1>4, StillSeparated
<1>6. TypeInv'
  BY <1>1, <1>3, <1>4, <1>5 DEF TypeInv
<1>7. LinkInv'
  BY <1>1, <1>3, <1>4 DEF LinkInv
<1>8. StepInv'
  BY <1>3 DEF StepInv
<1>9. CompleteInv'
  BY <1>1, <1>2, EmptyIs DEF CompleteInv, InFlight
<1>10. WindowInv'
  <2>1. board.st = "idle"
    BY <1>1 DEF LinkInv
  <2>2. board.mode = "pairing" /\ unread => unread'
    BY <1>1
  <2>3. board.mode = "pairing" /\ board.window => flip.file = 0 \/ forgot \/ unread
    BY <2>1 DEF WindowInv
  <2> SUFFICES ASSUME board'.mode = "pairing",
                      board'.window \/ board'.st \in {"init_sent", "confirm_sent"}
               PROVE  flip'.file = 0 \/ forgot' \/ unread'
    BY DEF WindowInv
  <2>4. board.mode = "pairing" /\ board.window
    BY <1>3
  <2> QED BY <1>4, <1>5, <2>2, <2>3, <2>4
<1>11. UnknownInv'
  BY <1>1, <1>2, <1>3, EmptyIs DEF UnknownInv
<1> QED BY <1>5, <1>6, <1>7, <1>8, <1>9, <1>10, <1>11

\* A record reaches the Flipper's worker.
LEMMA DeliveredKeeps ==
  ASSUME SessionInv, Delivered, History
  PROVE  SessionInv'
PROOF
<1> USE DEF SessionInv
<1> DEFINE m == Head(toF)
<1>1. /\ toF # << >> /\ toF' = Tail(toF) /\ inbox' = Append(inbox, m) /\ toB' = Append(toB, Ack)
      /\ UNCHANGED <<board, flip, link, closing>>
  BY DEF Delivered
<1>2. /\ toF' \in Seq(Rec) /\ Range(toF') \subseteq Range(toF) /\ m \in Rec /\ m \in Range(toF)
  BY <1>1, TailIs DEF TypeInv
<1>3. inbox' \in Seq(Rec) /\ Range(inbox') = Range(inbox) \cup {m}
  BY <1>1, <1>2, AppendIs DEF TypeInv
<1>4. Ack \in Rec /\ Ack.type = "ack"
  BY Kinds DEF Ack, Msg, Rec, Types
<1>5. toB' \in Seq(Rec) /\ Range(toB') = Range(toB) \cup {Ack}
  BY <1>1, <1>4, AppendIs DEF TypeInv
<1>6. link = "up"
  BY <1>1 DEF LinkInv, TypeInv
<1>7. forgot' = forgot /\ unread' = unread /\ EraseInv'
  BY <1>1, HistoryStays
<1>8. TypeInv'
  <2>1. UNCHANGED <<board, flip, link, closing, unread>> /\ forgot' = forgot
    BY <1>1, <1>7
  <2> QED BY <1>2, <1>3, <1>5, <2>1 DEF TypeInv
<1>9. LinkInv'
  BY <1>1, <1>6 DEF LinkInv
<1>10. StepInv'
  BY <1>1 DEF StepInv
<1>11. CompleteInv'
  BY <1>1, <1>2, <1>3, <1>7 DEF CompleteInv, InFlight
<1>12. WindowInv'
  BY <1>1, <1>7 DEF WindowInv
<1>13. UnknownInv'
  BY <1>1, <1>4, <1>5, <1>7 DEF UnknownInv, Honest
<1> QED BY <1>7, <1>8, <1>9, <1>10, <1>11, <1>12, <1>13

-----------------------------------------------------------------------------
(* The steps of the Flipper.                                               *)

\* The Flipper as its handlers take it.
LEMMA RunOfFlipper ==
  ASSUME TypeInv, NEW lost \in BOOLEAN
  PROVE  /\ OnFlipper(lost) \in FlipRun /\ OnFlipper(lost).f = flip /\ OnFlipper(lost).toB = toB
PROOF BY DEF TypeInv, OnFlipper, FlipRun

\* A turn of one of the Flipper's threads that leaves the record on its card alone.
FlipperQuiet ==
  /\ flip' \in FlipState /\ flip'.file = flip.file
  /\ link = "up" => flip'.conn
  /\ inbox' \in Seq(Rec) /\ Range(inbox') \subseteq Range(inbox) /\ (~ flip'.conn => inbox' = << >>)
  /\ toB' \in Seq(Rec) /\ (link = "down" => toB' = << >>)
  /\ \A m \in Range(toB') :
       \/ m \in Range(toB)
       \/ Honest(m, flip.file)
       \/ unread' /\ m.type = "unknown_board"
  /\ closing' \in BOOLEAN /\ (link = "down" => closing' = FALSE)
  /\ UNCHANGED <<board, link, toF>>
  /\ Remembers /\ unread' \in BOOLEAN /\ (unread => unread')

\* What it says of the notes of history holds of the steps that leave them.
LEMMA NotesStay ==
  ASSUME SessionInv, History
  PROVE  Remembers /\ unread' \in BOOLEAN /\ (unread => unread')
PROOF BY DEF History, SessionInv, TypeInv

\* It keeps the invariant.
LEMMA FlipperQuietKeeps ==
  ASSUME SessionInv, FlipperQuiet
  PROVE  SessionInv'
PROOF
<1> USE DEF SessionInv, FlipperQuiet
<1>1. forgot' = forgot /\ EraseInv'
  BY StillSeparated
<1>2. TypeInv'
  BY <1>1 DEF TypeInv
<1>3. LinkInv'
  BY DEF LinkInv
<1>4. StepInv'
  BY DEF StepInv
<1>5. CompleteInv'
  BY <1>1 DEF CompleteInv, InFlight
<1>6. WindowInv'
  BY <1>1 DEF WindowInv
<1>7. UnknownInv'
  BY DEF UnknownInv
<1> QED BY <1>1, <1>2, <1>3, <1>4, <1>5, <1>6, <1>7

\* A handler of the Flipper that tells what is so is such a turn.
LEMMA ToldIsQuiet ==
  ASSUME SessionInv, NEW h \in FlipRun, h.f.conn = flip.conn, h.f.file = flip.file, h.toB = toB,
         NEW r, Told(h, r), flip' = r.f, toB' = r.toB,
         inbox' \in Seq(Rec), Range(inbox') \subseteq Range(inbox), ~ flip.conn => inbox' = << >>,
         UNCHANGED <<board, link, closing, toF>>,
         Remembers, unread' \in BOOLEAN, unread => unread'
  PROVE  FlipperQuiet
PROOF
<1>1. r.f \in FlipState /\ r.toB \in Seq(Rec)
  BY DEF Told, FlipRun
<1>2. r.f.conn = flip.conn /\ r.f.file = flip.file /\ (link = "down" => r.toB = toB)
      /\ \A m \in Range(r.toB) : m \in Range(toB) \/ Honest(m, flip.file)
  BY DEF Told
<1>3. closing' \in BOOLEAN /\ (link = "down" => closing' = FALSE /\ toB = << >>)
      /\ (link = "up" => flip.conn)
  BY DEF SessionInv, TypeInv, LinkInv
<1> QED BY <1>1, <1>2, <1>3 DEF FlipperQuiet

\* And so is one that cannot read the record.
LEMMA ShrugsIsQuiet ==
  ASSUME SessionInv, NEW h \in FlipRun, h.f.conn = flip.conn, h.f.file = flip.file, h.toB = toB,
         NEW r, Shrugs(h, r), flip' = r.f, toB' = r.toB,
         inbox' \in Seq(Rec), Range(inbox') \subseteq Range(inbox), ~ flip.conn => inbox' = << >>,
         UNCHANGED <<board, link, closing, toF>>, Remembers, unread' = TRUE
  PROVE  FlipperQuiet
PROOF
<1>1. r.f \in FlipState /\ r.toB \in Seq(Rec)
  BY DEF Shrugs, FlipRun
<1>2. r.f.conn = flip.conn /\ r.f.file = flip.file /\ (link = "down" => r.toB = toB)
      /\ \A m \in Range(r.toB) : m \in Range(toB) \/ m.type = "unknown_board"
  BY DEF Shrugs
<1>3. closing' \in BOOLEAN /\ (link = "down" => closing' = FALSE /\ toB = << >>)
      /\ (link = "up" => flip.conn)
  BY DEF SessionInv, TypeInv, LinkInv
<1> QED BY <1>1, <1>2, <1>3 DEF FlipperQuiet

\* The Flipper stores the secret of the last record, or loses the one it had.
FlipperSaves ==
  \E m \in Range(inbox) :
    /\ m.type = "pair_complete"
    /\ flip' \in FlipState /\ flip'.file \in {flip.file, 0, m.secret} /\ flip'.conn = flip.conn
    /\ inbox' \in Seq(Rec) /\ Range(inbox') \subseteq Range(inbox) /\ (~ flip.conn => inbox' = << >>)
    /\ toB' \in Seq(Rec) /\ (link = "down" => toB' = toB)
    /\ UNCHANGED <<board, link, closing, toF>>
    /\ Remembers /\ unread' \in BOOLEAN /\ (unread => unread')

\* And that keeps the invariant: the secret is the one the ESP32 has stored, or what separated them shows.
LEMMA FlipperSavesKeeps ==
  ASSUME SessionInv, FlipperSaves
  PROVE  SessionInv'
PROOF
<1> USE DEF SessionInv
<1>1. PICK m \in Range(inbox) :
    /\ m.type = "pair_complete"
    /\ flip' \in FlipState /\ flip'.file \in {flip.file, 0, m.secret} /\ flip'.conn = flip.conn
    /\ inbox' \in Seq(Rec) /\ Range(inbox') \subseteq Range(inbox) /\ (~ flip.conn => inbox' = << >>)
    /\ toB' \in Seq(Rec) /\ (link = "down" => toB' = toB)
    /\ UNCHANGED <<board, link, closing, toF>>
    /\ Remembers /\ unread' \in BOOLEAN /\ (unread => unread')
  BY DEF FlipperSaves
<1>2. forgot' \in BOOLEAN /\ (forgot' <=> forgot /\ ~ (flip'.file # 0 /\ flip'.file = board.nvs))
  BY <1>1, PairedAgainIs
<1>3. /\ board.conn = "none" \/ (board.mode = "pairing" /\ board.st = "complete_sent")
      /\ m.secret \in {0, board.nvs} \/ (board.nvs = 0 /\ forgot)
      /\ board.mode = "pairing" /\ board.nvs # 0 /\ board.st # "complete_sent" => ~ board.window
  BY <1>1 DEF CompleteInv, InFlight
<1>4. TypeInv'
  BY <1>1, <1>2 DEF TypeInv
<1>5. LinkInv'
  BY <1>1 DEF LinkInv
<1>6. StepInv'
  BY <1>1 DEF StepInv
<1>7. EraseInv'
  <2>1. flip'.file # 0 /\ board.nvs # flip'.file => forgot'
    BY <1>1, <1>2, <1>3 DEF EraseInv
  <2> QED BY <1>1, <1>2, <2>1 DEF EraseInv
<1>8. CompleteInv'
  <2>1. board.nvs = 0 => forgot' = forgot
    BY <1>2 DEF TypeInv
  <2> QED BY <1>1, <1>2, <2>1 DEF CompleteInv, InFlight
<1>9. WindowInv'
  <2>1. CASE board.nvs = 0
    BY <1>1, <1>7, <2>1 DEF EraseInv, WindowInv
  <2>2. CASE board.nvs # 0
    BY <1>1, <1>3, <2>2 DEF WindowInv, LinkInv
  <2> QED BY <2>1, <2>2
<1>10. UnknownInv'
  <2>1. SUFFICES ASSUME board.mode = "runtime"
                 PROVE  board.reason = "normal" /\ Range(toB') = {}
    BY <1>1, <2>1 DEF UnknownInv
  <2>2. board.conn = "none" /\ link = "down" /\ toB' = << >>
    BY <1>1, <1>3, <2>1 DEF LinkInv
  <2> QED BY <2>2, EmptyIs DEF LinkInv
<1> QED BY <1>4, <1>5, <1>6, <1>7, <1>8, <1>9, <1>10

\* The worker's turn is one or the other.
LEMMA FlipperHandlesIs ==
  ASSUME SessionInv, FlipperHandles, Remembers
  PROVE  FlipperQuiet \/ FlipperSaves
PROOF
<1>1. inbox # << >> /\ inbox' = Tail(inbox) /\ UNCHANGED <<board, link, closing, toF>>
  BY DEF FlipperHandles
<1>2. PICK failure : LET h == Handled(OnFlipper(failure = "notification"), Head(inbox), failure)
                     IN /\ flip' = h.f /\ toB' = h.toB
                        /\ unread' = (unread \/ failure = "unreadable")
  BY DEF FlipperHandles
<1> DEFINE m == Head(inbox)
           h == OnFlipper(failure = "notification")
           r == Handled(h, m, failure)
<1>3. h \in FlipRun /\ h.f = flip /\ h.toB = toB
  BY RunOfFlipper DEF SessionInv
<1>4. /\ inbox' \in Seq(Rec) /\ Range(inbox') \subseteq Range(inbox) /\ m \in Rec /\ m \in Range(inbox)
  BY <1>1, TailIs DEF SessionInv, TypeInv
<1>5. flip.conn
  BY <1>1 DEF SessionInv, LinkInv
<1>6. flip' = r.f /\ toB' = r.toB
  BY <1>2
<1>a. unread' \in BOOLEAN /\ (unread => unread') /\ (failure = "unreadable" => unread' = TRUE)
  BY <1>2 DEF SessionInv, TypeInv
<1> HIDE DEF h, m
<1>7. Told(h, r) \/ (failure = "unreadable" /\ Shrugs(h, r)) \/ (m.type = "pair_complete" /\ Saved(h, r, m))
  BY <1>3, <1>4, HandledTells
<1> HIDE DEF r
<1>8. CASE Told(h, r)
  BY <1>1, <1>3, <1>4, <1>5, <1>6, <1>8, <1>a, ToldIsQuiet
<1>b. CASE failure = "unreadable" /\ Shrugs(h, r)
  BY <1>1, <1>3, <1>4, <1>5, <1>6, <1>a, <1>b, ShrugsIsQuiet
<1>9. CASE m.type = "pair_complete" /\ Saved(h, r, m)
  <2>1. r.f \in FlipState /\ r.toB \in Seq(Rec)
    BY <1>9 DEF Saved, FlipRun
  <2>2. r.f.conn = flip.conn /\ r.f.file \in {flip.file, 0, m.secret}
        /\ (link = "down" => r.toB = toB)
    BY <1>3, <1>9 DEF Saved
  <2> QED BY <1>1, <1>4, <1>5, <1>6, <1>9, <1>a, <2>1, <2>2 DEF FlipperSaves
<1> QED BY <1>7, <1>8, <1>9, <1>b

\* A command of the user.
LEMMA UserCommandIsQuiet ==
  ASSUME SessionInv, UserCommand, History
  PROVE  FlipperQuiet
PROOF
<1> DEFINE h == OnFlipper(FALSE)
           r == NotifyProtected(h, "command")
<1>1. flip' = r.f /\ toB' = r.toB /\ UNCHANGED <<board, link, closing, toF, inbox>>
  BY DEF UserCommand
<1>2. h \in FlipRun /\ h.f = flip /\ h.toB = toB
  BY RunOfFlipper DEF SessionInv
<1> HIDE DEF h
<1>3. Told(h, r)
  BY <1>2, NotifyProtectedTells
<1> HIDE DEF r
<1>4. inbox' \in Seq(Rec) /\ Range(inbox') \subseteq Range(inbox) /\ (~ flip.conn => inbox' = << >>)
  BY <1>1 DEF SessionInv, TypeInv, LinkInv
<1>5. Remembers /\ unread' \in BOOLEAN /\ (unread => unread')
  BY DEF History, SessionInv, TypeInv
<1> QED BY <1>1, <1>2, <1>3, <1>4, <1>5, ToldIsQuiet

\* The main thread takes an event.
LEMMA MainHandlesIsQuiet ==
  ASSUME SessionInv, MainHandles, History
  PROVE  FlipperQuiet
PROOF
<1> DEFINE event == Head(flip.events)
           rest == Tail(flip.events)
           f == [flip EXCEPT !.events = rest]
           h == [OnFlipper(FALSE) EXCEPT !.f = f]
           p == ResetPairing(h)
           q == ResetSession(p)
           reset == q.f
<1>1. /\ flip.events # << >>
      /\ flip' = CASE event = "connected" -> [reset EXCEPT !.phase = "exchanging"]
                   [] event = "advertising" ->
                        IF flip.phase = "done" THEN f ELSE [reset EXCEPT !.phase = "waiting"]
                   [] event = "fatal" -> [f EXCEPT !.phase = "failed"]
                   [] event = "capability" -> [f EXCEPT !.known = TRUE]
                   [] OTHER -> [f EXCEPT !.phase = event]
      /\ closing' = (closing \/ (event = "fatal" /\ link = "up"))
      /\ UNCHANGED <<board, link, toF, inbox, toB>>
  BY DEF MainHandles
<1>2. flip \in FlipState
  BY DEF SessionInv, TypeInv
<1>3. event \in Events /\ rest \in Queue
  <2>1. flip.events \in Seq(Events) /\ Len(flip.events) <= EventCap /\ Len(flip.events) \in Nat
    BY <1>2, LenProperties DEF FlipState, Queue
  <2>2. rest \in Seq(Events) /\ Len(rest) = Len(flip.events) - 1 /\ event \in Events
    BY <1>1, <2>1, HeadTailProperties
  <2> QED BY <2>1, <2>2, SessionAssumption DEF Queue
<1> HIDE DEF rest, event
<1>4. f \in FlipState /\ f.file = flip.file /\ f.conn = flip.conn
  BY <1>2, <1>3 DEF FlipState
<1> HIDE DEF f
<1>5. h \in FlipRun /\ h.f = f
  <2>1. OnFlipper(FALSE) \in FlipRun
    BY RunOfFlipper DEF SessionInv
  <2> DEFINE o == OnFlipper(FALSE)
  <2> HIDE DEF o, FlipState, Rec
  <2>2. [o EXCEPT !.f = f] \in FlipRun /\ [o EXCEPT !.f = f].f = f
    BY <1>4, <2>1 DEF FlipRun, o
  <2> QED BY <2>2 DEF o
<1> HIDE DEF h
<1>6. p \in FlipRun /\ p.f.file = flip.file /\ p.f.conn = flip.conn
  BY <1>4, <1>5, ResetPairingTells DEF Told
<1> HIDE DEF p
<1>7. q \in FlipRun /\ q.f.file = flip.file /\ q.f.conn = flip.conn
  BY <1>6, ResetSessionTells DEF Told
<1> HIDE DEF q
<1>8. reset \in FlipState /\ reset.file = flip.file /\ reset.conn = flip.conn
  BY <1>7 DEF FlipRun
<1> HIDE DEF reset
<1>9. flip' \in FlipState /\ flip'.file = flip.file /\ flip'.conn = flip.conn
  <2>1. CASE event = "connected"
    <3>1. flip' = [reset EXCEPT !.phase = "exchanging"]
      BY <1>1, <2>1
    <3> QED BY <1>8, <3>1 DEF FlipState, Phases
  <2>2. CASE event = "advertising"
    <3>1. flip' = IF flip.phase = "done" THEN f ELSE [reset EXCEPT !.phase = "waiting"]
      BY <1>1, <2>2
    <3>2. [reset EXCEPT !.phase = "waiting"] \in FlipState
          /\ [reset EXCEPT !.phase = "waiting"].file = flip.file
          /\ [reset EXCEPT !.phase = "waiting"].conn = flip.conn
      BY <1>8 DEF FlipState, Phases
    <3> QED BY <1>4, <3>1, <3>2
  <2>3. CASE event = "fatal"
    <3>1. flip' = [f EXCEPT !.phase = "failed"]
      BY <1>1, <2>3
    <3> QED BY <1>4, <3>1 DEF FlipState, Phases
  <2>4. CASE event = "capability"
    <3>1. flip' = [f EXCEPT !.known = TRUE]
      BY <1>1, <2>4
    <3> QED BY <1>4, <3>1 DEF FlipState
  <2>5. CASE event \notin {"connected", "advertising", "fatal", "capability"}
    <3>1. flip' = [f EXCEPT !.phase = event]
      BY <1>1, <2>5
    <3>2. event \in Phases
      BY <1>3, <2>5 DEF Events, Phases
    <3> QED BY <1>4, <3>1, <3>2 DEF FlipState
  <2> QED BY <2>1, <2>2, <2>3, <2>4, <2>5
<1>10. closing' \in BOOLEAN /\ (link = "down" => closing' = FALSE /\ toB = << >>)
       /\ (link = "up" => flip.conn) /\ (~ flip.conn => inbox = << >>)
  BY <1>1 DEF SessionInv, TypeInv, LinkInv
<1>11. toB \in Seq(Rec) /\ inbox \in Seq(Rec)
  BY DEF SessionInv, TypeInv
<1>12. UNCHANGED <<board, link, toF, inbox, toB>>
  BY <1>1
<1>13. Remembers /\ unread' \in BOOLEAN /\ (unread => unread')
  BY NotesStay
<1> QED BY <1>9, <1>10, <1>11, <1>12, <1>13 DEF FlipperQuiet

\* The Flipper notices that the link is gone.
LEMMA FlipperDisconnectIsQuiet ==
  ASSUME SessionInv, FlipperDisconnect, History
  PROVE  FlipperQuiet
PROOF
<1> DEFINE h == OnFlipper(FALSE)
           r == Post(h, "advertising")
<1>1. /\ link = "down" /\ inbox = << >> /\ flip' = [r.f EXCEPT !.conn = FALSE]
      /\ UNCHANGED <<board, link, closing, toF, inbox, toB>>
  BY DEF FlipperDisconnect
<1>2. h \in FlipRun /\ h.f = flip
  BY RunOfFlipper DEF SessionInv
<1> HIDE DEF h
<1>3. r \in FlipRun /\ r.f.file = flip.file
  BY <1>2, PostTells DEF Events, Told
<1> HIDE DEF r
<1>4. r.f \in FlipState
  BY <1>3 DEF FlipRun
<1>5. flip' \in FlipState /\ flip'.file = flip.file /\ flip'.conn = FALSE
  BY <1>1, <1>3, <1>4 DEF FlipState
<1>6. toB = << >> /\ closing = FALSE /\ toB \in Seq(Rec) /\ inbox \in Seq(Rec)
  BY <1>1 DEF SessionInv, LinkInv, TypeInv
<1>7. Remembers /\ unread' \in BOOLEAN /\ (unread => unread')
  BY NotesStay
<1> QED BY <1>1, <1>5, <1>6, <1>7 DEF FlipperQuiet

\* The application is started.
LEMMA FlipperStartIsQuiet ==
  ASSUME SessionInv, FlipperStart, History
  PROVE  FlipperQuiet
PROOF
<1>1. /\ flip' = [flip EXCEPT !.up = TRUE, !.phase = "waiting"]
      /\ UNCHANGED <<board, link, closing, toF, inbox, toB>>
  BY DEF FlipperStart
<1>2. flip \in FlipState /\ toB \in Seq(Rec) /\ inbox \in Seq(Rec) /\ closing \in BOOLEAN
  BY DEF SessionInv, TypeInv
<1>3. flip' \in FlipState /\ flip'.file = flip.file /\ flip'.conn = flip.conn
  BY <1>1, <1>2 DEF FlipState, Phases
<1>4. /\ link = "down" => closing = FALSE /\ toB = << >>
      /\ link = "up" => flip.conn
      /\ ~ flip.conn => inbox = << >>
  BY DEF SessionInv, LinkInv
<1>5. Remembers /\ unread' \in BOOLEAN /\ (unread => unread')
  BY NotesStay
<1> QED BY <1>1, <1>2, <1>3, <1>4, <1>5 DEF FlipperQuiet

\* The record is removed from the card.
LEMMA RecordRemovedKeeps ==
  ASSUME SessionInv, RecordRemoved, History
  PROVE  SessionInv'
PROOF
<1> USE DEF SessionInv
<1>1. flip' = [flip EXCEPT !.file = 0] /\ UNCHANGED <<board, link, closing, toF, inbox, toB>>
  BY DEF RecordRemoved
<1>2. flip \in FlipState
  BY DEF TypeInv
<1>3. flip' \in FlipState /\ flip'.file = 0 /\ flip'.conn = flip.conn
  BY <1>1, <1>2, Kinds DEF FlipState
<1>4. forgot' = forgot /\ unread' = unread /\ EraseInv'
  BY <1>1, <1>3, HistoryStays
<1>5. TypeInv'
  BY <1>1, <1>3, <1>4 DEF TypeInv
<1>6. LinkInv'
  BY <1>1, <1>3 DEF LinkInv
<1>7. StepInv'
  BY <1>1 DEF StepInv
<1>8. CompleteInv'
  BY <1>1, <1>4 DEF CompleteInv, InFlight
<1>9. WindowInv'
  BY <1>1, <1>3, <1>4 DEF WindowInv
<1>10. UnknownInv'
  BY <1>1, <1>3, <1>4 DEF UnknownInv
<1> QED BY <1>4, <1>5, <1>6, <1>7, <1>8, <1>9, <1>10

-----------------------------------------------------------------------------
(* Links that are lost, restarts and the factory reset.                    *)

\* The link is lost, with the Flipper's application or without it.
LinkDrops ==
  /\ LinkDown
  /\ flip' \in FlipState /\ flip'.file \in {flip.file, 0}
  /\ inbox' \in Seq(Rec) /\ Range(inbox') \subseteq Range(inbox) /\ (~ flip'.conn => inbox' = << >>)
  /\ UNCHANGED board
  /\ History

\* It keeps the invariant, for nothing that was under way arrives.
LEMMA LinkDropsKeeps ==
  ASSUME SessionInv, LinkDrops
  PROVE  SessionInv'
PROOF
<1> USE DEF SessionInv
<1>1. /\ link' = "down" /\ closing' = FALSE /\ toF' = << >> /\ toB' = << >>
      /\ flip' \in FlipState /\ flip'.file \in {flip.file, 0} /\ board' = board /\ History
      /\ inbox' \in Seq(Rec) /\ Range(inbox') \subseteq Range(inbox)
      /\ ~ flip'.conn => inbox' = << >>
  BY DEF LinkDrops, LinkDown
<1>2. Range(toF') = {} /\ Range(toB') = {} /\ toF' \in Seq(Rec) /\ toB' \in Seq(Rec)
  BY <1>1, EmptyIs
<1>3. forgot' = forgot /\ unread' = unread /\ EraseInv'
  BY <1>1, HistoryStays
<1>4. TypeInv'
  BY <1>1, <1>2, <1>3 DEF TypeInv
<1>5. LinkInv'
  BY <1>1 DEF LinkInv
<1>6. StepInv'
  BY <1>1 DEF StepInv
<1>7. CompleteInv'
  BY <1>1, <1>2, <1>3 DEF CompleteInv, InFlight
<1>8. WindowInv'
  BY <1>1, <1>3 DEF WindowInv
<1>9. UnknownInv'
  BY <1>1, <1>2, <1>3 DEF UnknownInv
<1> QED BY <1>3, <1>4, <1>5, <1>6, <1>7, <1>8, <1>9

\* However it is lost.
LEMMA LinkDropsIs ==
  ASSUME SessionInv, LinkCloses \/ LinkLost \/ FlipperStops, History
  PROVE  LinkDrops
PROOF
<1>1. flip \in FlipState /\ inbox \in Seq(Rec) /\ (~ flip.conn => inbox = << >>)
  BY DEF SessionInv, TypeInv, LinkInv
<1>2. CASE LinkCloses \/ LinkLost
  BY <1>1, <1>2 DEF LinkCloses, LinkLost, LinkDrops
<1>3. CASE FlipperStops
  <2>1. PICK file \in {flip.file, 0} : flip' = FlipperOff(file, flip.cached)
    BY <1>3 DEF FlipperStops
  <2>2. inbox' = << >> /\ LinkDown /\ UNCHANGED board
    BY <1>3 DEF FlipperStops
  <2>3. flip.file \in Secret /\ flip.cached \in BOOLEAN
    BY <1>1 DEF FlipState
  <2>4. flip' \in FlipState /\ flip'.file = file
    BY <2>1, <2>3, FlipperOffIs, Kinds
  <2> QED BY <2>1, <2>2, <2>4, EmptyIs DEF LinkDrops
<1> QED BY <1>2, <1>3

\* The board restarts.
LEMMA RestartKeeps ==
  ASSUME SessionInv, Restart, History
  PROVE  SessionInv'
PROOF
<1> USE DEF SessionInv
<1>1. /\ link' = "down" /\ closing' = FALSE /\ toF' = << >> /\ toB' = << >>
      /\ flip' = flip /\ inbox' = inbox /\ board' = BoardAtBoot(board.nvs, board.backlog)
  BY DEF Restart, LinkDown
<1>2. Range(toF') = {} /\ Range(toB') = {} /\ toF' \in Seq(Rec) /\ toB' \in Seq(Rec)
  BY <1>1, EmptyIs
<1>3. board.nvs \in Secret /\ board.backlog \in Int
  BY DEF TypeInv, BoardState
<1>4. /\ board' \in BoardState /\ board'.nvs = board.nvs /\ board'.conn = "none"
      /\ board'.st = "idle" /\ board'.reason = "normal" /\ board'.done = "none"
      /\ board'.window = (board.nvs = 0)
      /\ board'.mode = (IF board.nvs # 0 THEN "runtime" ELSE "pairing")
  BY <1>1, <1>3, BoardAtBootIs
<1>5. forgot' = forgot /\ unread' = unread /\ EraseInv'
  BY <1>1, <1>4, HistoryStays
<1>6. TypeInv'
  BY <1>1, <1>2, <1>4, <1>5 DEF TypeInv
<1>7. LinkInv'
  BY <1>1, <1>4 DEF LinkInv
<1>8. StepInv'
  BY <1>4 DEF StepInv
<1>9. CompleteInv'
  BY <1>1, <1>2, <1>4, <1>5 DEF CompleteInv, InFlight
<1>10. WindowInv'
  BY <1>1, <1>4, <1>5 DEF WindowInv, EraseInv
<1>11. UnknownInv'
  BY <1>2, <1>4 DEF UnknownInv
<1> QED BY <1>5, <1>6, <1>7, <1>8, <1>9, <1>10, <1>11

\* The factory reset erases the secret.
LEMMA FactoryResetKeeps ==
  ASSUME SessionInv, FactoryReset
  PROVE  SessionInv'
PROOF
<1> USE DEF SessionInv
<1>1. /\ link' = "down" /\ closing' = FALSE /\ toF' = << >> /\ toB' = << >>
      /\ flip' = flip /\ inbox' = inbox /\ board' = BoardAtBoot(0, board.backlog)
      /\ forgot' = TRUE /\ unread' = unread
  BY DEF FactoryReset, LinkDown
<1>2. Range(toF') = {} /\ Range(toB') = {} /\ toF' \in Seq(Rec) /\ toB' \in Seq(Rec)
  BY <1>1, EmptyIs
<1>3. board.backlog \in Int
  BY DEF TypeInv, BoardState
<1>4. /\ board' \in BoardState /\ board'.nvs = 0 /\ board'.conn = "none"
      /\ board'.st = "idle" /\ board'.reason = "normal" /\ board'.done = "none"
      /\ board'.mode = "pairing"
  BY <1>1, <1>3, BoardAtBootIs, Kinds
<1>5. TypeInv'
  BY <1>1, <1>2, <1>4 DEF TypeInv
<1>6. LinkInv'
  BY <1>1, <1>4 DEF LinkInv
<1>7. StepInv'
  BY <1>4 DEF StepInv
<1>8. CompleteInv'
  BY <1>1, <1>2, <1>4 DEF CompleteInv, InFlight
<1>9. WindowInv' /\ EraseInv'
  BY <1>1, <1>4 DEF WindowInv, EraseInv
<1>10. UnknownInv'
  BY <1>4 DEF UnknownInv
<1> QED BY <1>5, <1>6, <1>7, <1>8, <1>9, <1>10

\* What BLE_GAP_EVENT_DISCONNECT decides, by the verdict on the connection.
LEMMA BoardDisconnectIs ==
  ASSUME SessionInv, BoardDisconnect
  PROVE  /\ link = "down" /\ board.conn # "none" /\ UNCHANGED <<flip, link, closing, toF, inbox, toB>>
         /\ board' \in BoardState /\ board'.nvs = board.nvs /\ board'.conn = "none"
         /\ board'.st = "idle" /\ board'.reason = "normal" /\ board'.done = "none"
         /\ board'.fails = board.fails
         /\ \/ board'.mode = board.mode /\ (board.mode = "pairing" => board'.window = FALSE)
            \/ board.mode = "runtime" /\ board.reason = "unknown_board" /\ board'.mode = "pairing"
         /\ board.mode = "runtime" /\ board.reason = "auth_failed" => board'.delay = board.fails
PROOF
<1> DEFINE b == [board EXCEPT !.conn = "none", !.st = "idle", !.waiting = FALSE,
                              !.reason = "normal", !.done = "none", !.pending = << >>,
                              !.attempt = 0, !.key = 0, !.inFlight = FALSE]
<1>1. /\ link = "down" /\ board.conn # "none" /\ UNCHANGED <<flip, link, closing, toF, inbox, toB>>
      /\ board' = Afterwards(b, board.reason)
  BY DEF BoardDisconnect
<1>2. board \in BoardState
  BY DEF SessionInv, TypeInv
<1>3. /\ b \in BoardState /\ b.nvs = board.nvs /\ b.conn = "none" /\ b.st = "idle"
      /\ b.reason = "normal" /\ b.done = "none" /\ b.fails = board.fails /\ b.mode = board.mode
  <2>1. << >> \in Seq(Sent)
    BY EmptySeq
  <2> QED BY <1>2, <2>1, ZenonT(40), Kinds DEF BoardState, Conns, States, Dones, Reasons
<1> HIDE DEF b
<1>4. CASE board.mode = "pairing"
  <2>1. board' = [b EXCEPT !.window = FALSE]
    BY <1>1, <1>3, <1>4 DEF Afterwards
  <2> QED BY <1>1, <1>3, <1>4, <2>1, ZenonT(40) DEF BoardState
<1>5. CASE board.mode = "runtime" /\ board.reason = "unknown_board"
  <2>1. board' = [b EXCEPT !.mode = "pairing", !.window = TRUE]
    BY <1>1, <1>3, <1>5 DEF Afterwards
  <2> QED BY <1>1, <1>3, <1>5, <2>1, ZenonT(40) DEF BoardState
<1>6. CASE board.mode = "runtime" /\ board.reason = "auth_failed"
  <2>1. board' = [b EXCEPT !.delay = b.fails]
    BY <1>1, <1>3, <1>6 DEF Afterwards
  <2>2. b.fails \in Fails
    BY <1>3 DEF BoardState
  <2> QED BY <1>1, <1>3, <1>6, <2>1, <2>2, SMTT(20) DEF BoardState
<1>7. CASE board.mode = "runtime" /\ board.reason = "normal"
  <2>1. board' = b
    BY <1>1, <1>3, <1>7 DEF Afterwards
  <2> QED BY <1>1, <1>3, <1>7, <2>1
<1> QED BY <1>2, <1>4, <1>5, <1>6, <1>7 DEF BoardState, Reasons

\* It opens a window only for a Flipper without a record, or that could not read it.
LEMMA BoardDisconnectKeeps ==
  ASSUME SessionInv, BoardDisconnect, History
  PROVE  SessionInv'
PROOF
<1> USE DEF SessionInv
<1>1. /\ link = "down" /\ board.conn # "none" /\ UNCHANGED <<flip, link, closing, toF, inbox, toB>>
      /\ board' \in BoardState /\ board'.nvs = board.nvs /\ board'.conn = "none"
      /\ board'.st = "idle" /\ board'.reason = "normal" /\ board'.done = "none"
      /\ \/ board'.mode = board.mode /\ (board.mode = "pairing" => board'.window = FALSE)
         \/ board.mode = "runtime" /\ board.reason = "unknown_board" /\ board'.mode = "pairing"
  BY BoardDisconnectIs
<1>2. forgot' = forgot /\ unread' = unread /\ EraseInv'
  BY <1>1, HistoryStays
<1>3. TypeInv'
  BY <1>1, <1>2 DEF TypeInv
<1>4. LinkInv'
  BY <1>1 DEF LinkInv
<1>5. StepInv'
  BY <1>1 DEF StepInv
<1>6. CompleteInv'
  BY <1>1, <1>2 DEF CompleteInv, InFlight
<1>7. WindowInv'
  BY <1>1, <1>2 DEF WindowInv, UnknownInv
<1>8. toB = << >>
  BY <1>1 DEF LinkInv
<1>9. UnknownInv'
  BY <1>1, <1>2, <1>8, EmptyIs DEF UnknownInv
<1> QED BY <1>2, <1>3, <1>4, <1>5, <1>6, <1>7, <1>9

-----------------------------------------------------------------------------
(* The invariant.                                                          *)

\* The kinds of steps there are.
LEMMA StepIs ==
  ASSUME SessionInv, [Next]_vars
  PROVE  \/ \E m : BoardQuiet(m)
         \/ BoardEnded \/ FlipperQuiet \/ FlipperSaves \/ LinkDrops
         \/ Remembers /\ Connect
         \/ History /\ (WindowExpires \/ Delivered \/ RecordRemoved \/ Restart \/ BoardDisconnect)
         \/ FactoryReset
         \/ UNCHANGED vars
PROOF
<1>1. CASE FactoryReset \/ UNCHANGED vars
  BY <1>1
<1>2. CASE /\ \/ Subscribed \/ Delivered \/ BoardReceives \/ WriteError \/ HelloTimeout
              \/ PairReplyTimeout \/ IdleTimeout \/ WindowExpires \/ Capture \/ LinkCloses
              \/ LinkLost \/ BoardDisconnect \/ FlipperDisconnect \/ MainHandles
              \/ UserCommand \/ FlipperStart \/ FlipperStops \/ RecordRemoved \/ Restart
           /\ UNCHANGED unread
           /\ forgot' = ((forgot \/ GivenUp) /\ ~ PairedAgain)
  <2>1. History
    BY <1>2 DEF History, Remembers
  <2>2. CASE Subscribed
    BY <2>1, <2>2, SubscribedIsQuiet
  <2>3. CASE BoardReceives
    BY <2>1, <2>3, BoardReceivesIs
  <2>4. CASE WriteError
    BY <2>1, <2>4, WriteErrorIsQuiet
  <2>5. CASE HelloTimeout
    BY <2>1, <2>5, HelloTimeoutIsQuiet
  <2>6. CASE PairReplyTimeout
    BY <2>1, <2>6, PairReplyTimeoutIsQuiet
  <2>7. CASE IdleTimeout
    BY <2>1, <2>7, IdleTimeoutIsQuiet
  <2>8. CASE Capture
    BY <2>1, <2>8, CaptureIsQuiet
  <2>10. CASE LinkCloses \/ LinkLost \/ FlipperStops
    BY <2>1, <2>10, LinkDropsIs
  <2>11. CASE FlipperDisconnect
    BY <2>1, <2>11, FlipperDisconnectIsQuiet
  <2>12. CASE MainHandles
    BY <2>1, <2>12, MainHandlesIsQuiet
  <2>13. CASE UserCommand
    BY <2>1, <2>13, UserCommandIsQuiet
  <2>14. CASE FlipperStart
    BY <2>1, <2>14, FlipperStartIsQuiet
  <2>15. CASE WindowExpires \/ Delivered \/ RecordRemoved \/ Restart \/ BoardDisconnect
    BY <2>1, <2>15
  <2> QED BY <1>2, <2>2, <2>3, <2>4, <2>5, <2>6, <2>7, <2>8, <2>10, <2>11, <2>12, <2>13,
             <2>14, <2>15
<1>3. CASE (Connect \/ FlipperHandles) /\ Remembers
  BY <1>3, FlipperHandlesIs
<1> QED BY <1>1, <1>2, <1>3 DEF Next, Remembers

\* Every step keeps the invariant.
LEMMA StepKeeps ==
  ASSUME SessionInv, [Next]_vars
  PROVE  SessionInv'
PROOF
<1>1. CASE \E m : BoardQuiet(m)
  BY <1>1, QuietKeeps
<1>2. CASE BoardEnded
  BY <1>2, EndedKeeps
<1>3. CASE FlipperQuiet
  BY <1>3, FlipperQuietKeeps
<1>4. CASE FlipperSaves
  BY <1>4, FlipperSavesKeeps
<1>5. CASE LinkDrops
  BY <1>5, LinkDropsKeeps
<1>6. CASE History /\ WindowExpires
  BY <1>6, WindowExpiresKeeps
<1>7. CASE Remembers /\ Connect
  BY <1>7, ConnectKeeps
<1>8. CASE History /\ Delivered
  BY <1>8, DeliveredKeeps
<1>9. CASE History /\ RecordRemoved
  BY <1>9, RecordRemovedKeeps
<1>10. CASE History /\ Restart
  BY <1>10, RestartKeeps
<1>11. CASE History /\ BoardDisconnect
  BY <1>11, BoardDisconnectKeeps
<1>12. CASE FactoryReset
  BY <1>12, FactoryResetKeeps
<1>13. CASE UNCHANGED vars
  BY <1>13 DEF vars, system, SessionInv, TypeInv, LinkInv, StepInv, CompleteInv, InFlight, WindowInv,
               EraseInv, UnknownInv
<1> QED BY StepIs, <1>1, <1>2, <1>3, <1>4, <1>5, <1>6, <1>7, <1>8, <1>9, <1>10, <1>11, <1>12, <1>13

(***************************************************************************)
(* The invariant holds of every behaviour, with any number of secrets,     *)
(* sessions and records under way, with every loss, late answer and        *)
(* restart of the model.                                                   *)
(***************************************************************************)
THEOREM SessionInvariant == Spec => []SessionInv
PROOF
<1>1. Init => SessionInv
  BY InitInv
<1>2. SessionInv /\ [Next]_vars => SessionInv'
  BY StepKeeps
<1> QED BY <1>1, <1>2, PTL DEF Spec

(***************************************************************************)
(* If both devices hold a secret and they differ, the ESP32 was erased     *)
(* since they agreed, or paired anew when the Flipper had failed to read   *)
(* its record: no other ceremony that breaks off, at whichever record,     *)
(* leaves the ESP32 and the Flipper with secrets of their own              *)
(* (finish_pairing before pair_complete; the Flipper's check of its record *)
(* in handle_pair_complete; pairing_storage_load).                         *)
(***************************************************************************)
THEOREM OnlyForgettingSeparates == Spec => []OnlyForgottenSecretsDiffer
PROOF
<1>1. SessionInv => OnlyForgottenSecretsDiffer
  BY DEF SessionInv, EraseInv, OnlyForgottenSecretsDiffer
<1> QED BY <1>1, SessionInvariant, PTL

-----------------------------------------------------------------------------
(* The action properties.                                                  *)

\* The two action properties, as the steps they speak of.
WindowStep ==
  board.mode = "runtime" /\ board'.mode = "pairing" /\ board'.nvs # 0 => flip.file = 0 \/ unread
RateStep ==
  /\ BoardDisconnect /\ board.reason = "auth_failed" /\ flip.file \notin {0, board.nvs}
       => board'.delay = board.fails /\ board.fails > 0
  /\ board'.fails < board.fails /\ board'.conn # "none" => board'.fails = 0 /\ board'.key # 0

\* What a board turns to when it boots.
LEMMA BootStep ==
  ASSUME SessionInv, Restart \/ FactoryReset
  PROVE  /\ board'.conn = "none"
         /\ board'.mode = "pairing" => board'.nvs = 0
PROOF
<1>1. board.nvs \in Secret /\ board.backlog \in Int
  BY DEF SessionInv, TypeInv, BoardState
<1>2. CASE Restart
  <2>1. board' = BoardAtBoot(board.nvs, board.backlog)
    BY <1>2 DEF Restart
  <2> QED BY <1>1, <2>1, BoardAtBootIs
<1>3. CASE FactoryReset
  <2>1. board' = BoardAtBoot(0, board.backlog)
    BY <1>3 DEF FactoryReset
  <2> QED BY <1>1, <2>1, BoardAtBootIs, Kinds
<1> QED BY <1>2, <1>3

\* The steps that change neither the mode nor the count of failures.
LEMMA SameModeAndFails ==
  ASSUME SessionInv,
         \/ BoardEnded \/ FlipperQuiet \/ FlipperSaves \/ LinkDrops
         \/ WindowExpires \/ Connect \/ Delivered \/ RecordRemoved \/ UNCHANGED vars
  PROVE  board'.mode = board.mode /\ board'.fails = board.fails
PROOF
<1>1. board \in BoardState
  BY DEF SessionInv, TypeInv
<1>2. CASE BoardEnded
  BY <1>2 DEF BoardEnded
<1>3. CASE FlipperQuiet \/ FlipperSaves \/ LinkDrops \/ Delivered \/ RecordRemoved \/ UNCHANGED vars
  BY <1>3 DEF FlipperQuiet, FlipperSaves, LinkDrops, Delivered, RecordRemoved, vars, system
<1>4. CASE WindowExpires
  <2>1. board' = [board EXCEPT !.window = FALSE]
    BY <1>4 DEF WindowExpires
  <2> QED BY <1>1, <2>1 DEF BoardState
<1>5. CASE Connect
  <2>1. board' = [board EXCEPT !.conn = "connecting", !.st = "idle", !.reason = "normal",
                               !.waiting = FALSE, !.seq = 0, !.rx = 0, !.done = "none",
                               !.pending = << >>, !.inFlight = FALSE, !.delay = 0]
    BY <1>5 DEF Connect
  <2> QED BY <1>1, <2>1 DEF BoardState
<1> QED BY <1>2, <1>3, <1>4, <1>5

\* Only BLE_GAP_EVENT_DISCONNECT leaves runtime mode, and only for the verdict unknown_board.
LEMMA WindowStepHolds ==
  ASSUME SessionInv, [Next]_vars
  PROVE  WindowStep
PROOF
<1>1. CASE \E m : BoardQuiet(m)
  BY <1>1 DEF BoardQuiet, Turn, WindowStep
<1>2. CASE \/ BoardEnded \/ FlipperQuiet \/ FlipperSaves \/ LinkDrops
           \/ WindowExpires \/ Connect \/ Delivered \/ RecordRemoved \/ UNCHANGED vars
  BY <1>2, SameModeAndFails DEF WindowStep
<1>3. CASE Restart \/ FactoryReset
  BY <1>3, BootStep DEF WindowStep
<1>4. CASE BoardDisconnect
  BY <1>4, BoardDisconnectIs DEF WindowStep, SessionInv, UnknownInv
<1> QED BY StepIs, <1>1, <1>2, <1>3, <1>4

\* And only a proof that matches sets the count of failures back.
LEMMA RateStepHolds ==
  ASSUME SessionInv, [Next]_vars
  PROVE  RateStep
PROOF
<1>1. BoardDisconnect /\ board.reason = "auth_failed" /\ flip.file \notin {0, board.nvs}
        => board'.delay = board.fails /\ board.fails > 0
  <2>1. board.reason = "auth_failed" => board.mode = "runtime"
    BY DEF SessionInv, StepInv, TypeInv, BoardState
  <2> QED BY <2>1, BoardDisconnectIs DEF SessionInv, UnknownInv
<1>2. board'.fails < board.fails /\ board'.conn # "none" => board'.fails = 0 /\ board'.key # 0
  <2>0. board.fails \in Nat
    BY Kinds DEF SessionInv, TypeInv, BoardState
  <2>1. CASE \E m : BoardQuiet(m)
    <3>1. board'.fails \in Nat
      BY <2>1, Kinds DEF BoardQuiet, BoardState
    <3> QED BY <2>0, <2>1, <3>1 DEF BoardQuiet, Turn, SessionInv, StepInv
  <2>2. CASE \/ BoardEnded \/ FlipperQuiet \/ FlipperSaves \/ LinkDrops
             \/ WindowExpires \/ Connect \/ Delivered \/ RecordRemoved \/ UNCHANGED vars
    BY <2>0, <2>2, SameModeAndFails
  <2>3. CASE Restart \/ FactoryReset
    BY <2>3, BootStep
  <2>4. CASE BoardDisconnect
    BY <2>4, BoardDisconnectIs
  <2> QED BY StepIs, <2>1, <2>2, <2>3, <2>4
<1> QED BY <1>1, <1>2 DEF RateStep

(***************************************************************************)
(* A proof that fails opens no pairing window, only a Flipper does that    *)
(* has no record of the board or could not read it; while the two hold     *)
(* different secrets a connection that ends by one is followed by the      *)
(* delay of all failures in a row; and only a proof that matches, or a     *)
(* restart, ends the row (BLE_GAP_EVENT_DISCONNECT, fail_runtime_auth,     *)
(* handle_hello_ack).                                                      *)
(***************************************************************************)
THEOREM FailedLoginsAreAnswered == Spec => FailuresAreAnswered
PROOF
<1>1. SessionInv /\ [Next]_vars => WindowStep /\ RateStep
  BY WindowStepHolds, RateStepHolds
<1>2. Spec => [][WindowStep]_vars
  BY <1>1, SessionInvariant, PTL DEF Spec
<1>3. Spec => [][RateStep]_vars
  BY <1>1, SessionInvariant, PTL DEF Spec
<1>4. Spec => WindowOnlyWhenUnknown
  BY <1>2 DEF WindowOnlyWhenUnknown, WindowStep
<1>5. Spec => RateLimitedWhileDesynced
  BY <1>3 DEF RateLimitedWhileDesynced, RateStep
<1> QED BY <1>4, <1>5 DEF FailuresAreAnswered

-----------------------------------------------------------------------------
(* The drain in the books of the ESP32.                                    *)

\* A batch waits to be sent.
Batched(s) == \E i \in DOMAIN s : s[i] = "batch"

\* Outside a session nothing waits to be sent; a batch that waits or is out is the only one, and
\* there is a capture behind it.
Books(b) ==
  /\ b.st # "authenticated" => b.pending = << >> /\ b.done # "drained"
  /\ b.backlog \in 0 .. MaxBacklog
  /\ b.inFlight => b.backlog > 0
  /\ b.done = "drained" \/ Batched(b.pending) => b.inFlight
  /\ \A i, j \in DOMAIN b.pending : b.pending[i] = "batch" /\ b.pending[j] = "batch" => i = j
  /\ b.done = "drained" => ~ Batched(b.pending)

\* The books of the drain stay as they are.
SameBooks(b, c) ==
  /\ c.pending = b.pending /\ c.inFlight = b.inFlight /\ c.backlog = b.backlog
  /\ c.done = b.done \/ c.done # "drained"
  /\ c.st = "authenticated" <=> b.st = "authenticated"

\* Then they stay in order.
LEMMA BooksKept ==
  ASSUME NEW b, NEW c, Books(b), SameBooks(b, c)
  PROVE  Books(c)
PROOF BY DEF Books, SameBooks, Batched

\* The records of a session are numbered from 1.
Count(b) == IF b.st = "authenticated" THEN b.seq ELSE 1

\* What a handler leaves alone on the way.
Same(h, r) ==
  /\ r \in Run
  /\ r.b.nvs = h.b.nvs /\ r.b.mode = h.b.mode /\ r.b.conn = h.b.conn /\ r.b.sid = h.b.sid
  /\ r.b.key = h.b.key
  /\ r.b.st = h.b.st \/ (h.b.st = "hello_sent" /\ r.b.st = "authenticated")
  /\ r.toB = h.toB
  /\ h.closing /\ link = "up" => r.closing

\* A handler that sends nothing ...
Still(h, r) == Same(h, r) /\ r.toF = h.toF /\ Count(r.b) = Count(h.b)

\* ... and one that sends one record of the session, with the next number; a number can be lost
\* with the connection.
Carries(h, r) ==
  /\ Same(h, r)
  /\ \/ /\ r.toF = h.toF
        /\ Count(r.b) = Count(h.b) \/ (Count(r.b) > Count(h.b) /\ (r.closing \/ link = "down"))
     \/ /\ ~ h.closing /\ link = "up"
        /\ r.b.st = "authenticated" /\ Count(r.b) = Count(h.b) + 1
        /\ \E m \in Rec : /\ m.type \in Sent /\ m.id = h.b.sid /\ m.secret = h.b.key
                          /\ m.seq = Count(h.b) /\ r.toF = Append(h.toF, m)

\* A record sent, to the letter.
LEMMA SendExactly ==
  ASSUME NEW h \in Run, NEW m \in Rec, NEW done \in Dones
  PROVE  /\ Send(h, m, done) \in Run
         /\ Send(h, m, done).b = [h.b EXCEPT !.done = done]
         /\ Send(h, m, done).toB = h.toB /\ Send(h, m, done).closing = h.closing
         /\ Send(h, m, done).toF = IF h.closing \/ link = "down" THEN h.toF ELSE Append(h.toF, m)
PROOF
<1> DEFINE t == IF h.closing \/ link = "down" THEN h.toF ELSE Append(h.toF, m)
           b == [h.b EXCEPT !.done = done]
<1>1. h = [b |-> h.b, toF |-> h.toF, toB |-> h.toB, closing |-> h.closing, busy |-> h.busy]
  BY DEF Run
<1>2. Send(h, m, done) = [[h EXCEPT !.b = b] EXCEPT !.toF = t]
  BY <1>1 DEF Send
<1>3. Send(h, m, done).toF = t
  <2> HIDE DEF b, t
  <2> QED BY <1>1, <1>2
<1> QED BY <1>3, SendIs

\* Nothing done.
LEMMA StillIsReflexive ==
  ASSUME NEW h \in Run
  PROVE  Still(h, h)
PROOF BY DEF Still, Same

\* A handler that sends nothing and then one that may send.
LEMMA StillThenCarries ==
  ASSUME NEW h, NEW r, NEW q, Still(h, r), Carries(r, q)
  PROVE  Carries(h, q)
PROOF
<1>1. Same(h, q)
  BY DEF Still, Carries, Same
<1>a. link = "up" /\ ~ r.closing => ~ h.closing
  BY DEF Still, Same
<1>2. r.toF = h.toF /\ Count(r.b) = Count(h.b) /\ r.b.sid = h.b.sid /\ r.b.key = h.b.key
  BY DEF Still, Same
<1> HIDE DEF Count, Rec
<1> QED BY <1>1, <1>a, <1>2 DEF Carries

\* A handler that sends nothing carries on.
LEMMA StillCarries ==
  ASSUME NEW h, NEW r, Still(h, r)
  PROVE  Carries(h, r)
PROOF BY DEF Still, Carries

\* Two that send nothing.
LEMMA StillIsTransitive ==
  ASSUME NEW h, NEW r, NEW q, Still(h, r), Still(r, q)
  PROVE  Still(h, q)
PROOF
<1>1. Same(h, q)
  BY DEF Still, Same
<1> HIDE DEF Count
<1> QED BY <1>1 DEF Still

\* Asking for the end of the connection.
LEMMA TerminateIsStill ==
  ASSUME NEW h \in Run
  PROVE  /\ Still(h, Terminate(h)) /\ Terminate(h).b = h.b /\ Terminate(h).closing = (link = "up")
         /\ Terminate(h).busy = h.busy
PROOF
<1> DEFINE r == Terminate(h)
<1>1. r \in Run /\ r.b = h.b /\ r.toF = h.toF /\ r.toB = h.toB /\ r.closing = (link = "up")
      /\ r.busy = h.busy
  <2> HIDE DEF BoardState, Rec
  <2> QED BY DEF Terminate, Run
<1> HIDE DEF r
<1>2. Still(h, r)
  BY <1>1 DEF Still, Same
<1> QED BY <1>1, <1>2 DEF r

\* A change of the board's own books.
LEMMA BooksAreStill ==
  ASSUME NEW h \in Run, NEW b \in BoardState, SameStanding(h.b, b), b.sid = h.b.sid, b.seq = h.b.seq
  PROVE  Still(h, [h EXCEPT !.b = b])
PROOF
<1> DEFINE r == [h EXCEPT !.b = b]
<1>1. r \in Run /\ r.b = b /\ r.toF = h.toF /\ r.toB = h.toB /\ r.closing = h.closing
  BY WithBoard
<1> HIDE DEF r
<1>2. Still(h, r)
  BY <1>1 DEF Still, Same, SameStanding, Count
<1> QED BY <1>2 DEF r

\* What taking the first of the records that wait leaves.
LEMMA PendingTail ==
  ASSUME NEW s \in Seq(Sent), s # << >>
  PROVE  /\ Tail(s) \in Seq(Sent) /\ Head(s) \in Sent /\ Head(s) = s[1] /\ 1 \in DOMAIN s
         /\ \A i \in DOMAIN Tail(s) : i + 1 \in DOMAIN s /\ i + 1 # 1 /\ Tail(s)[i] = s[i + 1]
PROOF
<1>1. Tail(s) \in Seq(Sent) /\ Head(s) \in Sent /\ Head(s) = s[1]
  BY HeadTailProperties
<1>2. Len(Tail(s)) = Len(s) - 1 /\ Len(s) \in Nat /\ Len(s) >= 1
      /\ \A i \in 1 .. Len(Tail(s)) : Tail(s)[i] = s[i + 1]
  BY HeadTailProperties, LenProperties, EmptySeq
<1>3. DOMAIN Tail(s) = 1 .. Len(Tail(s)) /\ DOMAIN s = 1 .. Len(s)
  BY <1>1, LenProperties
<1> QED BY <1>1, <1>2, <1>3

\* And what one more makes of them.
LEMMA PendingAppend ==
  ASSUME NEW s \in Seq(Sent), NEW e \in Sent
  PROVE  /\ Append(s, e) \in Seq(Sent)
         /\ Batched(Append(s, e)) <=> Batched(s) \/ e = "batch"
         /\ ~ (Batched(s) /\ e = "batch")
              => \A i, j \in DOMAIN Append(s, e) :
                   Append(s, e)[i] = "batch" /\ Append(s, e)[j] = "batch"
                     => i = j \/ (i \in DOMAIN s /\ j \in DOMAIN s /\ s[i] = "batch" /\ s[j] = "batch")
PROOF
<1> DEFINE t == Append(s, e)
<1>1. /\ t \in Seq(Sent) /\ Len(s) \in Nat /\ DOMAIN s = 1 .. Len(s) /\ DOMAIN t = 1 .. Len(s) + 1
      /\ \A i \in 1 .. Len(s) : t[i] = s[i]
      /\ t[Len(s) + 1] = e
  BY AppendProperties, LenProperties
<1> HIDE DEF t
<1>2. Batched(t) <=> Batched(s) \/ e = "batch"
  BY <1>1 DEF Batched
<1>3. ASSUME ~ (Batched(s) /\ e = "batch"), NEW i \in DOMAIN t, NEW j \in DOMAIN t,
             t[i] = "batch", t[j] = "batch"
      PROVE  i = j \/ (i \in DOMAIN s /\ j \in DOMAIN s /\ s[i] = "batch" /\ s[j] = "batch")
  <2>1. i \in DOMAIN s \/ i = Len(s) + 1
    BY <1>1
  <2>2. j \in DOMAIN s \/ j = Len(s) + 1
    BY <1>1
  <2> QED BY <1>1, <1>3, <2>1, <2>2 DEF Batched
<1> QED BY <1>1, <1>2, <1>3 DEF t

\* The next write of the queue.
LEMMA StartNextServes ==
  ASSUME NEW h \in Run, Books(h.b), link \in {"up", "down"}
  PROVE  Books(StartNext(h).b) /\ Carries(h, StartNext(h))
PROOF
<1>1. CASE h.b.pending = << >>
  BY <1>1, StillIsReflexive, StillCarries DEF StartNext
<1>2. CASE h.b.pending # << >> /\ h.b.seq >= SequenceMax
  BY <1>2, TerminateIsStill, StillCarries DEF StartNext
<1>3. CASE h.b.pending # << >> /\ ~ h.b.seq >= SequenceMax
  <2> DEFINE rest == Tail(h.b.pending)
             type == Head(h.b.pending)
             next == h.b.seq + 1
             b == [h.b EXCEPT !.pending = rest, !.seq = next]
             a == [h EXCEPT !.b = b]
             m == Msg(type, h.b.sid, h.b.key, h.b.seq)
             done == IF type = "batch" THEN "drained" ELSE "none"
             r == Send(a, m, done)
             c == [b EXCEPT !.done = done]
  <2>1. h.b \in BoardState
    BY DEF Run
  <2>2. h.b.pending \in Seq(Sent) /\ h.b.seq \in Counts /\ h.b.sid \in Ids /\ h.b.key \in Secret
    BY <2>1, Kinds DEF BoardState
  <2>3. h.b.seq \in Nums /\ next \in Counts /\ h.b.seq \in Nat
    BY <1>3, <2>2, Kinds
  <2>4. rest \in Seq(Sent) /\ type \in Sent
    BY <2>2, <1>3, PendingTail
  <2>5. [h EXCEPT !.b.pending = Tail(@), !.b.seq = @ + 1] = a
    BY DEF Run
  <2>6. StartNext(h) = r
    BY <1>3, <2>5 DEF StartNext
  <2>7. h.b.st = "authenticated"
    BY <1>3 DEF Books
  <2>8. Books(c)
    <3>1. /\ c.st = "authenticated" /\ c.backlog = h.b.backlog /\ c.inFlight = h.b.inFlight
          /\ c.pending = rest /\ c.done = done
      <4> HIDE DEF rest, next, done
      <4> QED BY <2>1, <2>7 DEF BoardState
    <3>2. /\ 1 \in DOMAIN h.b.pending /\ type = h.b.pending[1]
          /\ \A i \in DOMAIN rest : i + 1 \in DOMAIN h.b.pending /\ i + 1 # 1 /\ rest[i] = h.b.pending[i + 1]
      BY <1>3, <2>2, PendingTail
    <3>3. DOMAIN rest \subseteq Int
      BY <2>4, LenProperties
    <3> DEFINE p == h.b.pending
    <3> HIDE DEF rest, type, next, b, c
    <3>4. \A i, j \in DOMAIN p : p[i] = "batch" /\ p[j] = "batch" => i = j
      BY DEF Books
    <3>5. done = "drained" \/ Batched(rest) => Batched(p)
      BY <3>2 DEF Batched
    <3>6. done = "drained" => ~ Batched(rest)
      BY <3>2, <3>4 DEF Batched
    <3>7. \A i, j \in DOMAIN rest : rest[i] = "batch" /\ rest[j] = "batch" => i = j
      BY <3>2, <3>3, <3>4
    <3> HIDE DEF done
    <3> QED BY <3>1, <3>5, <3>6, <3>7 DEF Books
  <2> HIDE DEF rest, type, next
  <2>9. b \in BoardState /\ Count(b) = Count(h.b) + 1 /\ b.nvs = h.b.nvs /\ b.mode = h.b.mode
        /\ b.conn = h.b.conn /\ b.sid = h.b.sid /\ b.key = h.b.key /\ b.st = "authenticated"
        /\ Count(h.b) = h.b.seq
    BY <2>1, <2>3, <2>4, <2>7 DEF BoardState, Count, next
  <2>10. m \in Rec /\ m.type \in Sent /\ m.id = h.b.sid /\ m.secret = h.b.key /\ m.seq = Count(h.b)
    <3>1. type \in Types /\ type \notin {"hello", "pair_init"}
      BY <2>4 DEF Sent, Types
    <3> QED BY <2>2, <2>3, <2>4, <2>9, <3>1 DEF Msg, Rec
  <2>11. done \in Dones
    BY DEF Dones
  <2> HIDE DEF b, m, done
  <2>12. a \in Run /\ a.b = b /\ a.toF = h.toF /\ a.toB = h.toB /\ a.closing = h.closing
    BY <2>9, WithBoard
  <2> HIDE DEF a
  <2>13. /\ r \in Run /\ r.b = c /\ r.toB = h.toB /\ r.closing = h.closing
         /\ r.toF = IF h.closing \/ link = "down" THEN h.toF ELSE Append(h.toF, m)
    BY <2>10, <2>11, <2>12, SendExactly
  <2>14. /\ c.nvs = b.nvs /\ c.mode = b.mode /\ c.conn = b.conn /\ c.sid = b.sid /\ c.key = b.key
         /\ c.st = b.st /\ Count(c) = Count(b)
    BY <2>9 DEF BoardState, Count
  <2> HIDE DEF c, r, Count
  <2>15. Same(h, r)
    BY <2>7, <2>9, <2>13, <2>14 DEF Same
  <2>16. Count(r.b) = Count(h.b) + 1 /\ r.b.st = "authenticated" /\ Count(h.b) \in Nat
    BY <2>3, <2>9, <2>13, <2>14
  <2>17. h.closing \/ link = "down" => Carries(h, r)
    BY <2>13, <2>15, <2>16 DEF Carries
  <2>18. ~ h.closing /\ link = "up" => Carries(h, r)
    BY <2>10, <2>13, <2>15, <2>16 DEF Carries
  <2> QED BY <2>6, <2>8, <2>13, <2>17, <2>18
<1> QED BY <1>1, <1>2, <1>3

\* A record of a session, queued and sent when nothing is before it.
LEMMA SendProtectedServes ==
  ASSUME NEW h \in Run, Books(h.b), link \in {"up", "down"}, NEW type \in Sent,
         h.b.st = "authenticated",
         type = "batch" => h.b.inFlight /\ h.b.done # "drained" /\ ~ Batched(h.b.pending),
         h.b.done = "drained" => type # "batch"
  PROVE  /\ Books(SendProtected(h, type).b) /\ Carries(h, SendProtected(h, type))
         /\ h.busy => Still(h, SendProtected(h, type))
PROOF
<1>0. PICK p : p = h.b.pending
  OBVIOUS
<1> DEFINE q == Append(p, type)
           b == [h.b EXCEPT !.pending = q]
           a == [h EXCEPT !.b = b]
<1>1. h.b \in BoardState
  BY DEF Run
<1>2. p \in Seq(Sent)
  BY <1>0, <1>1 DEF BoardState
<1>3. /\ q \in Seq(Sent)
      /\ Batched(q) <=> Batched(p) \/ type = "batch"
      /\ ~ (Batched(p) /\ type = "batch")
           => \A i, j \in DOMAIN q :
                q[i] = "batch" /\ q[j] = "batch"
                  => i = j \/ (i \in DOMAIN p /\ j \in DOMAIN p /\ p[i] = "batch" /\ p[j] = "batch")
  BY <1>2, PendingAppend
<1>4. [h EXCEPT !.b.pending = Append(@, type)] = a
  BY <1>0 DEF Run
<1>5. SendProtected(h, type) = IF h.busy \/ p # << >> THEN a ELSE StartNext(a)
  BY <1>0, <1>4 DEF SendProtected
<1> HIDE DEF q
<1>6. /\ b \in BoardState /\ SameStanding(h.b, b) /\ b.sid = h.b.sid /\ b.seq = h.b.seq
      /\ b.pending = q /\ b.inFlight = h.b.inFlight /\ b.backlog = h.b.backlog
  BY <1>1, <1>3 DEF BoardState, SameStanding
<1> HIDE DEF b
<1>7. Books(b)
  BY <1>0, <1>3, <1>6 DEF Books, SameStanding
<1>8. a \in Run /\ a.b = b
  BY <1>6, WithBoard
<1>9. Still(h, a)
  BY <1>6, BooksAreStill
<1> HIDE DEF a
<1>10. Books(StartNext(a).b) /\ Carries(a, StartNext(a))
  BY <1>7, <1>8, StartNextServes
<1>11. Carries(h, StartNext(a)) /\ Carries(h, a)
  BY <1>9, <1>10, StillThenCarries, StillCarries
<1> QED BY <1>5, <1>7, <1>8, <1>9, <1>10, <1>11

\* The drain, set going.
LEMMA KickSendServes ==
  ASSUME NEW h \in Run, Books(h.b), link \in {"up", "down"}, h.b.st = "authenticated"
  PROVE  /\ Books(KickSend(h).b) /\ Carries(h, KickSend(h))
         /\ h.busy => Still(h, KickSend(h))
PROOF
<1> DEFINE b == [h.b EXCEPT !.inFlight = TRUE]
           a == [h EXCEPT !.b = b]
<1>1. h.b \in BoardState
  BY DEF Run
<1>2. CASE h.b.inFlight \/ h.b.backlog = 0
  BY <1>2, StillIsReflexive, StillCarries DEF KickSend
<1>3. CASE ~ h.b.inFlight /\ h.b.backlog # 0
  <2>1. [h EXCEPT !.b.inFlight = TRUE] = a
    BY DEF Run
  <2>2. KickSend(h) = SendProtected(a, "batch")
    BY <1>3, <2>1 DEF KickSend
  <2>3. /\ b \in BoardState /\ SameStanding(h.b, b) /\ b.sid = h.b.sid /\ b.seq = h.b.seq
        /\ b.pending = h.b.pending /\ b.inFlight = TRUE /\ b.backlog = h.b.backlog
        /\ b.st = "authenticated" /\ b.done = h.b.done
    BY <1>1 DEF BoardState, SameStanding
  <2> HIDE DEF b
  <2>4. ~ Batched(b.pending) /\ b.done # "drained"
    BY <1>3, <2>3 DEF Books
  <2>5. Books(b)
    BY <1>3, <2>3, <2>4 DEF Books
  <2>6. a \in Run /\ a.b = b /\ a.busy = h.busy
    BY <2>3, WithBoard
  <2>7. Still(h, a)
    BY <2>3, BooksAreStill
  <2> HIDE DEF a
  <2>8. "batch" \in Sent
    BY DEF Sent
  <2>9. /\ Books(SendProtected(a, "batch").b) /\ Carries(a, SendProtected(a, "batch"))
        /\ a.busy => Still(a, SendProtected(a, "batch"))
    BY <2>3, <2>4, <2>5, <2>6, <2>8, SendProtectedServes
  <2>10. Carries(h, SendProtected(a, "batch")) /\ (a.busy => Still(h, SendProtected(a, "batch")))
    BY <2>7, <2>9, StillThenCarries, StillIsTransitive
  <2> QED BY <2>2, <2>6, <2>9, <2>10
<1> QED BY <1>2, <1>3

\* The next batch of the drain.
LEMMA NextBatchServes ==
  ASSUME NEW h \in Run, Books(h.b), link \in {"up", "down"}, h.b.st = "authenticated",
         h.b.inFlight, h.b.done = "none", ~ Batched(h.b.pending), h.busy
  PROVE  Books(NextBatch(h).b) /\ Still(h, NextBatch(h))
PROOF
<1> DEFINE left == h.b.backlog - 1
           b == [h.b EXCEPT !.inFlight = FALSE, !.backlog = left]
           a == [h EXCEPT !.b = b]
<1>1. h.b \in BoardState
  BY DEF Run
<1>2. [h EXCEPT !.b.inFlight = FALSE, !.b.backlog = @ - 1] = a
  BY DEF Run
<1>3. NextBatch(h) = KickSend(a)
  BY <1>2 DEF NextBatch
<1>4. left \in 0 .. MaxBacklog /\ left \in Int
  <2>1. h.b.backlog \in 0 .. MaxBacklog /\ h.b.backlog > 0
    BY DEF Books
  <2> QED BY <2>1, SessionAssumption
<1> HIDE DEF left
<1>5. /\ b \in BoardState /\ SameStanding(h.b, b) /\ b.sid = h.b.sid /\ b.seq = h.b.seq
      /\ b.pending = h.b.pending /\ b.inFlight = FALSE /\ b.backlog = left
      /\ b.st = "authenticated" /\ b.done = "none"
  BY <1>1, <1>4 DEF BoardState, SameStanding
<1> HIDE DEF b
<1>6. Books(b)
  BY <1>4, <1>5 DEF Books, Batched
<1>7. a \in Run /\ a.b = b /\ a.busy
  BY <1>5, WithBoard
<1>8. Still(h, a)
  BY <1>5, BooksAreStill
<1> HIDE DEF a
<1>9. Books(KickSend(a).b) /\ Still(a, KickSend(a))
  BY <1>5, <1>6, <1>7, KickSendServes
<1> QED BY <1>3, <1>8, <1>9, StillIsTransitive

\* A record received in a session.
LEMMA ProtectedRecordServes ==
  ASSUME NEW h \in Run, Books(h.b), link \in {"up", "down"}, h.b.st = "authenticated", NEW m \in Rec
  PROVE  Books(ProtectedRecord(h, m).b) /\ Carries(h, ProtectedRecord(h, m))
PROOF
<1> DEFINE next == h.b.rx + 1
           b == [h.b EXCEPT !.rx = next]
           a == [h EXCEPT !.b = b]
           type == IF m.type = "query" THEN "capability" ELSE "status"
<1>1. h.b \in BoardState
  BY DEF Run
<1>2. CASE ~ Authentic(m, h.b.sid, h.b.key, h.b.rx)
  BY <1>2, TerminateIsStill, StillCarries DEF ProtectedRecord
<1>3. CASE Authentic(m, h.b.sid, h.b.key, h.b.rx)
  <2>1. next \in Counts
    <3>1. h.b.rx \in Counts /\ h.b.rx = m.seq /\ m.seq < SequenceMax
      BY <1>1, <1>3 DEF BoardState, Authentic
    <3> QED BY <3>1, Kinds, SessionAssumption DEF Counts
  <2>2. [h EXCEPT !.b.rx = @ + 1] = a
    BY DEF Run
  <2>3. ProtectedRecord(h, m) = SendProtected(a, type)
    BY <1>3, <2>2 DEF ProtectedRecord
  <2> HIDE DEF next
  <2>4. /\ b \in BoardState /\ SameStanding(h.b, b) /\ b.sid = h.b.sid /\ b.seq = h.b.seq
        /\ SameBooks(h.b, b) /\ b.st = "authenticated"
    BY <1>1, <2>1 DEF BoardState, SameStanding, SameBooks
  <2> HIDE DEF b
  <2>5. Books(b)
    BY <2>4, BooksKept
  <2>6. a \in Run /\ a.b = b
    BY <2>4, WithBoard
  <2>7. Still(h, a)
    BY <2>4, BooksAreStill
  <2>8. type \in Sent /\ type # "batch"
    BY DEF Sent
  <2> HIDE DEF a, type
  <2>9. Books(SendProtected(a, type).b) /\ Carries(a, SendProtected(a, type))
    BY <2>4, <2>5, <2>6, <2>8, SendProtectedServes
  <2> QED BY <2>3, <2>7, <2>9, StillThenCarries
<1> QED BY <1>2, <1>3

\* A handler that is called back starts with nothing to be done.
LEMMA HandlingServes ==
  ASSUME NEW h \in Run, Books(h.b)
  PROVE  /\ Handling(h) \in Run /\ Books(Handling(h).b) /\ Still(h, Handling(h))
         /\ Handling(h).busy /\ Handling(h).b.done = "none" /\ Handling(h).b.st = h.b.st
         /\ Handling(h).b.pending = h.b.pending /\ Handling(h).b.inFlight = h.b.inFlight
PROOF
<1> DEFINE b == [h.b EXCEPT !.done = "none"]
           r == Handling(h)
<1>1. h.b \in BoardState
  BY DEF Run
<1>2. /\ b \in BoardState /\ SameBooks(h.b, b) /\ b.done = "none" /\ b.st = h.b.st
      /\ b.nvs = h.b.nvs /\ b.mode = h.b.mode /\ b.conn = h.b.conn /\ b.sid = h.b.sid
      /\ b.key = h.b.key /\ b.seq = h.b.seq
      /\ b.pending = h.b.pending /\ b.inFlight = h.b.inFlight
  BY <1>1 DEF BoardState, SameBooks, Dones
<1>3. r = [[h EXCEPT !.b = b] EXCEPT !.busy = TRUE]
  BY DEF Handling, Run
<1> HIDE DEF b
<1>4. r.b = b /\ r.toF = h.toF /\ r.toB = h.toB /\ r.closing = h.closing /\ r.busy
  <2> HIDE DEF BoardState, Rec
  <2> QED BY <1>3 DEF Run
<1>5. r \in Run
  BY HandlingIsCalm
<1> HIDE DEF r
<1>6. Still(h, r)
  BY <1>2, <1>4, <1>5 DEF Still, Same, Count
<1>7. Books(b)
  BY <1>2, BooksKept
<1> QED BY <1>2, <1>4, <1>5, <1>6, <1>7 DEF r

\* The session begins for the ESP32.
LEMMA AuthenticatedServes ==
  ASSUME NEW h \in Run, Books(h.b), link \in {"up", "down"}, h.b.st = "hello_sent",
         h.b.done = "none", h.busy
  PROVE  Books(KickSend(Authenticated(h)).b) /\ Still(h, KickSend(Authenticated(h)))
PROOF
<1> DEFINE b == [h.b EXCEPT !.st = "authenticated", !.seq = 1, !.rx = 1]
           a == [h EXCEPT !.b = b]
<1>1. h.b \in BoardState
  BY DEF Run
<1>2. Authenticated(h) = a
  BY DEF Authenticated, Run
<1>3. /\ b \in BoardState /\ b.st = "authenticated" /\ b.seq = 1
      /\ b.nvs = h.b.nvs /\ b.mode = h.b.mode /\ b.conn = h.b.conn /\ b.sid = h.b.sid
      /\ b.key = h.b.key /\ b.done = h.b.done
      /\ b.pending = h.b.pending /\ b.inFlight = h.b.inFlight /\ b.backlog = h.b.backlog
  BY <1>1, Kinds DEF BoardState, States
<1> HIDE DEF b
<1>4. Books(b)
  BY <1>3 DEF Books
<1>5. a \in Run /\ a.b = b /\ a.toF = h.toF /\ a.toB = h.toB /\ a.closing = h.closing /\ a.busy = h.busy
  BY <1>3, WithBoard
<1> HIDE DEF a
<1>6. Still(h, a)
  BY <1>3, <1>5 DEF Still, Same, Count
<1>7. Books(KickSend(a).b) /\ Still(a, KickSend(a))
  BY <1>3, <1>4, <1>5, KickSendServes
<1> QED BY <1>2, <1>6, <1>7, StillIsTransitive

\* What write_complete does in a session and on the way to one.
LEMMA DoneServes ==
  ASSUME NEW h \in Run, Books(h.b), link \in {"up", "down"}, NEW persists,
         h.b.done # "complete", h.b.done = "authenticated" => h.b.st = "hello_sent"
  PROVE  /\ Books(Done(h, persists).b) /\ Carries(h, Done(h, persists))
         /\ h.b.st # "authenticated" /\ h.b.done = "none" =>
              /\ Done(h, persists).b.st = h.b.st /\ Done(h, persists).b.done = "none"
              /\ Done(h, persists).toF = h.toF
PROOF
<1> DEFINE a == Handling(h)
           r == Completed(a, h.b.done, persists)
<1>1. /\ a \in Run /\ Books(a.b) /\ Still(h, a)
      /\ a.busy /\ a.b.done = "none" /\ a.b.st = h.b.st
      /\ a.b.pending = h.b.pending /\ a.b.inFlight = h.b.inFlight
  BY HandlingServes
<1>2. Done(h, persists) = StartNext(r)
  BY DEF Done
<1> HIDE DEF a
<1>3. Books(r.b) /\ Still(a, r) /\ (h.b.done = "none" => r = a)
  <2>1. CASE h.b.done = "none"
    <3>1. r = a
      BY <2>1 DEF Completed
    <3> QED BY <1>1, <3>1, StillIsReflexive
  <2>2. CASE h.b.done = "disconnect"
    <3>1. r = Terminate(a)
      BY <2>2 DEF Completed
    <3> QED BY <1>1, <2>2, <3>1, TerminateIsStill
  <2>3. CASE h.b.done = "authenticated"
    <3>1. r = KickSend(Authenticated(a))
      BY <2>3 DEF Completed
    <3> QED BY <1>1, <2>3, <3>1, AuthenticatedServes
  <2>4. CASE h.b.done = "drained"
    <3>1. r = NextBatch(a)
      BY <2>4 DEF Completed
    <3>2. h.b.st = "authenticated" /\ h.b.inFlight /\ ~ Batched(h.b.pending)
      BY <2>4 DEF Books
    <3> QED BY <1>1, <2>4, <3>1, <3>2, NextBatchServes
  <2>5. h.b.done \in Dones
    BY DEF Run, BoardState
  <2> QED BY <2>1, <2>2, <2>3, <2>4, <2>5 DEF Dones
<1> HIDE DEF r
<1>4. r \in Run
  BY <1>3 DEF Still, Same
<1>5. Still(h, r)
  BY <1>1, <1>3, StillIsTransitive
<1>6. Books(StartNext(r).b) /\ Carries(r, StartNext(r))
  BY <1>3, <1>4, StartNextServes
<1>7. Carries(h, StartNext(r))
  BY <1>5, <1>6, StillThenCarries
<1>8. ASSUME h.b.st # "authenticated", h.b.done = "none"
      PROVE  StartNext(r) = a /\ a.toF = h.toF
  <2>1. a.b.pending = << >>
    BY <1>1, <1>8 DEF Books
  <2>2. a.toF = h.toF
    BY <1>1 DEF Still
  <2> QED BY <1>3, <1>8, <2>1, <2>2 DEF StartNext
<1> QED BY <1>1, <1>2, <1>6, <1>7, <1>8

-----------------------------------------------------------------------------
(* The handlers that change the dialogue.                                  *)

\* A handler that asks for the end of the connection.
Closes(h, r) ==
  /\ r \in Run
  /\ r.b.nvs = h.b.nvs /\ r.b.mode = h.b.mode /\ r.b.conn = h.b.conn /\ r.b.sid = h.b.sid
  /\ r.b.st = h.b.st /\ r.b.seq = h.b.seq /\ r.b.done = h.b.done
  /\ r.toB = h.toB /\ r.toF = h.toF /\ r.closing = (link = "up")
  /\ SameBooks(h.b, r.b)

\* The handler of an answer to hello that is proven.
Opens(h, r) ==
  /\ r \in Run
  /\ r.b.mode = h.b.mode /\ r.b.conn = h.b.conn /\ r.b.sid = h.b.sid
  /\ r.b.st = h.b.st /\ r.b.done = "authenticated" /\ r.b.key = h.b.nvs
  /\ r.toB = h.toB /\ r.closing = h.closing
  /\ \E m \in Rec : /\ m.type = "client_auth" /\ m.id = h.b.sid /\ m.secret = h.b.nvs
                    /\ r.toF = IF h.closing \/ link = "down" THEN h.toF ELSE Append(h.toF, m)
  /\ SameBooks(h.b, r.b)

\* What the board notes before it asks for the end.
LEMMA TerminateCloses ==
  ASSUME NEW h \in Run, NEW b \in BoardState, SameBooks(h.b, b), b.st = h.b.st, b.sid = h.b.sid,
         b.nvs = h.b.nvs, b.mode = h.b.mode, b.conn = h.b.conn, b.seq = h.b.seq, b.done = h.b.done
  PROVE  Closes(h, Terminate([h EXCEPT !.b = b]))
PROOF
<1> DEFINE a == [h EXCEPT !.b = b]
           r == Terminate(a)
<1>1. /\ a \in Run /\ a.b = b /\ a.toF = h.toF /\ a.toB = h.toB /\ a.closing = h.closing
  BY WithBoard
<1> HIDE DEF a
<1>2. /\ r \in Run /\ r.b = b /\ r.toF = h.toF /\ r.toB = h.toB /\ r.closing = (link = "up")
  BY <1>1, TerminateIsStill DEF Still, Same
<1> HIDE DEF r
<1>3. Closes(h, r)
  BY <1>2 DEF Closes
<1> QED BY <1>3 DEF a, r

\* fail_runtime_auth.
LEMMA FailAuthCloses ==
  ASSUME NEW h \in Run
  PROVE  Closes(h, FailAuth(h))
PROOF
<1> DEFINE n == IF h.b.fails < MaxFails THEN h.b.fails + 1 ELSE h.b.fails
           b == [h.b EXCEPT !.fails = n, !.waiting = FALSE, !.reason = "auth_failed", !.key = 0]
<1>1. h.b \in BoardState
  BY DEF Run
<1>2. n \in Fails
  BY <1>1, SessionAssumption DEF BoardState, Fails
<1>3. FailAuth(h) = Terminate([h EXCEPT !.b = b])
  BY DEF FailAuth, Run
<1> HIDE DEF n
<1>4. b \in BoardState
  BY <1>1, <1>2, Kinds DEF BoardState, Reasons
<1>5. /\ SameBooks(h.b, b) /\ b.st = h.b.st /\ b.sid = h.b.sid /\ b.nvs = h.b.nvs
      /\ b.mode = h.b.mode /\ b.conn = h.b.conn /\ b.seq = h.b.seq /\ b.done = h.b.done
  BY <1>1, <1>2 DEF BoardState, SameBooks
<1> HIDE DEF b
<1> QED BY <1>3, <1>4, <1>5, TerminateCloses

\* handle_runtime_auth_unknown_board.
LEMMA UnknownBoardCloses ==
  ASSUME NEW h \in Run
  PROVE  Closes(h, UnknownBoard(h))
PROOF
<1> DEFINE b == [h.b EXCEPT !.waiting = FALSE, !.reason = "unknown_board", !.key = 0]
<1>1. h.b \in BoardState
  BY DEF Run
<1>2. UnknownBoard(h) = Terminate([h EXCEPT !.b = b])
  BY DEF UnknownBoard, Run
<1>3. b \in BoardState
  BY <1>1, Kinds DEF BoardState, Reasons
<1>4. /\ SameBooks(h.b, b) /\ b.st = h.b.st /\ b.sid = h.b.sid /\ b.nvs = h.b.nvs
      /\ b.mode = h.b.mode /\ b.conn = h.b.conn /\ b.seq = h.b.seq /\ b.done = h.b.done
  BY <1>1 DEF BoardState, SameBooks
<1> HIDE DEF b
<1> QED BY <1>2, <1>3, <1>4, TerminateCloses

\* Books passed on.
LEMMA SameBooksPassed ==
  ASSUME NEW b, NEW c, NEW d, SameBooks(b, c), SameBooks(c, d)
  PROVE  SameBooks(b, d)
PROOF BY DEF SameBooks

\* handle_hello_ack.
LEMMA HandleHelloAckOpens ==
  ASSUME NEW h \in Run, NEW m \in Rec
  PROVE  IF m.secret = h.b.nvs THEN Opens(h, HandleHelloAck(h, m)) ELSE Closes(h, HandleHelloAck(h, m))
PROOF
<1> DEFINE b == [h.b EXCEPT !.waiting = FALSE]
           a == [h EXCEPT !.b = b]
           c == [h.b EXCEPT !.waiting = FALSE, !.fails = 0, !.key = h.b.nvs]
           x == Msg("client_auth", h.b.sid, h.b.nvs, 0)
<1>1. h.b \in BoardState
  BY DEF Run
<1>2. [h EXCEPT !.b.waiting = FALSE] = a
  BY DEF Run
<1>3. HandleHelloAck(h, m) = IF m.secret # h.b.nvs THEN FailAuth(a)
                             ELSE Send([h EXCEPT !.b = c], x, "authenticated")
  BY <1>1, <1>2 DEF HandleHelloAck, Run, BoardState
<1>4. CASE m.secret # h.b.nvs
  <2>1. /\ b \in BoardState /\ SameBooks(h.b, b) /\ b.st = h.b.st /\ b.sid = h.b.sid /\ b.nvs = h.b.nvs
        /\ b.mode = h.b.mode /\ b.conn = h.b.conn /\ b.seq = h.b.seq /\ b.done = h.b.done
    BY <1>1 DEF BoardState, SameBooks
  <2> HIDE DEF b
  <2>2. /\ a \in Run /\ a.b = b /\ a.toF = h.toF /\ a.toB = h.toB
    BY <2>1, WithBoard
  <2> HIDE DEF a
  <2>3. Closes(a, FailAuth(a))
    BY <2>2, FailAuthCloses
  <2>4. SameBooks(h.b, FailAuth(a).b)
    BY <2>1, <2>2, <2>3, SameBooksPassed DEF Closes
  <2>5. Closes(h, FailAuth(a))
    BY <2>1, <2>2, <2>3, <2>4 DEF Closes
  <2> QED BY <1>3, <1>4, <2>5
<1>5. CASE m.secret = h.b.nvs
  <2>1. x \in Rec /\ x.type = "client_auth" /\ x.id = h.b.sid /\ x.secret = h.b.nvs
    BY <1>1, Kinds DEF Msg, Rec, Types, BoardState
  <2>2. /\ c \in BoardState /\ SameBooks(h.b, c) /\ c.st = h.b.st /\ c.sid = h.b.sid
        /\ c.mode = h.b.mode /\ c.conn = h.b.conn /\ c.key = h.b.nvs
    BY <1>1, Kinds DEF BoardState, SameBooks
  <2>3. "authenticated" \in Dones
    BY DEF Dones
  <2> DEFINE d == [h EXCEPT !.b = c]
             e == [c EXCEPT !.done = "authenticated"]
             r == Send(d, x, "authenticated")
  <2> HIDE DEF c, x
  <2>4. d \in Run /\ d.b = c /\ d.toF = h.toF /\ d.toB = h.toB /\ d.closing = h.closing
    BY <2>2, WithBoard
  <2>5. /\ SameBooks(c, e) /\ e.st = c.st /\ e.sid = c.sid /\ e.mode = c.mode /\ e.conn = c.conn
        /\ e.key = c.key /\ e.done = "authenticated"
    BY <2>2 DEF BoardState, SameBooks
  <2> HIDE DEF d
  <2>6. /\ r \in Run /\ r.b = e /\ r.toB = h.toB /\ r.closing = h.closing
        /\ r.toF = IF h.closing \/ link = "down" THEN h.toF ELSE Append(h.toF, x)
    BY <2>1, <2>3, <2>4, SendExactly
  <2>7. SameBooks(h.b, e)
    BY <2>2, <2>5, SameBooksPassed
  <2> HIDE DEF e, r
  <2>8. Opens(h, r)
    BY <2>1, <2>2, <2>5, <2>6, <2>7 DEF Opens
  <2> QED BY <1>3, <1>5, <2>8 DEF r, d
<1> QED BY <1>4, <1>5

\* No record of a session is written.
NoNewSent(s, t) == \A m \in Range(t) : m \in Range(s) \/ m.type \notin Sent

\* A handler that has no business with the drain.
Leaves(h, r) == r \in Run /\ SameBooks(h.b, r.b) /\ NoNewSent(h.toF, r.toF)

\* A record that is not one of a session.
LEMMA SendLeaves ==
  ASSUME NEW h \in Run, NEW b \in BoardState, SameBooks(h.b, b), NEW x \in Rec, x.type \notin Sent,
         NEW done \in Dones, done # "drained"
  PROVE  Leaves(h, Send([h EXCEPT !.b = b], x, done))
PROOF
<1> DEFINE a == [h EXCEPT !.b = b]
           c == [b EXCEPT !.done = done]
           r == Send(a, x, done)
<1>1. a \in Run /\ a.b = b /\ a.toF = h.toF
  BY WithBoard
<1>2. SameBooks(b, c)
  BY DEF BoardState, SameBooks
<1> HIDE DEF a
<1>6. NoNewSent(h.toF, r.toF)
  <2>1. Range(r.toF) \subseteq Range(a.toF) \cup {x}
    BY <1>1, SendIs
  <2> HIDE DEF r
  <2> QED BY <1>1, <2>1 DEF NoNewSent
<1>3. r \in Run /\ r.b = c
  BY <1>1, SendExactly
<1>4. SameBooks(h.b, c)
  BY <1>2, SameBooksPassed
<1> HIDE DEF c, r
<1>5. Leaves(h, r)
  BY <1>3, <1>4, <1>6 DEF Leaves
<1> QED BY <1>5 DEF r, a

\* fail_pairing_ceremony.
LEMMA FailPairingLeaves ==
  ASSUME NEW h \in Run
  PROVE  Leaves(h, FailPairing(h))
PROOF
<1> DEFINE b == [h.b EXCEPT !.attempt = 0]
           m == Msg("pair_error", 0, 0, 0)
<1>1. h.b \in BoardState
  BY DEF Run
<1>2. b \in BoardState /\ SameBooks(h.b, b)
  BY <1>1, Kinds DEF BoardState, SameBooks
<1>3. m \in Rec /\ m.type \notin Sent
  <2>1. m \in Rec /\ m.type = "pair_error"
    BY MsgIs, Kinds DEF Types
  <2> HIDE DEF m
  <2> QED BY <2>1 DEF Sent
<1>4. FailPairing(h) = Send([h EXCEPT !.b = b], m, "disconnect")
  BY DEF FailPairing, Run
<1>5. "disconnect" \in Dones
  BY DEF Dones
<1> HIDE DEF b, m
<1> QED BY <1>2, <1>3, <1>4, <1>5, SendLeaves

\* fail_pairing_ceremony behind a change of the board's books.
LEMMA FailPairingBehind ==
  ASSUME NEW h \in Run, NEW b \in BoardState, SameBooks(h.b, b)
  PROVE  Leaves(h, FailPairing([h EXCEPT !.b = b]))
PROOF
<1> DEFINE a == [h EXCEPT !.b = b]
<1>1. a \in Run /\ a.b = b /\ a.toF = h.toF
  BY WithBoard
<1> HIDE DEF a
<1>2. Leaves(a, FailPairing(a))
  BY <1>1, FailPairingLeaves
<1>3. Leaves(h, FailPairing(a))
  BY <1>1, <1>2, SameBooksPassed DEF Leaves
<1> QED BY <1>3 DEF a

\* handle_pair_reply.
LEMMA HandlePairReplyLeaves ==
  ASSUME NEW h \in Run, h.b.st # "authenticated", NEW m \in Rec
  PROVE  Leaves(h, HandlePairReply(h, m))
PROOF
<1> DEFINE b == [h.b EXCEPT !.waiting = FALSE]
           c == [h.b EXCEPT !.waiting = FALSE, !.st = "confirm_sent"]
           a == [h EXCEPT !.b = b]
           x == Msg("pair_confirm", m.id, m.id, 0)
<1>1. h.b \in BoardState
  BY DEF Run
<1>2. b \in BoardState /\ SameBooks(h.b, b) /\ b.attempt = h.b.attempt
  BY <1>1 DEF BoardState, SameBooks
<1>3. [h EXCEPT !.b.waiting = FALSE] = a
  BY DEF Run
<1>4. [a EXCEPT !.b.st = "confirm_sent"] = [h EXCEPT !.b = c]
  BY <1>1 DEF Run, BoardState
<1>5. HandlePairReply(h, m) = IF m.id # a.b.attempt THEN FailPairing(a)
                              ELSE Send([h EXCEPT !.b = c], x, "complete")
  BY <1>3, <1>4 DEF HandlePairReply
<1>6. m.id = h.b.attempt => x \in Rec /\ x.type \notin Sent
  BY <1>1, Kinds DEF Msg, Rec, Types, BoardState, Sent
<1>7. c \in BoardState /\ SameBooks(h.b, c)
  BY <1>1 DEF BoardState, States, SameBooks
<1>8. "complete" \in Dones
  BY DEF Dones
<1> HIDE DEF b, c
<1>9. a.b.attempt = h.b.attempt
  BY <1>2, WithBoard
<1>10. Leaves(h, FailPairing(a))
  BY <1>2, FailPairingBehind
<1> HIDE DEF a, x
<1>11. m.id = h.b.attempt => Leaves(h, Send([h EXCEPT !.b = c], x, "complete"))
  BY <1>6, <1>7, <1>8, SendLeaves
<1> QED BY <1>5, <1>9, <1>10, <1>11

\* A record of the ceremony.
LEMMA PairingRecordLeaves ==
  ASSUME NEW h \in Run, NEW m \in Rec
  PROVE  Leaves(h, PairingRecord(h, m))
PROOF
<1>1. CASE h.b.st # "init_sent"
  BY <1>1, FailPairingLeaves DEF PairingRecord
<1>2. CASE h.b.st = "init_sent" /\ m.type = "pair_reply"
  BY <1>2, HandlePairReplyLeaves DEF PairingRecord
<1>3. CASE h.b.st = "init_sent" /\ m.type = "pair_error"
  <2> DEFINE b == [h.b EXCEPT !.attempt = 0]
  <2>1. h.b \in BoardState
    BY DEF Run
  <2>2. /\ b \in BoardState /\ SameBooks(h.b, b) /\ b.st = h.b.st /\ b.sid = h.b.sid
        /\ b.nvs = h.b.nvs /\ b.mode = h.b.mode /\ b.conn = h.b.conn /\ b.seq = h.b.seq
        /\ b.done = h.b.done
    BY <2>1, Kinds DEF BoardState, SameBooks
  <2>3. PairingRecord(h, m) = Terminate([h EXCEPT !.b = b])
    BY <1>3 DEF PairingRecord, Run
  <2> HIDE DEF b
  <2>4. Closes(h, Terminate([h EXCEPT !.b = b]))
    BY <2>2, TerminateCloses
  <2> QED BY <2>3, <2>4 DEF Closes, Leaves, NoNewSent
<1>4. CASE h.b.st = "init_sent" /\ m.type # "pair_reply" /\ m.type # "pair_error"
  BY <1>4, FailPairingLeaves DEF PairingRecord
<1> QED BY <1>1, <1>2, <1>3, <1>4

\* finish_pairing_after_confirm.
LEMMA FinishPairingLeaves ==
  ASSUME NEW h \in Run, h.b.st # "authenticated", NEW persists
  PROVE  Leaves(h, FinishPairing(h, persists))
PROOF
<1> DEFINE n == h.b.attempt
           b == [h.b EXCEPT !.nvs = n, !.attempt = 0, !.st = "complete_sent"]
           x == Msg("pair_complete", n, n, 0)
<1>1. h.b \in BoardState /\ n \in Secret
  BY DEF Run, BoardState
<1>2. FinishPairing(h, persists) = IF ~ persists THEN FailPairing(h)
                                   ELSE Send([h EXCEPT !.b = b], x, "disconnect")
  BY DEF FinishPairing, Run
<1> HIDE DEF n
<1>3. b \in BoardState /\ SameBooks(h.b, b)
  BY <1>1, Kinds DEF BoardState, States, SameBooks
<1>4. x \in Rec /\ x.type \notin Sent
  BY <1>1, Kinds DEF Msg, Rec, Types, Sent
<1>5. "disconnect" \in Dones
  BY DEF Dones
<1> HIDE DEF b, x
<1>6. Leaves(h, Send([h EXCEPT !.b = b], x, "disconnect"))
  BY <1>3, <1>4, <1>5, SendLeaves
<1> QED BY <1>2, <1>6, FailPairingLeaves

\* begin_pairing.
LEMMA BeginPairingLeaves ==
  ASSUME NEW h \in Run, h.b.st # "authenticated", FreshNames
  PROVE  Leaves(h, BeginPairing(h))
PROOF
<1> DEFINE n == FreshSecret
           c == [h.b EXCEPT !.attempt = n, !.st = "init_sent", !.waiting = TRUE]
           x == Msg("pair_init", n, 0, 0)
<1>1. h.b \in BoardState /\ n \in Secret
  BY DEF Run, FreshNames
<1>2. BeginPairing(h) = IF ~ h.b.window THEN FailPairing(h)
                        ELSE Send([h EXCEPT !.b = c], x, "none")
  BY DEF BeginPairing, Run
<1> HIDE DEF n
<1>3. x \in Rec /\ x.type \notin Sent
  BY <1>1, Kinds DEF Msg, Rec, Types, Sent
<1>4. c \in BoardState /\ SameBooks(h.b, c)
  BY <1>1, Kinds DEF BoardState, States, SameBooks
<1>5. "none" \in Dones
  BY DEF Dones
<1> HIDE DEF c, x
<1>6. Leaves(h, Send([h EXCEPT !.b = c], x, "none"))
  BY <1>3, <1>4, <1>5, SendLeaves
<1> QED BY <1>2, <1>6, FailPairingLeaves

\* begin_runtime_auth.
LEMMA BeginAuthLeaves ==
  ASSUME NEW h \in Run, h.b.st # "authenticated", FreshNames
  PROVE  Leaves(h, BeginAuth(h))
PROOF
<1> DEFINE n == FreshSession
           c == [h.b EXCEPT !.sid = n, !.st = "hello_sent", !.waiting = TRUE]
           x == Msg("hello", n, 0, 0)
<1>1. h.b \in BoardState /\ n \in Sids
  BY DEF Run, FreshNames
<1>2. BeginAuth(h) = Send([h EXCEPT !.b = c], x, "none")
  BY DEF BeginAuth, Run
<1> HIDE DEF n
<1>3. x \in Rec /\ x.type \notin Sent
  BY <1>1, Kinds DEF Msg, Rec, Types, Sent
<1>4. c \in BoardState /\ SameBooks(h.b, c)
  BY <1>1, Kinds DEF BoardState, States, SameBooks
<1>5. "none" \in Dones
  BY DEF Dones
<1> HIDE DEF c, x
<1>6. Leaves(h, Send([h EXCEPT !.b = c], x, "none"))
  BY <1>3, <1>4, <1>5, SendLeaves
<1> QED BY <1>2, <1>6

\* begin_runtime_auth, to the letter.
LEMMA BeginAuthBegins ==
  ASSUME NEW h \in Run, h.b.st # "authenticated", FreshNames, ~ h.closing, link = "up"
  PROVE  LET r == BeginAuth(h)
         IN /\ Leaves(h, r) /\ r.b.st = "hello_sent" /\ r.b.done = "none" /\ r.b.sid = FreshSession
            /\ r.toB = h.toB
            /\ \E m \in Rec : m.type = "hello" /\ m.id = FreshSession /\ r.toF = Append(h.toF, m)
PROOF
<1> DEFINE n == FreshSession
           c == [h.b EXCEPT !.sid = n, !.st = "hello_sent", !.waiting = TRUE]
           a == [h EXCEPT !.b = c]
           x == Msg("hello", n, 0, 0)
           r == Send(a, x, "none")
           e == [c EXCEPT !.done = "none"]
<1>1. h.b \in BoardState /\ n \in Sids
  BY DEF Run, FreshNames
<1>2. BeginAuth(h) = r
  BY DEF BeginAuth, Run
<1> HIDE DEF n
<1>3. x \in Rec /\ x.type = "hello" /\ x.id = n
  BY <1>1, Kinds DEF Msg, Rec, Types
<1>4. c \in BoardState /\ c.sid = n /\ c.st = "hello_sent"
  BY <1>1, Kinds DEF BoardState, States
<1>5. "none" \in Dones
  BY DEF Dones
<1> HIDE DEF c, x
<1>6. Leaves(h, r)
  BY <1>2, BeginAuthLeaves
<1>7. a \in Run /\ a.b = c /\ a.toF = h.toF /\ a.toB = h.toB /\ a.closing = h.closing
  BY <1>4, WithBoard
<1>8. e.sid = n /\ e.st = "hello_sent" /\ e.done = "none"
  BY <1>4 DEF BoardState
<1> HIDE DEF a
<1>9. /\ r.b = [a.b EXCEPT !.done = "none"] /\ r.toB = a.toB
      /\ r.toF = IF a.closing \/ link = "down" THEN a.toF ELSE Append(a.toF, x)
  BY ONLY <1>3, <1>5, <1>7, SendExactly
<1> HIDE DEF r
<1>10. r.b = e /\ r.toB = h.toB
  BY <1>7, <1>9
<1> HIDE DEF e
<1>11. ~ (a.closing \/ link = "down") /\ a.toF = h.toF
  BY <1>7
<1>12. r.toF = Append(h.toF, x)
  BY <1>9, <1>11
<1> QED BY <1>2, <1>3, <1>6, <1>8, <1>10, <1>12 DEF n

-----------------------------------------------------------------------------
(* The steps of the ESP32 in a dialogue.                                   *)

\* The books hold, and a session belongs to a paired board.
BooksInv == Books(board) /\ (board.st = "authenticated" => board.mode = "runtime")

\* It has taken a message, or none.
Takes == toB' = toB \/ (toB # << >> /\ toB' = Tail(toB))

\* It goes on with the session, or has completed the authentication.
BoardCarries ==
  /\ UNCHANGED <<flip, link, inbox>> /\ Takes
  /\ board'.mode = board.mode /\ board'.conn = board.conn /\ board'.sid = board.sid
  /\ board'.key = board.key
  /\ board'.st = board.st \/ (board.st = "hello_sent" /\ board'.st = "authenticated")
  /\ closing /\ link = "up" => closing'
  /\ \/ /\ toF' = toF
        /\ \/ Count(board') = Count(board)
           \/ Count(board') > Count(board) /\ (closing' \/ link = "down")
     \/ /\ ~ closing /\ link = "up"
        /\ board'.st = "authenticated" /\ Count(board') = Count(board) + 1
        /\ \E m \in Rec : /\ m.type \in Sent /\ m.id = board.sid /\ m.secret = board.key
                          /\ m.seq = Count(board) /\ toF' = Append(toF, m)
  /\ board.st # "authenticated" /\ board.done = "none"
       => board'.st = board.st /\ board'.done = "none" /\ toF' = toF

\* It asks for the end of the connection, and a write may be lost.
BoardCloses ==
  /\ UNCHANGED <<flip, link, inbox>> /\ Takes
  /\ board'.mode = board.mode /\ board'.conn = board.conn /\ board'.sid = board.sid
  /\ board'.st = board.st /\ board'.seq = board.seq /\ board'.done = board.done
  /\ toF' = toF \/ (toF # << >> /\ toF' = Tail(toF))
  /\ link = "up" => closing'

\* It takes an answer to hello that is proven.
BoardOpens ==
  /\ UNCHANGED <<flip, link, inbox>> /\ toB # << >> /\ toB' = Tail(toB) /\ closing' = closing
  /\ board.st = "hello_sent" /\ Head(toB).type = "hello_ack" /\ Head(toB).secret = board.nvs
  /\ board'.mode = board.mode /\ board'.conn = board.conn /\ board'.sid = board.sid
  /\ board'.st = board.st /\ board'.done = "authenticated" /\ board'.key = board.nvs
  /\ \E m \in Rec : /\ m.type = "client_auth" /\ m.id = board.sid /\ m.secret = board.nvs
                    /\ toF' = IF closing \/ link = "down" THEN toF ELSE Append(toF, m)

\* It says hello.
BoardBegins ==
  /\ UNCHANGED <<flip, link, inbox, toB>> /\ NamesLeft
  /\ link = "up" /\ board.conn = "connecting"
  /\ board'.st = "hello_sent" /\ board'.done = "none" /\ board'.sid = FreshSession
  /\ \E m \in Rec : m.type = "hello" /\ m.id = FreshSession /\ toF' = Append(toF, m)

\* It stays with the pairing.
BoardPairs ==
  /\ UNCHANGED <<flip, link, inbox>> /\ board.mode = "pairing" /\ board'.mode = "pairing"
  /\ NoNewSent(toF, toF')

\* The steps of the dialogue there are for the ESP32.
BoardServes ==
  /\ BooksInv'
  /\ BoardPairs \/ BoardCarries \/ BoardCloses \/ BoardOpens \/ BoardBegins

\* A handler that carries on, as a step.
LEMMA CarriesIs ==
  ASSUME NEW h \in Run, h.b = board, h.toF = toF, h.closing = closing,
         h.toB = toB \/ (toB # << >> /\ h.toB = Tail(toB)),
         NEW r, Carries(h, r), BoardReturns(r), UNCHANGED <<flip, link, inbox>>,
         board.st # "authenticated" /\ board.done = "none" =>
           r.b.st = board.st /\ r.b.done = "none" /\ r.toF = toF
  PROVE  BoardCarries
PROOF
<1>1. board' = r.b /\ toF' = r.toF /\ toB' = r.toB /\ closing' = r.closing
  BY DEF BoardReturns
<1>2. /\ r.b.mode = board.mode /\ r.b.conn = board.conn /\ r.b.sid = board.sid /\ r.b.key = board.key
      /\ r.b.st = board.st \/ (board.st = "hello_sent" /\ r.b.st = "authenticated")
      /\ r.toB = h.toB
      /\ closing /\ link = "up" => r.closing
  BY DEF Carries, Same
<1>3. Takes
  BY <1>1, <1>2 DEF Takes
<1> HIDE DEF Count, Rec, Sent
<1>4. \/ /\ r.toF = toF
         /\ \/ Count(r.b) = Count(board)
            \/ Count(r.b) > Count(board) /\ (r.closing \/ link = "down")
      \/ /\ ~ closing /\ link = "up"
         /\ r.b.st = "authenticated" /\ Count(r.b) = Count(board) + 1
         /\ \E m \in Rec : /\ m.type \in Sent /\ m.id = board.sid /\ m.secret = board.key
                           /\ m.seq = Count(board) /\ r.toF = Append(toF, m)
  BY DEF Carries
<1>5. Count(board)' = Count(r.b)
  BY <1>1 DEF Count
<1>6. Count(board') = Count(r.b)
  BY <1>1 DEF Count
<1> QED BY <1>1, <1>2, <1>3, <1>4, <1>6 DEF BoardCarries

\* A handler that asks for the end, as a step.
LEMMA ClosesIs ==
  ASSUME NEW h \in Run, h.b = board, h.toF = toF, h.closing = closing,
         h.toB = toB \/ (toB # << >> /\ h.toB = Tail(toB)),
         NEW r, Closes(h, r), BoardReturns(r), UNCHANGED <<flip, link, inbox>>
  PROVE  BoardCloses
PROOF BY DEF BoardReturns, Closes, BoardCloses, Takes

\* The books of a step are those of its handler.
LEMMA BooksOfReturn ==
  ASSUME SessionInv, NEW r, Books(r.b), BoardReturns(r), r.b.st = "authenticated" => r.b.mode = "runtime"
  PROVE  BooksInv'
PROOF
<1>1. board' = r.b
  BY DEF BoardReturns
<1> QED BY <1>1 DEF BooksInv

\* The step of a handler that leaves the drain alone.
LEMMA BooksOfLeaves ==
  ASSUME SessionInv, BooksInv, NEW h, h.b = board, NEW r, SameBooks(h.b, r.b), BoardReturns(r),
         board.st = "authenticated" => r.b.mode = board.mode
  PROVE  BooksInv'
PROOF
<1>1. Books(r.b)
  BY BooksKept DEF BooksInv
<1>2. r.b.st = "authenticated" => r.b.mode = "runtime"
  BY DEF SameBooks, BooksInv
<1> QED BY <1>1, <1>2, BooksOfReturn

\* hello is not answered.
LEMMA HelloTimeoutServes ==
  ASSUME SessionInv, BooksInv, HelloTimeout
  PROVE  BoardServes
PROOF
<1> DEFINE h == OnBoard(FALSE)
<1>1. h \in Run /\ h.b = board /\ h.toF = toF /\ h.toB = toB /\ h.closing = closing
  BY RunOfBoard DEF SessionInv
<1>2. BoardReturns(FailAuth(h)) /\ UNCHANGED <<flip, link, inbox>>
  BY DEF HelloTimeout
<1> HIDE DEF h
<1>3. Closes(h, FailAuth(h))
  BY <1>1, FailAuthCloses
<1>4. BoardCloses
  BY <1>1, <1>2, <1>3, ClosesIs
<1>5. BooksInv'
  BY <1>1, <1>2, <1>3, BooksOfLeaves DEF Closes
<1> QED BY <1>4, <1>5 DEF BoardServes

\* The session stood idle.
LEMMA IdleTimeoutServes ==
  ASSUME SessionInv, BooksInv, IdleTimeout
  PROVE  BoardServes
PROOF
<1> DEFINE h == OnBoard(FALSE)
           r == Terminate(h)
<1>1. h \in Run /\ h.b = board /\ h.toF = toF /\ h.toB = toB /\ h.closing = closing
  BY RunOfBoard DEF SessionInv
<1>2. BoardReturns(r) /\ UNCHANGED <<flip, link, inbox>>
  BY DEF IdleTimeout
<1> HIDE DEF h
<1>3. /\ r.b = h.b /\ r.closing = (link = "up") /\ r.toF = h.toF /\ r.toB = h.toB
  BY <1>1, TerminateIsStill DEF Still, Same
<1> HIDE DEF r
<1>4. BoardCloses
  BY <1>1, <1>2, <1>3 DEF BoardReturns, BoardCloses, Takes
<1>5. BooksInv'
  BY <1>1, <1>2, <1>3 DEF BoardReturns, BooksInv
<1> QED BY <1>4, <1>5 DEF BoardServes

\* pair_init is not answered.
LEMMA PairReplyTimeoutServes ==
  ASSUME SessionInv, BooksInv, PairReplyTimeout
  PROVE  BooksInv' /\ (board.mode = "pairing" => BoardServes)
PROOF
<1> DEFINE h == OnBoard(FALSE)
           b == [board EXCEPT !.waiting = FALSE]
           r == FailPairing([h EXCEPT !.b = b])
<1>1. h \in Run /\ h.b = board /\ h.toF = toF
  BY RunOfBoard DEF SessionInv
<1>2. board \in BoardState
  BY DEF SessionInv, TypeInv
<1>3. b \in BoardState /\ SameBooks(board, b)
  BY <1>2 DEF BoardState, SameBooks
<1>4. /\ BoardReturns(FailPairing([h EXCEPT !.b.waiting = FALSE])) /\ board.st = "init_sent"
      /\ UNCHANGED <<flip, link, inbox>>
  BY DEF PairReplyTimeout
<1> HIDE DEF h
<1>5. [h EXCEPT !.b.waiting = FALSE] = [h EXCEPT !.b = b]
  BY <1>1 DEF Run
<1>6. BoardReturns(r)
  BY <1>4, <1>5
<1> HIDE DEF b
<1>7. Leaves(h, r)
  BY <1>1, <1>3, FailPairingBehind
<1>8. BooksInv'
  BY <1>1, <1>4, <1>6, <1>7, BooksOfLeaves DEF Leaves
<1>9. board'.mode = board.mode
  <2>1. Calm([h EXCEPT !.b = b], r) /\ [h EXCEPT !.b = b].b = b
    BY <1>1, <1>3, FailPairingIsCalm, WithBoard
  <2>2. b.mode = board.mode
    BY <1>2 DEF b, BoardState
  <2> QED BY <1>6, <2>1, <2>2 DEF Calm, BoardReturns
<1>10. NoNewSent(toF, toF')
  BY <1>1, <1>6, <1>7 DEF Leaves, BoardReturns
<1> QED BY <1>4, <1>8, <1>9, <1>10 DEF BoardServes, BoardPairs

\* A write fails.
LEMMA WriteErrorServes ==
  ASSUME SessionInv, BooksInv, WriteError
  PROVE  BoardServes
PROOF
<1> DEFINE h == OnBoard(FALSE)
           b == [board EXCEPT !.attempt = 0, !.key = 0]
           rest == Tail(toF)
           a == [b |-> b, toF |-> rest, toB |-> h.toB, closing |-> h.closing, busy |-> h.busy]
           r == Terminate(a)
<1>1. board \in BoardState /\ toF \in Seq(Rec) /\ toB \in Seq(Rec) /\ closing \in BOOLEAN
  BY DEF SessionInv, TypeInv
<1>2. toF # << >> /\ UNCHANGED <<flip, link, inbox>>
      /\ BoardReturns(Terminate([h EXCEPT !.toF = Tail(@), !.b.attempt = 0, !.b.key = 0]))
  BY DEF WriteError
<1>3. rest \in Seq(Rec)
  BY <1>1, <1>2, TailIs
<1>4. /\ h \in Run /\ h.b = board /\ h.toF = toF /\ h.toB = toB /\ h.closing = closing
  BY RunOfBoard DEF SessionInv
<1> HIDE DEF h
<1>5. [h EXCEPT !.toF = Tail(@), !.b.attempt = 0, !.b.key = 0] = a
  <2>1. h = [b |-> h.b, toF |-> h.toF, toB |-> h.toB, closing |-> h.closing, busy |-> h.busy]
    BY <1>4 DEF Run
  <2>2. [h EXCEPT !.toF = Tail(@), !.b.attempt = 0, !.b.key = 0]
          = [[h EXCEPT !.b = [h.b EXCEPT !.attempt = 0, !.key = 0]] EXCEPT !.toF = Tail(h.toF)]
    BY <2>1
  <2> DEFINE c == [h EXCEPT !.b = b]
  <2> HIDE DEF b, rest
  <2>3. c = [b |-> b, toF |-> h.toF, toB |-> h.toB, closing |-> h.closing, busy |-> h.busy]
    BY <2>1
  <2> HIDE DEF c
  <2>4. [c EXCEPT !.toF = rest] = a
    BY <2>3
  <2> QED BY <1>4, <2>2, <2>4 DEF b, c, rest
<1>6. /\ b \in BoardState /\ SameBooks(board, b) /\ b.st = board.st /\ b.sid = board.sid
      /\ b.mode = board.mode /\ b.conn = board.conn /\ b.seq = board.seq /\ b.done = board.done
  BY <1>1, Kinds DEF BoardState, SameBooks
<1> HIDE DEF b, rest
<1>8. a \in Run
  BY <1>3, <1>4, <1>6 DEF Run
<1>9. a.b = b /\ a.toF = rest /\ a.toB = toB
  BY <1>4
<1> HIDE DEF a
<1>10. r.b = a.b /\ r.toF = a.toF /\ r.toB = a.toB /\ r.closing = (link = "up")
  BY <1>8, TerminateIsCalm, TerminateIsStill
<1>11. BoardReturns(r)
  BY <1>2, <1>5
<1> HIDE DEF r
<1>12. /\ board' = b /\ toF' = rest /\ toB' = toB /\ closing' = (link = "up")
  BY <1>9, <1>10, <1>11 DEF BoardReturns
<1>13. BoardCloses
  BY <1>2, <1>6, <1>12 DEF BoardCloses, Takes, rest
<1>14. BooksInv'
  BY <1>4, <1>6, <1>9, <1>10, <1>11, BooksOfLeaves
<1> QED BY <1>13, <1>14 DEF BoardServes

\* A scan has something to report.
LEMMA CaptureServes ==
  ASSUME SessionInv, BooksInv, Capture
  PROVE  BoardServes
PROOF
<1>1. PICK busy \in BOOLEAN :
        BoardReturns(LET h == [OnBoard(busy) EXCEPT !.b.backlog = @ + 1]
                     IN IF board.st = "authenticated" THEN KickSend(h) ELSE h)
  BY DEF Capture
<1>2. UNCHANGED <<flip, link, inbox>> /\ board.backlog < MaxBacklog
  BY DEF Capture
<1> DEFINE h == OnBoard(busy)
           n == board.backlog + 1
           b == [board EXCEPT !.backlog = n]
           a == [h EXCEPT !.b = b]
           r == IF board.st = "authenticated" THEN KickSend(a) ELSE a
<1>3. h \in Run /\ h.b = board /\ h.toF = toF /\ h.toB = toB /\ h.closing = closing
  BY RunOfBoard DEF SessionInv
<1>4. [OnBoard(busy) EXCEPT !.b.backlog = @ + 1] = a
  BY <1>3 DEF Run
<1>5. BoardReturns(r)
  BY <1>1, <1>4
<1> HIDE DEF h
<1>6. board \in BoardState
  BY DEF SessionInv, TypeInv
<1>7. n \in 0 .. MaxBacklog /\ n \in Int /\ n > 0
  <2>1. board.backlog \in 0 .. MaxBacklog
    BY DEF BooksInv, Books
  <2> QED BY <2>1, <1>2, SessionAssumption
<1> HIDE DEF n
<1>8. /\ b \in BoardState /\ SameStanding(board, b) /\ b.backlog = n /\ b.pending = board.pending
      /\ b.inFlight = board.inFlight /\ b.sid = board.sid /\ b.seq = board.seq
  BY <1>6, <1>7 DEF BoardState, SameStanding
<1> HIDE DEF b
<1>9. a \in Run /\ a.b = b /\ a.toF = toF
  BY <1>3, <1>8, WithBoard
<1>10. Still(h, a)
  BY <1>3, <1>8, BooksAreStill
<1> HIDE DEF a
<1>11. Books(b)
  BY <1>7, <1>8 DEF BooksInv, Books, SameStanding
<1>12. link \in {"up", "down"}
  BY DEF SessionInv, TypeInv
<1>13. CASE board.st = "authenticated"
  <2>1. Books(KickSend(a).b) /\ Carries(a, KickSend(a))
    BY <1>8, <1>9, <1>11, <1>12, <1>13, KickSendServes DEF SameStanding
  <2>2. Carries(h, KickSend(a)) /\ r = KickSend(a)
    BY <1>10, <1>13, <2>1, StillThenCarries
  <2> HIDE DEF r
  <2>3. BoardCarries
    BY <1>2, <1>3, <1>5, <1>13, <2>2, CarriesIs
  <2>4. r.b.mode = "runtime"
    BY <1>3, <1>13, <2>2 DEF Carries, Same, BooksInv
  <2>5. BooksInv'
    BY <1>5, <2>1, <2>2, <2>4, BooksOfReturn
  <2> QED BY <2>3, <2>5 DEF BoardServes
<1>14. CASE board.st # "authenticated"
  <2>1. r = a
    BY <1>14
  <2> HIDE DEF r
  <2>2. Carries(h, r)
    BY <1>10, <2>1, StillCarries
  <2>3. BoardCarries
    BY <1>2, <1>3, <1>5, <1>8, <1>9, <1>14, <2>1, <2>2, CarriesIs DEF SameStanding
  <2>4. BooksInv'
    BY <1>5, <1>8, <1>9, <1>11, <1>14, <2>1, BooksOfReturn DEF SameStanding
  <2> QED BY <2>3, <2>4 DEF BoardServes
<1> QED BY <1>13, <1>14

\* The answer to the write of pair_confirm has no business with the drain.
LEMMA DoneLeaves ==
  ASSUME NEW h \in Run, Books(h.b), NEW persists, h.b.done = "complete", h.b.st # "authenticated",
         link \in {"up", "down"}
  PROVE  /\ Books(Done(h, persists).b) /\ Done(h, persists).b.mode = h.b.mode
         /\ NoNewSent(h.toF, Done(h, persists).toF)
PROOF
<1> DEFINE a == Handling(h)
           c == FinishPairing(a, persists)
<1>1. /\ a \in Run /\ Books(a.b) /\ a.b.st = h.b.st /\ a.b.mode = h.b.mode /\ a.toF = h.toF
  BY HandlingServes DEF Still, Same
<1>2. Done(h, persists) = StartNext(c)
  BY DEF Done, Completed
<1> HIDE DEF a
<1>3. Leaves(a, c)
  BY <1>1, FinishPairingLeaves
<1>4. c.b.mode = a.b.mode
  <2>1. CASE ~ persists
    <3>1. c = FailPairing(a)
      BY <2>1 DEF FinishPairing
    <3>2. Calm(a, FailPairing(a))
      BY <1>1, FailPairingIsCalm
    <3> HIDE DEF c
    <3> QED BY <3>1, <3>2 DEF Calm
  <2>2. CASE persists
    <3>1. c = FinishPairing(a, TRUE)
      BY <2>2 DEF FinishPairing
    <3>2. Ended(a, FinishPairing(a, TRUE))
      BY <1>1, FinishPairingEnds
    <3> HIDE DEF c
    <3> QED BY <3>1, <3>2 DEF Ended
  <2> QED BY <2>1, <2>2
<1> HIDE DEF c
<1>5. c \in Run /\ Books(c.b)
  BY <1>1, <1>3, BooksKept DEF Leaves
<1>6. StartNext(c) = c
  <2>1. c.b.st # "authenticated"
    BY <1>1, <1>3 DEF Leaves, SameBooks
  <2>2. c.b.pending = << >>
    BY <1>5, <2>1 DEF Books
  <2> QED BY <2>2 DEF StartNext
<1> QED BY <1>1, <1>2, <1>3, <1>4, <1>5, <1>6 DEF Leaves

\* The board, behind the message it takes.
LEMMA BehindHas ==
  ASSUME SessionInv, toB # << >>, NEW busy \in BOOLEAN
  PROVE  Behind(busy).toB = Tail(toB)
PROOF
<1> DEFINE h == OnBoard(busy)
           rest == Tail(toB)
<1>1. h \in Run /\ h.toB = toB
  BY RunOfBoard DEF SessionInv
<1>2. Behind(busy) = [h EXCEPT !.toB = rest]
  BY <1>1 DEF Behind
<1> HIDE DEF h, rest, BoardState, Rec
<1>3. [h EXCEPT !.toB = rest].toB = rest
  BY <1>1 DEF Run
<1> QED BY <1>2, <1>3 DEF rest

\* A record of the authentication or of the session.
LEMMA RuntimeRecordServes ==
  ASSUME NEW h \in Run, Books(h.b), link \in {"up", "down"}, NEW m \in Rec
  PROVE  LET r == RuntimeRecord(h, m)
         IN /\ Books(r.b)
            /\ \/ Closes(h, r)
               \/ h.b.st = "authenticated" /\ Carries(h, r)
               \/ /\ h.b.st = "hello_sent" /\ m.type = "hello_ack" /\ m.secret = h.b.nvs
                  /\ Opens(h, r)
PROOF
<1>1. CASE h.b.st = "authenticated"
  BY <1>1, ProtectedRecordServes DEF RuntimeRecord
<1>2. CASE h.b.st = "hello_sent" /\ m.type = "hello_ack" /\ m.id = h.b.sid
  <2>1. RuntimeRecord(h, m) = HandleHelloAck(h, m)
    BY <1>2 DEF RuntimeRecord
  <2>2. IF m.secret = h.b.nvs THEN Opens(h, HandleHelloAck(h, m)) ELSE Closes(h, HandleHelloAck(h, m))
    BY HandleHelloAckOpens
  <2> DEFINE r == HandleHelloAck(h, m)
  <2> HIDE DEF r
  <2>3. Books(r.b)
    BY <2>2, BooksKept DEF Opens, Closes, r
  <2> QED BY <1>2, <2>1, <2>2, <2>3 DEF r
<1>3. CASE h.b.st = "hello_sent" /\ m.type = "unknown_board"
  <2>1. RuntimeRecord(h, m) = UnknownBoard(h)
    BY <1>3 DEF RuntimeRecord
  <2> QED BY <2>1, UnknownBoardCloses, BooksKept DEF Closes
<1>4. CASE /\ h.b.st # "authenticated"
           /\ ~ (h.b.st = "hello_sent" /\ m.type = "hello_ack" /\ m.id = h.b.sid)
           /\ ~ (h.b.st = "hello_sent" /\ m.type = "unknown_board")
  <2>1. RuntimeRecord(h, m) = FailAuth(h)
    BY <1>4 DEF RuntimeRecord
  <2> QED BY <2>1, FailAuthCloses, BooksKept DEF Closes
<1> QED BY <1>1, <1>2, <1>3, <1>4

\* What reaches the ESP32.
LEMMA BoardReceivesServes ==
  ASSUME SessionInv, BooksInv, BoardReceives
  PROVE  BoardServes
PROOF
<1>1. toB # << >> /\ UNCHANGED <<flip, link, inbox>>
  BY DEF BoardReceives
<1>2. link \in {"up", "down"} /\ board \in BoardState
  BY DEF SessionInv, TypeInv
<1>3. CASE Head(toB) = Ack
  <2>1. PICK persists \in BOOLEAN : BoardReturns(WriteComplete(OnBoard(FALSE), persists))
    BY <1>3 DEF BoardReceives
  <2> DEFINE h == Behind(FALSE)
             r == Done(h, persists)
  <2>2. h \in Run /\ h.b = board /\ h.toF = toF /\ h.closing = closing /\ h.toB = Tail(toB)
    BY <1>1, BehindIs, BehindHas
  <2>3. BoardReturns(r)
    BY <1>1, <2>1, WriteCompleteIs
  <2> HIDE DEF h
  <2>4. CASE board.done = "complete"
    <3>1. board.mode = "pairing" /\ board.st # "authenticated"
      BY <2>4 DEF SessionInv, StepInv
    <3>2. Books(r.b) /\ r.b.mode = "pairing" /\ NoNewSent(toF, r.toF)
      BY <1>2, <2>2, <2>4, <3>1, DoneLeaves DEF BooksInv
    <3>3. r.b.st # "authenticated"
      <4>1. Quiet(h, r, Ack) \/ Ended(h, r)
        BY <2>2, <2>4, DoneEnds
      <4>2. Quiet(h, r, Ack) => r.b.st # "authenticated"
        BY <2>2, <3>1 DEF Quiet, Turn
      <4> QED BY <4>1, <4>2 DEF Ended
    <3> HIDE DEF r
    <3>4. BooksInv'
      BY <2>3, <3>2, <3>3, BooksOfReturn
    <3> QED BY <1>1, <2>3, <3>1, <3>2, <3>4 DEF BoardServes, BoardPairs, BoardReturns
  <2>5. CASE board.done # "complete"
    <3>1. board.done = "authenticated" => board.st = "hello_sent"
      BY DEF SessionInv, StepInv
    <3>2. /\ Books(r.b) /\ Carries(h, r)
          /\ board.st # "authenticated" /\ board.done = "none" =>
               r.b.st = board.st /\ r.b.done = "none" /\ r.toF = toF
      BY <1>2, <2>2, <2>5, <3>1, DoneServes DEF BooksInv
    <3> HIDE DEF r
    <3>3. BoardCarries
      BY <1>1, <2>2, <2>3, <3>2, CarriesIs
    <3>4. r.b.st = "authenticated" => r.b.mode = "runtime"
      BY <2>2, <3>2 DEF Carries, Same, BooksInv, SessionInv, StepInv
    <3>5. BooksInv'
      BY <2>3, <3>2, <3>4, BooksOfReturn
    <3> QED BY <3>3, <3>5 DEF BoardServes
  <2> QED BY <2>4, <2>5
<1>4. CASE Head(toB) # Ack /\ board.mode = "pairing"
  <2> DEFINE h == Behind(FALSE)
             m == Head(toB)
             r == PairingRecord(h, m)
  <2>1. BoardReturns(r)
    BY <1>4 DEF BoardReceives, Behind
  <2>2. h \in Run /\ h.b = board /\ h.toF = toF /\ m \in Rec
    BY <1>1, BehindIs
  <2> HIDE DEF h, m
  <2>3. Leaves(h, r)
    BY <2>2, PairingRecordLeaves
  <2>4. Quiet(h, r, m)
    BY <1>4, <2>2, PairingRecordIsQuiet DEF SessionInv, LinkInv
  <2> HIDE DEF r
  <2>5. r.b.mode = "pairing"
    BY <1>4, <2>2, <2>4 DEF Quiet, Turn
  <2>6. BooksInv'
    BY <1>4, <2>1, <2>2, <2>3, <2>5, BooksOfLeaves DEF Leaves
  <2> QED BY <1>1, <1>4, <2>1, <2>2, <2>3, <2>5, <2>6 DEF BoardServes, BoardPairs, BoardReturns, Leaves
<1>5. CASE Head(toB) # Ack /\ board.mode # "pairing"
  <2>1. PICK busy \in BOOLEAN :
          BoardReturns(RuntimeRecord([OnBoard(busy) EXCEPT !.toB = Tail(@)], Head(toB)))
    BY <1>5 DEF BoardReceives
  <2> DEFINE h == Behind(busy)
             m == Head(toB)
             r == RuntimeRecord(h, m)
  <2>2. BoardReturns(r)
    BY <2>1 DEF Behind
  <2>3. h \in Run /\ h.b = board /\ h.toF = toF /\ h.closing = closing /\ h.toB = Tail(toB) /\ m \in Rec
    BY <1>1, BehindIs, BehindHas
  <2>4. board.mode = "runtime"
    BY <1>2, <1>5 DEF BoardState
  <2> HIDE DEF h
  <2>5. /\ Books(r.b)
        /\ \/ Closes(h, r)
           \/ h.b.st = "authenticated" /\ Carries(h, r)
           \/ /\ h.b.st = "hello_sent" /\ m.type = "hello_ack" /\ m.secret = h.b.nvs
              /\ Opens(h, r)
    <3> HIDE DEF m
    <3> QED BY <1>2, <2>3, RuntimeRecordServes DEF BooksInv
  <2> HIDE DEF r
  <2>6. r.b.mode = "runtime"
    BY <2>3, <2>4, <2>5 DEF Closes, Carries, Same, Opens
  <2>7. BooksInv'
    BY <2>2, <2>5, <2>6, BooksOfReturn
  <2>8. Closes(h, r) => BoardCloses
    BY <1>1, <2>2, <2>3, ClosesIs
  <2>9. board.st = "authenticated" /\ Carries(h, r) => BoardCarries
    BY <1>1, <2>2, <2>3, CarriesIs
  <2>10. board.st = "hello_sent" /\ m.type = "hello_ack" /\ m.secret = board.nvs /\ Opens(h, r)
           => BoardOpens
    BY <1>1, <2>2, <2>3 DEF Opens, BoardOpens, BoardReturns
  <2> QED BY <2>3, <2>5, <2>7, <2>8, <2>9, <2>10 DEF BoardServes
<1> QED BY <1>3, <1>4, <1>5

\* The dialogue begins.
LEMMA SubscribedServes ==
  ASSUME SessionInv, BooksInv, Subscribed
  PROVE  BooksInv' /\ (~ closing => BoardServes)
PROOF
<1> DEFINE h == OnBoard(FALSE)
           b == [board EXCEPT !.conn = "up"]
           a == [h EXCEPT !.b = b]
           r == IF board.mode = "runtime" THEN BeginAuth(a) ELSE BeginPairing(a)
<1>1. h \in Run /\ h.b = board /\ h.toF = toF /\ h.toB = toB /\ h.closing = closing
  BY RunOfBoard DEF SessionInv
<1>2. board \in BoardState
  BY DEF SessionInv, TypeInv
<1>3. /\ b \in BoardState /\ b.mode = board.mode /\ b.st = board.st /\ SameBooks(board, b)
      /\ b.conn = "up"
  BY <1>2 DEF BoardState, Conns, SameBooks
<1>4. link = "up" /\ board.conn = "connecting" /\ NamesLeft /\ UNCHANGED <<flip, link, inbox>>
      /\ BoardReturns(IF board.mode = "runtime" THEN BeginAuth([h EXCEPT !.b.conn = "up"])
                      ELSE BeginPairing([h EXCEPT !.b.conn = "up"]))
  BY DEF Subscribed
<1> HIDE DEF h
<1>5. [h EXCEPT !.b.conn = "up"] = a
  BY <1>1 DEF Run
<1>6. BoardReturns(r)
  BY <1>4, <1>5
<1> HIDE DEF b
<1>7. a \in Run /\ a.b = b /\ a.toF = toF /\ a.toB = toB /\ a.closing = closing
  BY <1>1, <1>3, WithBoard
<1> HIDE DEF a
<1>8. FreshNames
  <2>1. FreshSecret \in 1 .. NSecrets /\ FreshSession \in 1 .. NSessions
    BY <1>4, NamesAreFresh
  <2> QED BY <2>1, SessionAssumption DEF FreshNames, Secret, Sids
<1>9. board.st = "idle"
  BY <1>4 DEF SessionInv, LinkInv
<1>10. CASE board.mode = "runtime"
  <2>1. r = BeginAuth(a)
    BY <1>10
  <2>0. a.b.st # "authenticated"
    BY <1>3, <1>7, <1>9
  <2>2. ~ closing =>
          /\ r.b.st = "hello_sent" /\ r.b.done = "none" /\ r.b.sid = FreshSession
          /\ r.toB = a.toB
          /\ \E m \in Rec : m.type = "hello" /\ m.id = FreshSession /\ r.toF = Append(a.toF, m)
    <3> SUFFICES ASSUME ~ closing
                 PROVE  /\ r.b.st = "hello_sent" /\ r.b.done = "none" /\ r.b.sid = FreshSession
                        /\ r.toB = a.toB
                        /\ \E m \in Rec : /\ m.type = "hello" /\ m.id = FreshSession
                                          /\ r.toF = Append(a.toF, m)
      OBVIOUS
    <3>1. ~ a.closing
      BY <1>7
    <3> QED BY <1>4, <1>7, <1>8, <2>0, <2>1, <3>1, BeginAuthBegins
  <2>a. Leaves(a, r)
    BY <1>7, <1>8, <2>0, <2>1, BeginAuthLeaves
  <2> HIDE DEF r
  <2>3. ~ closing => BoardBegins
    <3> HIDE DEF FreshSession, NamesLeft
    <3> QED BY <1>4, <1>6, <1>7, <2>2 DEF BoardBegins, BoardReturns
  <2>4. SameBooks(board, r.b)
    BY <1>3, <1>7, <2>a, SameBooksPassed DEF Leaves
  <2>5. BooksInv'
    BY <1>6, <1>9, <2>4, BooksOfLeaves, <1>1
  <2> QED BY <2>3, <2>5 DEF BoardServes
<1>11. CASE board.mode # "runtime"
  <2>1. r = BeginPairing(a) /\ board.mode = "pairing"
    BY <1>2, <1>11 DEF BoardState
  <2>2. Leaves(a, r)
    BY <1>3, <1>7, <1>8, <1>9, <2>1, BeginPairingLeaves
  <2>3. Quiet(a, r, Ack)
    BY <1>3, <1>7, <1>8, <1>9, <2>1, BeginPairingIsQuiet
  <2> HIDE DEF r
  <2>4. SameBooks(board, r.b)
    BY <1>3, <1>7, <2>2, SameBooksPassed DEF Leaves
  <2>5. BooksInv'
    BY <1>1, <1>6, <1>9, <2>4, BooksOfLeaves
  <2>6. board'.mode = "pairing"
    BY <1>3, <1>6, <1>7, <2>1, <2>3 DEF Quiet, Turn, BoardReturns
  <2> QED BY <1>4, <1>6, <1>7, <2>1, <2>2, <2>5, <2>6 DEF BoardServes, BoardPairs, BoardReturns, Leaves
<1> QED BY <1>10, <1>11

\* The steps that leave the ESP32 alone.
LEMMA BoardLeftAlone ==
  ASSUME \/ Delivered \/ FlipperHandles \/ LinkCloses \/ LinkLost \/ FlipperDisconnect \/ MainHandles
         \/ UserCommand \/ FlipperStart \/ FlipperStops \/ RecordRemoved
  PROVE  board' = board
PROOF
<1>1. CASE Delivered \/ FlipperHandles \/ LinkCloses \/ LinkLost \/ FlipperDisconnect
  BY <1>1 DEF Delivered, FlipperHandles, LinkCloses, LinkLost, FlipperDisconnect
<1>2. CASE MainHandles \/ UserCommand
  BY <1>2 DEF MainHandles, UserCommand
<1>3. CASE FlipperStart \/ FlipperStops \/ RecordRemoved
  BY <1>3 DEF FlipperStart, FlipperStops, RecordRemoved
<1> QED BY <1>1, <1>2, <1>3

\* The books of a board that boots.
LEMMA BooksAtBoot ==
  ASSUME NEW nvs \in Secret, NEW backlog \in 0 .. MaxBacklog
  PROVE  Books(BoardAtBoot(nvs, backlog)) /\ BoardAtBoot(nvs, backlog).st = "idle"
PROOF
<1>1. << >> \in Seq(Sent) /\ DOMAIN << >> = {}
  BY EmptySeq
<1>2. LET b == BoardAtBoot(nvs, backlog)
      IN /\ b.st = "idle" /\ b.pending = << >> /\ b.done = "none" /\ b.inFlight = FALSE
         /\ b.backlog = backlog
  BY DEF BoardAtBoot
<1> QED BY <1>1, <1>2 DEF Books, Batched

\* The books hold at first.
LEMMA InitBooks ==
  ASSUME Init
  PROVE  BooksInv
PROOF
<1>1. PICK nvs \in {0, 1} : board = BoardAtBoot(nvs, MaxBacklog)
  BY DEF Init
<1>2. nvs \in Secret /\ MaxBacklog \in 0 .. MaxBacklog
  BY Kinds, SessionAssumption
<1> QED BY <1>1, <1>2, BooksAtBoot DEF BooksInv

\* A connection begins with nothing to send.
LEMMA ConnectKeepsBooks ==
  ASSUME SessionInv, BooksInv, Connect
  PROVE  BooksInv'
PROOF
<1>1. board' = [board EXCEPT !.conn = "connecting", !.st = "idle", !.reason = "normal",
                             !.waiting = FALSE, !.seq = 0, !.rx = 0, !.done = "none",
                             !.pending = << >>, !.inFlight = FALSE, !.delay = 0]
  BY DEF Connect
<1>2. board \in BoardState
  BY DEF SessionInv, TypeInv
<1>3. /\ board'.st = "idle" /\ board'.pending = << >> /\ board'.done = "none"
      /\ board'.inFlight = FALSE /\ board'.backlog = board.backlog
  BY <1>1, <1>2 DEF BoardState
<1>4. DOMAIN << >> = {}
  BY EmptySeq
<1> QED BY <1>3, <1>4 DEF BooksInv, Books, Batched

\* And ends so.
LEMMA BoardDisconnectKeepsBooks ==
  ASSUME SessionInv, BooksInv, BoardDisconnect
  PROVE  BooksInv'
PROOF
<1> DEFINE b == [board EXCEPT !.conn = "none", !.st = "idle", !.waiting = FALSE,
                              !.reason = "normal", !.done = "none", !.pending = << >>,
                              !.attempt = 0, !.key = 0, !.inFlight = FALSE]
<1>1. board' = Afterwards(b, board.reason)
  BY DEF BoardDisconnect
<1>2. board \in BoardState
  BY DEF SessionInv, TypeInv
<1>3. /\ b.st = "idle" /\ b.pending = << >> /\ b.done = "none"
      /\ b.inFlight = FALSE /\ b.backlog = board.backlog
  BY <1>2 DEF BoardState
<1>a. b \in BoardState
  <2>1. << >> \in Seq(Sent)
    BY EmptySeq
  <2> QED BY <1>2, <2>1, ZenonT(40), Kinds DEF BoardState, Conns, States, Dones, Reasons
<1> HIDE DEF b
<1>4. /\ board'.st = "idle" /\ board'.pending = << >> /\ board'.done = "none"
      /\ board'.inFlight = FALSE /\ board'.backlog = board.backlog
  BY <1>1, <1>3, <1>a DEF Afterwards, BoardState
<1>5. DOMAIN << >> = {}
  BY EmptySeq
<1> QED BY <1>4, <1>5 DEF BooksInv, Books, Batched

\* The window has nothing to do with them.
LEMMA WindowExpiresKeepsBooks ==
  ASSUME SessionInv, BooksInv, WindowExpires
  PROVE  BooksInv' /\ board'.mode = "pairing"
PROOF
<1>1. board' = [board EXCEPT !.window = FALSE] /\ board.mode = "pairing"
  BY DEF WindowExpires
<1>2. board \in BoardState
  BY DEF SessionInv, TypeInv
<1>3. SameBooks(board, board') /\ board'.mode = board.mode /\ board'.st = board.st
  BY <1>1, <1>2 DEF BoardState, SameBooks
<1>4. Books(board')
  BY <1>3, BooksKept DEF BooksInv
<1> QED BY <1>1, <1>3, <1>4 DEF BooksInv

\* A reset, with the secret or without.
LEMMA BootKeepsBooks ==
  ASSUME SessionInv, BooksInv, Restart \/ FactoryReset
  PROVE  BooksInv' /\ board'.conn = "none"
PROOF
<1>1. PICK nvs \in Secret : board' = BoardAtBoot(nvs, board.backlog)
  BY Kinds DEF Restart, FactoryReset, SessionInv, TypeInv, BoardState
<1>2. board.backlog \in 0 .. MaxBacklog /\ board.backlog \in Int
  BY DEF BooksInv, Books
<1>3. Books(board') /\ board'.st = "idle"
  BY <1>1, <1>2, BooksAtBoot
<1>4. board'.conn = "none"
  BY <1>1, <1>2, BoardAtBootIs
<1> QED BY <1>3, <1>4 DEF BooksInv

\* Every step keeps the books.
LEMMA StepKeepsBooks ==
  ASSUME SessionInv, BooksInv, [Next]_vars
  PROVE  BooksInv'
PROOF
<1>1. CASE UNCHANGED vars
  BY <1>1 DEF vars, system, BooksInv
<1>2. CASE \/ Delivered \/ FlipperHandles \/ LinkCloses \/ LinkLost \/ FlipperDisconnect \/ MainHandles
           \/ UserCommand \/ FlipperStart \/ FlipperStops \/ RecordRemoved
  BY <1>2, BoardLeftAlone DEF BooksInv
<1>3. CASE Connect \/ BoardDisconnect \/ WindowExpires \/ Restart \/ FactoryReset
  BY <1>3, ConnectKeepsBooks, BoardDisconnectKeepsBooks, WindowExpiresKeepsBooks, BootKeepsBooks
<1>4. CASE Subscribed
  BY <1>4, SubscribedServes
<1>5. CASE BoardReceives \/ WriteError \/ Capture
  BY <1>5, BoardReceivesServes, WriteErrorServes, CaptureServes DEF BoardServes
<1>6. CASE HelloTimeout \/ PairReplyTimeout \/ IdleTimeout
  BY <1>6, HelloTimeoutServes, PairReplyTimeoutServes, IdleTimeoutServes DEF BoardServes
<1> QED BY <1>1, <1>2, <1>3, <1>4, <1>5, <1>6 DEF Next

\* The faults that are left.
FaultsInv == faults \in 0 .. MaxFaults

\* A failure uses one up.
LEMMA FaultsLeft ==
  ASSUME FaultsInv, Fault \/ UNCHANGED faults
  PROVE  FaultsInv'
PROOF
<1>1. faults \in 0 .. MaxFaults /\ MaxFaults \in Nat
  BY SessionAssumption DEF FaultsInv
<1>2. faults' = faults \/ (faults > 0 /\ faults' = faults - 1)
  BY DEF Fault
<1> QED BY <1>1, <1>2 DEF FaultsInv

\* Every step uses up one at most.
LEMMA StepKeepsFaults ==
  ASSUME FaultsInv, [Next]_vars
  PROVE  FaultsInv'
PROOF
<1> HIDE DEF Fault
<1>1. CASE Connect \/ Subscribed \/ Delivered \/ IdleTimeout \/ WindowExpires \/ Capture \/ LinkCloses
           \/ BoardDisconnect \/ FlipperDisconnect \/ MainHandles \/ UserCommand \/ FlipperStart
           \/ UNCHANGED vars
  <2>1. UNCHANGED faults
    BY <1>1 DEF Connect, Subscribed, Delivered, IdleTimeout, WindowExpires, Capture, LinkCloses,
                BoardDisconnect, FlipperDisconnect, MainHandles, UserCommand, FlipperStart, vars, system
  <2> QED BY <2>1, FaultsLeft
<1>2. CASE WriteError \/ LinkLost \/ FlipperStops \/ RecordRemoved \/ Restart \/ FactoryReset
  <2>1. Fault
    BY <1>2 DEF WriteError, LinkLost, FlipperStops, RecordRemoved, Restart, FactoryReset
  <2> QED BY <2>1, FaultsLeft
<1>3. CASE HelloTimeout \/ PairReplyTimeout
  <2>1. Fault \/ UNCHANGED faults
    BY <1>3 DEF HelloTimeout, PairReplyTimeout, Overdue, FaultIf
  <2> QED BY <2>1, FaultsLeft
<1>4. CASE FlipperHandles
  <2>1. Fault \/ UNCHANGED faults
    BY <1>4 DEF FlipperHandles, FaultIf
  <2> QED BY <2>1, FaultsLeft
<1>5. CASE BoardReceives
  <2>1. Fault \/ UNCHANGED faults
    BY <1>5 DEF BoardReceives, FaultIf
  <2> QED BY <2>1, FaultsLeft
<1> QED BY <1>1, <1>2, <1>3, <1>4, <1>5 DEF Next

\* A queue of records is a queue of messages.
LEMMA RecordsAreMessages ==
  ASSUME NEW s \in Seq(Rec)
  PROVE  s \in Seq(Message)
PROOF
<1>1. Rec \subseteq Message
  BY DEF Rec, Message, Ids, Nums
<1>2. s \in [1 .. Len(s) -> Rec] /\ Len(s) \in Nat
  BY LenProperties
<1> HIDE DEF Rec, Message
<1>3. s \in [1 .. Len(s) -> Message]
  BY <1>1, <1>2
<1> QED BY <1>2, <1>3, SeqDef

\* The kinds of values, from the invariants.
LEMMA TypesHold ==
  ASSUME SessionInv, BooksInv, FaultsInv
  PROVE  TypeOK
PROOF
<1>1. TypeInv
  BY DEF SessionInv
<1>2. toF \in Seq(Message) /\ inbox \in Seq(Message) /\ toB \in Seq(Message)
  BY <1>1, RecordsAreMessages DEF TypeInv
<1>3. board \in [nvs : Secret, mode : {"runtime", "pairing"}, window : BOOLEAN,
                conn : {"none", "connecting", "up"},
                st : {"idle", "init_sent", "confirm_sent", "complete_sent", "hello_sent",
                      "authenticated"},
                attempt : Secret, sid : 0 .. NSessions, key : Secret,
                seq : 0 .. SequenceMax, rx : 0 .. SequenceMax, waiting : BOOLEAN,
                done : {"none", "complete", "disconnect", "authenticated", "drained"},
                pending : Seq({"capability", "status", "batch"}), inFlight : BOOLEAN,
                backlog : 0 .. MaxBacklog, reason : {"normal", "auth_failed", "unknown_board"},
                fails : 0 .. MaxFails, delay : 0 .. MaxFails]
  <2>1. board \in BoardState /\ board.backlog \in 0 .. MaxBacklog
    BY <1>1 DEF TypeInv, BooksInv, Books
  <2> QED BY <2>1 DEF BoardState, Conns, States, Dones, Sent, Sids, Counts, Fails, Reasons
<1>4. /\ flip \in [up : BOOLEAN, conn : BOOLEAN, file : Secret, cached : BOOLEAN,
               stage : {"none", "init", "confirm"}, pair : Secret,
               sess : {"none", "hello", "active"}, sid : 0 .. NSessions, secret : Secret,
               key : Secret, out : 0 .. SequenceMax, in : 0 .. SequenceMax, known : BOOLEAN,
               phase : {"none", "waiting", "exchanging", "confirming", "saving", "done", "failed",
                        "authenticating", "active"},
               events : Seq({"connected", "advertising", "fatal", "capability", "confirming",
                             "saving", "done", "failed", "authenticating", "active"})]
      /\ Len(flip.events) <= EventCap
  <2>1. flip \in FlipState
    BY <1>1 DEF TypeInv
  <2> QED BY <2>1 DEF FlipState, Queue, Events, Phases, Sids, Counts
<1> QED BY <1>1, <1>2, <1>3, <1>4 DEF TypeOK, TypeInv, FaultsInv

(***************************************************************************)
(* Every component keeps to its kind of values, in every timing of the     *)
(* Flipper's main thread: no counter of a session passes the cap of the    *)
(* sequence, the event queue keeps its length, and the drain, which takes  *)
(* a capture off the log whenever the answer to a batch comes, never takes *)
(* one that is not there (wardriving_send_next_batch).                     *)
(***************************************************************************)
THEOREM TypesAreKept == Spec => []TypeOK
PROOF
<1>1. Init => BooksInv /\ FaultsInv
  <2>1. Init => faults = MaxFaults
    BY DEF Init
  <2>2. MaxFaults \in 0 .. MaxFaults
    BY SessionAssumption
  <2> QED BY <2>1, <2>2, InitBooks DEF FaultsInv
<1>2. SessionInv /\ BooksInv /\ FaultsInv /\ [Next]_vars => BooksInv' /\ FaultsInv'
  BY StepKeepsBooks, StepKeepsFaults
<1>3. SessionInv /\ BooksInv /\ FaultsInv => TypeOK
  BY TypesHold
<1> QED BY <1>1, <1>2, <1>3, SessionInvariant, PTL DEF Spec

-----------------------------------------------------------------------------
(* The dialogue of the two, by how far it has come: o are the records on    *)
(* their way to the Flipper, t the messages on their way to the board b,    *)
(* f is the Flipper; up says that the link is up, live that no side has     *)
(* asked for its end either.                                               *)

\* From the k-th on, the records of s are records of a session ...
Streams(s, k) == \A i \in k .. Len(s) : s[i].type \in Sent

\* ... with rising numbers between low and high ...
Climbs(s, k, low, high) ==
  \A i \in k .. Len(s) : s[i].seq >= low /\ s[i].seq < high /\ \A j \in k .. i - 1 : s[j].seq < s[i].seq

\* ... of which none is missing.
Whole(b, s, k, low, high) ==
  /\ Len(s) - k + 1 = high - low
  /\ \A i \in k .. Len(s) : s[i].seq = low + i - k /\ s[i].id = b.sid /\ s[i].secret = b.key

Acks(t) == \A i \in 1 .. Len(t) : t[i] = Ack

\* The Flipper has opened the session of the board.
Joined(b, f) == f.sess = "active" /\ f.sid = b.sid

\* It has not, and its main thread does not believe so either.
Unopened(b, f, up) ==
  /\ ~ Joined(b, f)
  /\ up => f.phase # "active" /\ "active" \notin Range(f.events)

\* Its main thread is not about to give the session up.
Steady(f, up) == up => "connected" \notin Range(f.events) /\ "advertising" \notin Range(f.events)

\* The answer to hello, behind the answer to its write.
Answers(b, f, t) ==
  \A i \in 1 .. Len(t) :
    /\ t[i] = Ack \/ (i = Len(t) /\ t[i].type \in {"hello_ack", "unknown_board"})
    /\ t[i].type = "hello_ack" => f.sess = "hello" /\ f.sid = b.sid /\ f.secret = t[i].secret

\* The numbered records of the Flipper, and no answer to hello.
Streaming(t, out) ==
  out >= 1 /\ Rising(t, 1, out) /\ \A i \in 1 .. Len(t) : t[i].type # "hello_ack"

HelloOut(b, f, o, t, up) ==
  /\ b.st = "hello_sent" /\ b.done = "none"
  /\ Len(o) = 1 /\ o[1].type = "hello" /\ o[1].id = b.sid
  /\ Acks(t) /\ Unopened(b, f, up)

HelloGone(b, f, o, t, up) ==
  /\ b.st = "hello_sent" /\ b.done = "none"
  /\ Len(o) = 0 /\ Answers(b, f, t) /\ Unopened(b, f, up)

AuthOut(b, f, o, t, up, live) ==
  /\ Len(o) >= 1 /\ o[1].type = "client_auth" /\ o[1].id = b.sid
  /\ Acks(t) /\ Unopened(b, f, up)
  /\ up => f.sess = "hello" /\ f.sid = b.sid /\ f.secret = o[1].secret
  /\ Streams(o, 2) /\ Climbs(o, 2, 1, Count(b))
  /\ live => b.key = o[1].secret /\ Whole(b, o, 2, 1, Count(b))

AuthGone(b, f, o, t, live) ==
  /\ Streams(o, 1)
  /\ b.st = "hello_sent" => Len(o) = 0
  /\ \A i \in 1 .. Len(t) : t[i].type # "hello_ack"
  /\ Joined(b, f) => Climbs(o, 1, f.in, Count(b)) /\ Streaming(t, f.out)
  /\ live => Joined(b, f) /\ f.key = b.key /\ Whole(b, o, 1, f.in, Count(b))

Dialogue(b, f, o, t, up, live) ==
  /\ b.st \in {"hello_sent", "authenticated"} /\ Steady(f, up)
  /\ \/ HelloOut(b, f, o, t, up)
     \/ HelloGone(b, f, o, t, up)
     \/ AuthOut(b, f, o, t, up, live)
     \/ AuthGone(b, f, o, t, live)

\* Records of a queue, by their places.
LEMMA RecordsAt ==
  ASSUME NEW s \in Seq(Rec)
  PROVE  /\ Len(s) \in Nat /\ DOMAIN s = 1 .. Len(s)
         /\ \A i \in 1 .. Len(s) : s[i] \in Rec /\ s[i].seq \in Int
PROOF
<1>1. Len(s) \in Nat /\ DOMAIN s = 1 .. Len(s) /\ \A i \in 1 .. Len(s) : s[i] \in Rec
  BY LenProperties
<1>2. \A m \in Rec : m.seq \in Int
  <2>1. \A m \in Rec : m.seq \in Nums
    BY DEF Rec
  <2>2. Nums \subseteq Int
    BY Kinds
  <2> HIDE DEF Rec, Nums
  <2> QED BY <2>1, <2>2
<1> HIDE DEF Rec
<1> QED BY <1>1, <1>2

\* What is behind the first.
LEMMA TailAt ==
  ASSUME NEW s \in Seq(Rec), s # << >>
  PROVE  /\ Tail(s) \in Seq(Rec) /\ Len(s) >= 1 /\ Len(Tail(s)) = Len(s) - 1 /\ Head(s) = s[1]
         /\ \A i \in 1 .. Len(Tail(s)) : Tail(s)[i] = s[i + 1]
PROOF BY HeadTailProperties, LenProperties, EmptySeq

\* One more.
LEMMA AppendAt ==
  ASSUME NEW s \in Seq(Rec), NEW e \in Rec
  PROVE  /\ Append(s, e) \in Seq(Rec) /\ Len(Append(s, e)) = Len(s) + 1
         /\ \A i \in 1 .. Len(s) : Append(s, e)[i] = s[i]
         /\ Append(s, e)[Len(s) + 1] = e
PROOF BY AppendProperties, LenProperties

\* No more than the records of o, but the k-th.
Thinned(p, o, k) ==
  \A i \in 1 .. Len(p) :
    /\ i < k => i <= Len(o) /\ p[i] = o[i]
    /\ i >= k => i + 1 <= Len(o) /\ p[i] = o[i + 1]

\* What a stream keeps when a record is lost, or the rest of it.
LEMMA ThinnedStream ==
  ASSUME NEW o \in Seq(Rec), NEW p \in Seq(Rec), NEW k \in Nat, Thinned(p, o, k),
         NEW n \in Nat, 1 <= n, n <= k, NEW low \in Int, NEW high \in Int
  PROVE  /\ Streams(o, n) => Streams(p, n)
         /\ Climbs(o, n, low, high) => Climbs(p, n, low, high)
PROOF
<1>1. Len(p) \in Nat /\ Len(o) \in Nat /\ \A i \in 1 .. Len(o) : o[i].seq \in Int
  BY RecordsAt
<1>2. ASSUME Streams(o, n)  PROVE  Streams(p, n)
  BY <1>1, <1>2 DEF Streams, Thinned
<1>3. ASSUME Climbs(o, n, low, high)  PROVE  Climbs(p, n, low, high)
  <2> SUFFICES ASSUME NEW i \in n .. Len(p)
               PROVE  /\ p[i].seq >= low /\ p[i].seq < high
                      /\ \A j \in n .. i - 1 : p[j].seq < p[i].seq
    BY DEF Climbs
  <2>1. PICK x \in n .. Len(o) : p[i] = o[x] /\ (i < k => x = i) /\ (i >= k => x = i + 1)
    BY <1>1 DEF Thinned
  <2>2. o[x].seq >= low /\ o[x].seq < high
    BY <1>3 DEF Climbs
  <2>3. ASSUME NEW j \in n .. i - 1  PROVE  p[j].seq < p[i].seq
    <3>1. j \in 1 .. Len(p)
      BY <1>1
    <3>2. PICK y \in n .. Len(o) : p[j] = o[y] /\ (j < k => y = j) /\ (j >= k => y = j + 1)
      <4>1. CASE j < k
        <5>1. j <= Len(o) /\ p[j] = o[j]
          BY <3>1, <4>1 DEF Thinned
        <5>2. j \in n .. Len(o) /\ ~ j >= k
          BY <1>1, <4>1, <5>1
        <5> QED BY <4>1, <5>1, <5>2
      <4>2. CASE ~ j < k
        <5>1. j >= k
          BY <4>2
        <5>2. j + 1 <= Len(o) /\ p[j] = o[j + 1]
          BY <3>1, <5>1 DEF Thinned
        <5>3. j + 1 \in n .. Len(o)
          BY <1>1, <5>2
        <5> QED BY <4>2, <5>1, <5>2, <5>3
      <4> QED BY <4>1, <4>2
    <3>3. y \in n .. x - 1
      BY <1>1, <2>1, <3>2
    <3> QED BY <1>3, <2>1, <3>2, <3>3 DEF Climbs
  <2> QED BY <2>1, <2>2, <2>3
<1> QED BY <1>2, <1>3

\* And when the record before it is.
LEMMA ThinnedAfter ==
  ASSUME NEW o \in Seq(Rec), NEW p \in Seq(Rec), Thinned(p, o, 1), NEW low \in Int, NEW high \in Int
  PROVE  /\ Streams(o, 2) => Streams(p, 1)
         /\ Climbs(o, 2, low, high) => Climbs(p, 1, low, high)
         /\ Streams(o, 1) => Streams(p, 1)
         /\ Climbs(o, 1, low, high) => Climbs(p, 1, low, high)
         /\ Climbs(o, 1, low, high) /\ Len(o) >= 1 => Climbs(p, 1, o[1].seq + 1, high)
PROOF
<1>1. Len(p) \in Nat /\ Len(o) \in Nat /\ \A i \in 1 .. Len(o) : o[i].seq \in Int
  BY RecordsAt
<1>2. \A i \in 1 .. Len(p) : i + 1 \in 2 .. Len(o) /\ p[i] = o[i + 1]
  BY <1>1 DEF Thinned
<1>3. ASSUME Streams(o, 2) \/ Streams(o, 1)  PROVE  Streams(p, 1)
  BY <1>1, <1>2, <1>3 DEF Streams
<1>4. ASSUME Climbs(o, 2, low, high) \/ Climbs(o, 1, low, high)  PROVE  Climbs(p, 1, low, high)
  <2> SUFFICES ASSUME NEW i \in 1 .. Len(p)
               PROVE  /\ p[i].seq >= low /\ p[i].seq < high
                      /\ \A j \in 1 .. i - 1 : p[j].seq < p[i].seq
    BY DEF Climbs
  <2>1. i + 1 \in 2 .. Len(o) /\ i + 1 \in 1 .. Len(o) /\ p[i] = o[i + 1]
    BY <1>1, <1>2
  <2>2. o[i + 1].seq >= low /\ o[i + 1].seq < high
        /\ \A y \in 2 .. i : o[y].seq < o[i + 1].seq
    BY <1>4, <2>1 DEF Climbs
  <2>3. \A j \in 1 .. i - 1 : j + 1 \in 2 .. i /\ p[j] = o[j + 1]
    BY <1>1, <1>2
  <2> QED BY <2>1, <2>2, <2>3
<1>5. ASSUME Climbs(o, 1, low, high), Len(o) >= 1  PROVE  Climbs(p, 1, o[1].seq + 1, high)
  <2>1. Climbs(p, 1, low, high)
    BY <1>4, <1>5
  <2>2. \A i \in 1 .. Len(p) : o[1].seq < o[i + 1].seq /\ o[i + 1].seq \in Int /\ o[1].seq \in Int
    <3> SUFFICES ASSUME NEW i \in 1 .. Len(p)
                 PROVE  o[1].seq < o[i + 1].seq /\ o[i + 1].seq \in Int /\ o[1].seq \in Int
      OBVIOUS
    <3>1. i + 1 \in 1 .. Len(o) /\ 1 \in 1 .. (i + 1) - 1 /\ 1 \in 1 .. Len(o)
      BY <1>1, <1>2
    <3> QED BY <1>1, <1>5, <3>1 DEF Climbs
  <2> QED BY <1>1, <1>2, <2>1, <2>2 DEF Climbs
<1> QED BY <1>3, <1>4, <1>5

\* What is left of a stream none of which is missing.
LEMMA WholeTail ==
  ASSUME NEW o \in Seq(Rec), o # << >>, NEW b, NEW low \in Int, NEW high \in Int
  PROVE  /\ Whole(b, o, 2, low, high) => Whole(b, Tail(o), 1, low, high)
         /\ Whole(b, o, 1, low, high) => Whole(b, Tail(o), 1, low + 1, high)
PROOF
<1> DEFINE p == Tail(o)
<1>1. p \in Seq(Rec) /\ Len(o) >= 1 /\ Len(p) = Len(o) - 1 /\ \A i \in 1 .. Len(p) : p[i] = o[i + 1]
  BY TailAt
<1>2. Len(p) \in Nat /\ Len(o) \in Nat
  BY <1>1, RecordsAt
<1> HIDE DEF p
<1>3. ASSUME Whole(b, o, 2, low, high)  PROVE  Whole(b, p, 1, low, high)
  <2>1. Len(p) - 1 + 1 = high - low
    BY <1>1, <1>2, <1>3 DEF Whole
  <2>2. ASSUME NEW i \in 1 .. Len(p)
        PROVE  p[i].seq = low + i - 1 /\ p[i].id = b.sid /\ p[i].secret = b.key
    <3>1. i + 1 \in 2 .. Len(o) /\ p[i] = o[i + 1] /\ low + (i + 1) - 2 = low + i - 1
      BY <1>1, <1>2
    <3> QED BY <1>3, <3>1 DEF Whole
  <2> QED BY <2>1, <2>2 DEF Whole
<1>4. ASSUME Whole(b, o, 1, low, high)  PROVE  Whole(b, p, 1, low + 1, high)
  <2>1. Len(p) - 1 + 1 = high - (low + 1)
    BY <1>1, <1>2, <1>4 DEF Whole
  <2>2. ASSUME NEW i \in 1 .. Len(p)
        PROVE  p[i].seq = (low + 1) + i - 1 /\ p[i].id = b.sid /\ p[i].secret = b.key
    <3>1. i + 1 \in 1 .. Len(o) /\ p[i] = o[i + 1] /\ low + (i + 1) - 1 = (low + 1) + i - 1
      BY <1>1, <1>2
    <3> QED BY <1>4, <3>1 DEF Whole
  <2> QED BY <2>1, <2>2 DEF Whole
<1> QED BY <1>3, <1>4 DEF p

\* A stream with the next record.
LEMMA StreamAppend ==
  ASSUME NEW o \in Seq(Rec), NEW m \in Rec, NEW k \in Nat, k >= 1, k <= Len(o) + 1,
         NEW low \in Int, NEW high \in Int, low <= high, m.seq = high, m.type \in Sent
  PROVE  LET p == Append(o, m)
         IN /\ Streams(o, k) => Streams(p, k)
            /\ Climbs(o, k, low, high) => Climbs(p, k, low, high + 1)
            /\ \A b : Whole(b, o, k, low, high) /\ m.id = b.sid /\ m.secret = b.key
                        => Whole(b, p, k, low, high + 1)
PROOF
<1> DEFINE p == Append(o, m)
           n == Len(o) + 1
<1>1. p \in Seq(Rec) /\ Len(p) = n /\ (\A i \in 1 .. Len(o) : p[i] = o[i]) /\ p[n] = m
  BY AppendAt
<1>2. Len(o) \in Nat /\ n \in Nat /\ \A i \in 1 .. Len(o) : o[i].seq \in Int
  BY RecordsAt
<1> HIDE DEF p
<1>3. ASSUME Streams(o, k)  PROVE  Streams(p, k)
  <2> SUFFICES ASSUME NEW i \in k .. Len(p)  PROVE  p[i].type \in Sent
    BY DEF Streams
  <2>1. CASE i = n
    BY <1>1, <2>1
  <2>2. CASE i # n
    <3>1. i \in k .. Len(o) /\ i \in 1 .. Len(o)
      BY <1>1, <1>2, <2>2
    <3> QED BY <1>1, <1>3, <3>1 DEF Streams
  <2> QED BY <2>1, <2>2
<1>4. ASSUME Climbs(o, k, low, high)  PROVE  Climbs(p, k, low, high + 1)
  <2> SUFFICES ASSUME NEW i \in k .. Len(p)
               PROVE  /\ p[i].seq >= low /\ p[i].seq < high + 1
                      /\ \A j \in k .. i - 1 : p[j].seq < p[i].seq
    BY DEF Climbs
  <2>1. CASE i = n
    <3>1. p[i].seq = high
      BY <1>1, <2>1
    <3>2. \A j \in k .. i - 1 : j \in 1 .. Len(o) /\ p[j] = o[j] /\ o[j].seq < high
      BY <1>1, <1>2, <1>4, <2>1 DEF Climbs
    <3> QED BY <3>1, <3>2
  <2>2. CASE i # n
    <3>1. i \in k .. Len(o) /\ i \in 1 .. Len(o)
      BY <1>1, <1>2, <2>2
    <3>2. p[i] = o[i] /\ o[i].seq \in Int /\ \A j \in k .. i - 1 : p[j] = o[j]
      BY <1>1, <1>2, <3>1
    <3>3. o[i].seq >= low /\ o[i].seq < high /\ \A j \in k .. i - 1 : o[j].seq < o[i].seq
      BY <1>4, <3>1 DEF Climbs
    <3> QED BY <3>2, <3>3
  <2> QED BY <2>1, <2>2
<1>5. ASSUME NEW b, Whole(b, o, k, low, high), m.id = b.sid, m.secret = b.key
      PROVE  Whole(b, p, k, low, high + 1)
  <2>1. Len(p) - k + 1 = (high + 1) - low
    BY <1>1, <1>2, <1>5 DEF Whole
  <2>2. ASSUME NEW i \in k .. Len(p)
        PROVE  p[i].seq = low + i - k /\ p[i].id = b.sid /\ p[i].secret = b.key
    <3>1. CASE i = n
      <4>1. low + i - k = high
        BY <1>2, <1>5, <3>1 DEF Whole
      <4> QED BY <1>1, <1>5, <3>1, <4>1
    <3>2. CASE i # n
      <4>1. i \in k .. Len(o) /\ i \in 1 .. Len(o)
        BY <1>1, <1>2, <3>2
      <4> QED BY <1>1, <1>5, <4>1 DEF Whole
    <3> QED BY <3>1, <3>2
  <2> QED BY <2>1, <2>2 DEF Whole
<1> QED BY <1>3, <1>4, <1>5 DEF p

\* A bound further up.
LEMMA ClimbsFurther ==
  ASSUME NEW o \in Seq(Rec), NEW k \in Nat, k >= 1, NEW low \in Int, NEW high \in Int, NEW top \in Int,
         high <= top, Climbs(o, k, low, high)
  PROVE  Climbs(o, k, low, top)
PROOF
<1>1. Len(o) \in Nat /\ \A i \in 1 .. Len(o) : o[i].seq \in Int
  BY RecordsAt
<1> QED BY <1>1 DEF Climbs

\* Messages are taken from the front, or lost with the link.
Shrinks(t, u) == u = t \/ (t # << >> /\ u = Tail(t)) \/ u = << >>

\* What the messages on their way to the board are stays so.
LEMMA ShrinksKeeps ==
  ASSUME NEW t \in Seq(Rec), NEW u, Shrinks(t, u), NEW b, NEW f
  PROVE  /\ u \in Seq(Rec)
         /\ Acks(t) => Acks(u)
         /\ Acks(t) => \A i \in 1 .. Len(u) : u[i].type # "hello_ack"
         /\ Answers(b, f, t) => Answers(b, f, u)
         /\ (\A i \in 1 .. Len(t) : t[i].type # "hello_ack")
              => \A i \in 1 .. Len(u) : u[i].type # "hello_ack"
         /\ \A out \in Int : Streaming(t, out) => Streaming(u, out)
PROOF
<1>0. Ack.type = "ack"
  BY DEF Ack, Msg
<1>1. CASE u = t
  BY <1>0, <1>1 DEF Acks
<1>2. CASE u = << >>
  <2>1. u \in Seq(Rec) /\ Len(u) = 0 /\ DOMAIN u = {}
    BY <1>2, EmptySeq, LenProperties
  <2> QED BY <2>1 DEF Acks, Answers, Streaming, Rising, Numbered
<1>3. CASE t # << >> /\ u = Tail(t)
  <2>1. /\ u \in Seq(Rec) /\ Len(t) >= 1 /\ Len(u) = Len(t) - 1
        /\ \A i \in 1 .. Len(u) : u[i] = t[i + 1]
    BY <1>3, TailAt
  <2>2. /\ Len(t) \in Nat /\ Len(u) \in Nat
        /\ DOMAIN t = 1 .. Len(t) /\ DOMAIN u = 1 .. Len(u)
        /\ \A i \in 1 .. Len(t) : t[i].seq \in Int
    BY <2>1, RecordsAt
  <2>3. \A i \in 1 .. Len(u) : i + 1 \in 1 .. Len(t) /\ (i + 1 = Len(t) => i = Len(u))
    BY <2>1, <2>2
  <2>4. Acks(t) => Acks(u)
    BY <2>1, <2>3 DEF Acks
  <2>5. Answers(b, f, t) => Answers(b, f, u)
    BY <2>1, <2>3 DEF Answers
  <2>6. ASSUME \A i \in 1 .. Len(t) : t[i].type # "hello_ack", NEW i \in 1 .. Len(u)
        PROVE  u[i].type # "hello_ack"
    BY <2>1, <2>3, <2>6
  <2>7. ASSUME NEW out \in Int, Streaming(t, out)  PROVE  Streaming(u, out)
    <3>1. Rising(u, 1, out)
      <4> SUFFICES ASSUME NEW i \in Numbered(u)
                   PROVE  /\ u[i].seq \in 1 .. out - 1
                          /\ \A j \in Numbered(u) : j < i => u[j].seq < u[i].seq
        BY DEF Rising
      <4>1. \A j \in Numbered(u) : j \in Int /\ j + 1 \in Numbered(t) /\ u[j] = t[j + 1]
        BY <2>1, <2>2, <2>3 DEF Numbered
      <4>2. /\ t[i + 1].seq \in 1 .. out - 1
            /\ \A j \in Numbered(t) : j < i + 1 => t[j].seq < t[i + 1].seq
        BY <2>7, <4>1 DEF Streaming, Rising
      <4>3. \A j \in Numbered(u) : j < i => j + 1 < i + 1
        BY <4>1
      <4> QED BY <4>1, <4>2, <4>3
    <3> QED BY <2>6, <2>7, <3>1 DEF Streaming
  <2>8. Acks(u) => \A i \in 1 .. Len(u) : u[i].type # "hello_ack"
    BY <1>0 DEF Acks
  <2> QED BY <2>1, <2>4, <2>5, <2>6, <2>7, <2>8
<1> QED BY <1>1, <1>2, <1>3 DEF Shrinks

\* The numbers of the two ends are numbers.
LEMMA CountIs ==
  ASSUME NEW b \in BoardState
  PROVE  Count(b) \in Int
PROOF
<1>1. b.seq \in Counts
  BY DEF BoardState
<1>2. Counts \subseteq Int
  BY Kinds
<1>3. b.seq \in Int
  BY <1>1, <1>2
<1>4. CASE b.st = "authenticated"
  BY <1>3, <1>4 DEF Count
<1>5. CASE b.st # "authenticated"
  BY <1>5 DEF Count
<1> QED BY <1>4, <1>5

LEMMA FlipCounts ==
  ASSUME NEW f \in FlipState
  PROVE  f.in \in Int /\ f.out \in Int
PROOF
<1>1. f.in \in Counts /\ f.out \in Counts
  BY DEF FlipState
<1>2. Counts \subseteq Int
  BY Kinds
<1> QED BY <1>1, <1>2

\* A change of the board that leaves its session alone.
SameSession(b, c) == c.sid = b.sid /\ c.key = b.key

\* The dialogue goes on: the board completes the authentication, sends a record or none.
LEMMA DialogueCarries ==
  ASSUME NEW b \in BoardState, NEW c \in BoardState, NEW f \in FlipState,
         NEW o \in Seq(Rec), NEW p, NEW t \in Seq(Rec), NEW u, Shrinks(t, u),
         NEW up \in BOOLEAN, NEW live \in BOOLEAN, NEW stays \in BOOLEAN, stays => live,
         Dialogue(b, f, o, t, up, live),
         SameSession(b, c), c.st = b.st \/ (b.st = "hello_sent" /\ c.st = "authenticated"),
         \/ p = o /\ (Count(c) = Count(b) \/ (Count(c) > Count(b) /\ ~ stays))
         \/ /\ live /\ c.st = "authenticated" /\ Count(c) = Count(b) + 1
            /\ \E m \in Rec : /\ m.type \in Sent /\ m.id = b.sid /\ m.secret = b.key
                              /\ m.seq = Count(b) /\ p = Append(o, m),
         b.st # "authenticated" /\ b.done = "none" => c.st = b.st /\ c.done = "none" /\ p = o
  PROVE  Dialogue(c, f, p, u, up, stays)
PROOF
<1>1. Count(b) \in Int /\ Count(c) \in Int /\ Count(c) >= Count(b) /\ f.in \in Int /\ f.out \in Int
  <2>1. Count(b) \in Int /\ Count(c) \in Int /\ f.in \in Int /\ f.out \in Int
    BY CountIs, FlipCounts
  <2> HIDE DEF Count
  <2> QED BY <2>1
<1>2. /\ Acks(t) => Acks(u)
      /\ Acks(t) => \A i \in 1 .. Len(u) : u[i].type # "hello_ack"
      /\ Answers(b, f, t) => Answers(b, f, u)
      /\ (\A i \in 1 .. Len(t) : t[i].type # "hello_ack")
           => \A i \in 1 .. Len(u) : u[i].type # "hello_ack"
      /\ Streaming(t, f.out) => Streaming(u, f.out)
  BY <1>1, ShrinksKeeps
<1>3. Len(o) \in Nat
  BY RecordsAt
<1>4. /\ Joined(c, f) <=> Joined(b, f)
      /\ Unopened(b, f, up) => Unopened(c, f, up)
      /\ Answers(b, f, u) => Answers(c, f, u)
      /\ \A k, low, high : Whole(b, o, k, low, high) => Whole(c, o, k, low, high)
  BY DEF SameSession, Joined, Unopened, Answers, Whole
<1>5. c.st \in {"hello_sent", "authenticated"} /\ Steady(f, up)
  BY DEF Dialogue
<1> HIDE DEF BoardState, FlipState, Rec, Count, Acks, Answers, Streaming, Whole, Climbs, Streams, Steady
<1>6. CASE HelloOut(b, f, o, t, up)
  <2>1. c.st = b.st /\ c.done = "none" /\ p = o
    BY <1>6 DEF HelloOut
  <2>2. HelloOut(c, f, p, u, up)
    BY <1>2, <1>4, <1>6, <2>1 DEF HelloOut, SameSession
  <2> QED BY <1>5, <2>2 DEF Dialogue
<1>7. CASE HelloGone(b, f, o, t, up)
  <2>1. c.st = b.st /\ c.done = "none" /\ p = o
    BY <1>7 DEF HelloGone
  <2>2. HelloGone(c, f, p, u, up)
    BY <1>2, <1>4, <1>7, <2>1 DEF HelloGone
  <2> QED BY <1>5, <2>2 DEF Dialogue
<1>8. CASE AuthOut(b, f, o, t, up, live)
  <2>1. CASE p = o /\ (Count(c) = Count(b) \/ (Count(c) > Count(b) /\ ~ stays))
    <3>1. Climbs(p, 2, 1, Count(c))
      <4>1. Climbs(o, 2, 1, Count(b))
        BY <1>8 DEF AuthOut
      <4> QED BY <1>1, <2>1, <4>1, ClimbsFurther
    <3>2. stays => c.key = p[1].secret /\ Whole(c, p, 2, 1, Count(c))
      <4> SUFFICES ASSUME stays PROVE c.key = p[1].secret /\ Whole(c, p, 2, 1, Count(c))
        OBVIOUS
      <4>1. live /\ Count(c) = Count(b)
        BY <1>1, <2>1
      <4>2. b.key = o[1].secret /\ Whole(b, o, 2, 1, Count(b))
        BY <1>8, <4>1 DEF AuthOut
      <4>3. Whole(c, o, 2, 1, Count(c))
        BY <1>4, <4>1, <4>2
      <4> QED BY <2>1, <4>2, <4>3 DEF SameSession
    <3>3. AuthOut(c, f, p, u, up, stays)
      BY <1>2, <1>4, <1>8, <2>1, <3>1, <3>2 DEF AuthOut, SameSession
    <3> QED BY <1>5, <3>3 DEF Dialogue
  <2>2. CASE /\ live /\ c.st = "authenticated" /\ Count(c) = Count(b) + 1
             /\ \E m \in Rec : /\ m.type \in Sent /\ m.id = b.sid /\ m.secret = b.key
                               /\ m.seq = Count(b) /\ p = Append(o, m)
    <3>1. PICK m \in Rec : /\ m.type \in Sent /\ m.id = b.sid /\ m.secret = b.key
                           /\ m.seq = Count(b) /\ p = Append(o, m)
      BY <2>2
    <3>2. Len(o) >= 1 /\ Streams(o, 2) /\ Climbs(o, 2, 1, Count(b)) /\ b.key = o[1].secret
          /\ Whole(b, o, 2, 1, Count(b))
      BY <1>8, <2>2 DEF AuthOut
    <3>3. 1 <= Count(b)
      <4>1. Len(o) - 2 + 1 = Count(b) - 1
        BY <3>2 DEF Whole
      <4> QED BY <1>1, <1>3, <3>2, <4>1
    <3>4. Streams(p, 2) /\ Climbs(p, 2, 1, Count(b) + 1) /\ Whole(b, p, 2, 1, Count(b) + 1)
      BY <1>1, <1>3, <3>1, <3>2, <3>3, StreamAppend
    <3>5. Len(p) >= 1 /\ p[1] = o[1]
      BY <1>3, <3>1, <3>2, AppendAt
    <3>6. Climbs(p, 2, 1, Count(c)) /\ Whole(c, p, 2, 1, Count(c))
      <4>1. Whole(b, p, 2, 1, Count(c))
        BY <2>2, <3>4
      <4> QED BY <2>2, <3>4, <4>1 DEF SameSession, Whole
    <3>7. AuthOut(c, f, p, u, up, stays)
      BY <1>2, <1>4, <1>8, <3>2, <3>4, <3>5, <3>6 DEF AuthOut, SameSession
    <3> QED BY <1>5, <3>7 DEF Dialogue
  <2> QED BY <2>1, <2>2
<1>9. CASE AuthGone(b, f, o, t, live)
  <2>1. CASE p = o /\ (Count(c) = Count(b) \/ (Count(c) > Count(b) /\ ~ stays))
    <3>1. Joined(c, f) => Climbs(p, 1, f.in, Count(c))
      <4>1. Joined(c, f) => Climbs(o, 1, f.in, Count(b))
        BY <1>4, <1>9 DEF AuthGone
      <4> QED BY <1>1, <2>1, <4>1, ClimbsFurther
    <3>2. stays => Joined(c, f) /\ f.key = c.key /\ Whole(c, p, 1, f.in, Count(c))
      <4> SUFFICES ASSUME stays PROVE Joined(c, f) /\ f.key = c.key /\ Whole(c, p, 1, f.in, Count(c))
        OBVIOUS
      <4>1. live /\ Count(c) = Count(b)
        BY <1>1, <2>1
      <4>2. Joined(b, f) /\ f.key = b.key /\ Whole(b, o, 1, f.in, Count(b))
        BY <1>9, <4>1 DEF AuthGone
      <4>3. Whole(c, o, 1, f.in, Count(c))
        BY <1>4, <4>1, <4>2
      <4> QED BY <1>4, <2>1, <4>2, <4>3 DEF SameSession
    <3>3. c.st = "hello_sent" => Len(p) = 0
      BY <1>9, <2>1 DEF AuthGone
    <3>4. AuthGone(c, f, p, u, stays)
      BY <1>2, <1>4, <1>9, <2>1, <3>1, <3>2, <3>3 DEF AuthGone
    <3> QED BY <1>5, <3>4 DEF Dialogue
  <2>2. CASE /\ live /\ c.st = "authenticated" /\ Count(c) = Count(b) + 1
             /\ \E m \in Rec : /\ m.type \in Sent /\ m.id = b.sid /\ m.secret = b.key
                               /\ m.seq = Count(b) /\ p = Append(o, m)
    <3>1. PICK m \in Rec : /\ m.type \in Sent /\ m.id = b.sid /\ m.secret = b.key
                           /\ m.seq = Count(b) /\ p = Append(o, m)
      BY <2>2
    <3>2. Streams(o, 1) /\ Joined(b, f) /\ f.key = b.key /\ Whole(b, o, 1, f.in, Count(b))
      BY <1>9, <2>2 DEF AuthGone
    <3>3. f.in <= Count(b)
      <4>1. Len(o) - 1 + 1 = Count(b) - f.in
        BY <3>2 DEF Whole
      <4> QED BY <1>1, <1>3, <4>1
    <3>a. Climbs(o, 1, f.in, Count(b)) /\ Streaming(t, f.out)
      BY <1>9, <3>2 DEF AuthGone
    <3>4. Streams(p, 1) /\ Climbs(p, 1, f.in, Count(b) + 1) /\ Whole(b, p, 1, f.in, Count(b) + 1)
      BY <1>1, <1>3, <3>1, <3>2, <3>3, <3>a, StreamAppend
    <3>6. Climbs(p, 1, f.in, Count(c)) /\ Whole(c, p, 1, f.in, Count(c))
      <4>1. Whole(b, p, 1, f.in, Count(c))
        BY <2>2, <3>4
      <4> QED BY <2>2, <3>4, <4>1 DEF SameSession, Whole
    <3>7. f.key = c.key /\ Joined(c, f)
      BY <1>4, <3>2 DEF SameSession
    <3>8. AuthGone(c, f, p, u, stays)
      BY <1>2, <1>9, <2>2, <3>a, <3>4, <3>6, <3>7 DEF AuthGone
    <3> QED BY <1>5, <3>8 DEF Dialogue
  <2> QED BY <2>1, <2>2
<1> QED BY <1>6, <1>7, <1>8, <1>9 DEF Dialogue

\* Nothing is left of a queue that had nothing, or no more than that.
LEMMA ThinnedIsShorter ==
  ASSUME NEW o \in Seq(Rec), NEW p \in Seq(Rec), NEW k \in Nat, Thinned(p, o, k)
  PROVE  Len(p) <= Len(o) /\ (k = 1 /\ Len(o) >= 1 => Len(p) <= Len(o) - 1)
PROOF
<1>1. Len(p) \in Nat /\ Len(o) \in Nat
  BY RecordsAt
<1>2. CASE Len(p) = 0
  BY <1>1, <1>2
<1>3. CASE Len(p) # 0
  <2>1. Len(p) \in 1 .. Len(p)
    BY <1>1, <1>3
  <2> QED BY <1>1, <2>1 DEF Thinned
<1> QED BY <1>2, <1>3

\* The dialogue behind a request for the end of the connection, with a record lost or more.
LEMMA DialogueEnds ==
  ASSUME NEW b \in BoardState, NEW c \in BoardState, NEW f \in FlipState,
         NEW o \in Seq(Rec), NEW p \in Seq(Rec), NEW t \in Seq(Rec), NEW u, Shrinks(t, u),
         NEW k \in Nat, k >= 1, Thinned(p, o, k),
         NEW up \in BOOLEAN, NEW live \in BOOLEAN, NEW stays \in BOOLEAN, stays => up,
         NEW goes \in BOOLEAN, ~ goes,
         Dialogue(b, f, o, t, up, live),
         c.sid = b.sid, c.st = b.st, c.seq = b.seq, c.done = b.done
  PROVE  Dialogue(c, f, p, u, stays, goes)
PROOF
<1>0. Len(o) \in Nat /\ Len(p) \in Nat /\ Len(p) <= Len(o) /\ (k = 1 /\ Len(o) >= 1 => Len(p) <= Len(o) - 1)
  BY RecordsAt, ThinnedIsShorter
<1>1. Count(b) \in Int /\ Count(c) = Count(b) /\ f.in \in Int /\ f.out \in Int
  <2>1. Count(b) \in Int /\ f.in \in Int /\ f.out \in Int
    BY CountIs, FlipCounts
  <2>2. Count(c) = Count(b)
    BY DEF Count
  <2> QED BY <2>1, <2>2
<1>2. /\ Acks(t) => Acks(u)
      /\ Acks(t) => \A i \in 1 .. Len(u) : u[i].type # "hello_ack"
      /\ Answers(b, f, t) => Answers(b, f, u)
      /\ (\A i \in 1 .. Len(t) : t[i].type # "hello_ack")
           => \A i \in 1 .. Len(u) : u[i].type # "hello_ack"
      /\ Streaming(t, f.out) => Streaming(u, f.out)
  BY <1>1, ShrinksKeeps
<1>3. Acks(u) => Answers(c, f, u)
  BY DEF Acks, Answers, Ack, Msg
<1>4. /\ Joined(c, f) <=> Joined(b, f)
      /\ Unopened(b, f, up) => Unopened(c, f, stays)
      /\ Answers(b, f, u) => Answers(c, f, u)
  BY DEF Joined, Unopened, Answers
<1>5. c.st \in {"hello_sent", "authenticated"} /\ Steady(f, stays)
  BY DEF Dialogue, Steady
<1>a. k > 1 /\ Len(p) >= 1 => p[1] = o[1]
  BY <1>0 DEF Thinned
<1> HIDE DEF BoardState, FlipState, Rec, Count, Acks, Answers, Streaming, Climbs, Streams, Steady
<1>6. CASE HelloOut(b, f, o, t, up)
  <2>1. CASE Len(p) = 0
    <3>1. HelloGone(c, f, p, u, stays)
      BY <1>2, <1>3, <1>4, <1>6, <2>1 DEF HelloOut, HelloGone
    <3> QED BY <1>5, <3>1 DEF Dialogue
  <2>2. CASE Len(p) # 0
    <3>1. Len(p) = 1 /\ p[1] = o[1]
      BY <1>0, <1>6, <1>a, <2>2 DEF HelloOut
    <3>2. HelloOut(c, f, p, u, stays)
      BY <1>2, <1>4, <1>6, <3>1 DEF HelloOut
    <3> QED BY <1>5, <3>2 DEF Dialogue
  <2> QED BY <2>1, <2>2
<1>7. CASE HelloGone(b, f, o, t, up)
  <2>1. Len(p) = 0
    BY <1>0, <1>7 DEF HelloGone
  <2>2. HelloGone(c, f, p, u, stays)
    BY <1>2, <1>4, <1>7, <2>1 DEF HelloGone
  <2> QED BY <1>5, <2>2 DEF Dialogue
<1>8. CASE AuthOut(b, f, o, t, up, live)
  <2>0. Len(o) >= 1 /\ Streams(o, 2) /\ Climbs(o, 2, 1, Count(b)) /\ Acks(t) /\ Unopened(b, f, up)
    BY <1>8 DEF AuthOut
  <2>a. c.st = "hello_sent" => Len(o) = 1
    <3> SUFFICES ASSUME c.st = "hello_sent" PROVE Len(o) = 1
      OBVIOUS
    <3>n. PICK n \in Nat : n = Len(o)
      BY <1>0
    <3>m. n >= 1
      BY <2>0, <3>n
    <3>5. SUFFICES ASSUME n # 1 PROVE FALSE
      BY <3>n
    <3>1. Count(b) = 1
      <4>1. b.st # "authenticated"
        OBVIOUS
      <4> QED BY <4>1 DEF Count
    <3>2. 2 \in 2 .. Len(o) /\ 2 \in 1 .. Len(o)
      <4>1. n >= 2
        BY ONLY <3>n, <3>m, <3>5
      <4> QED BY <3>n, <4>1
    <3>3. o[2].seq \in Int
      BY <3>2, RecordsAt
    <3>4. o[2].seq >= 1 /\ o[2].seq < 1
      BY <2>0, <3>1, <3>2 DEF Climbs
    <3> QED BY <3>3, <3>4
  <2>1. CASE k > 1 /\ Len(p) # 0
    <3>1. Len(p) >= 1 /\ p[1] = o[1]
      BY <1>0, <1>a, <2>1
    <3>2. 2 <= k /\ 2 \in Nat /\ 1 \in Int
      BY <2>1
    <3>3. Streams(p, 2) /\ Climbs(p, 2, 1, Count(b))
      BY <1>1, <2>0, <3>2, ThinnedStream
    <3>4. AuthOut(c, f, p, u, stays, goes)
      BY <1>1, <1>2, <1>4, <1>8, <3>1, <3>3 DEF AuthOut
    <3> QED BY <1>5, <3>4 DEF Dialogue
  <2>2. CASE k = 1 \/ Len(p) = 0
    <3>1. Streams(p, 1)
      <4>1. CASE k = 1
        BY <2>0, <4>1, <1>1, ThinnedAfter
      <4>2. CASE Len(p) = 0
        BY <4>2 DEF Streams
      <4> QED BY <2>2, <4>1, <4>2
    <3>2. c.st = "hello_sent" => Len(p) = 0
      BY <1>0, <2>0, <2>2, <2>a
    <3>3. ~ Joined(c, f)
      BY <1>4, <2>0 DEF Unopened
    <3>4. \A i \in 1 .. Len(u) : u[i].type # "hello_ack"
      BY <1>2, <2>0
    <3>5. AuthGone(c, f, p, u, goes)
      <4>1. Joined(c, f) => Climbs(p, 1, f.in, Count(c)) /\ Streaming(u, f.out)
        BY <3>3
      <4> QED BY <3>1, <3>2, <3>4, <4>1 DEF AuthGone
    <3> QED BY <1>5, <3>5 DEF Dialogue
  <2> QED BY <2>1, <2>2
<1>9. CASE AuthGone(b, f, o, t, live)
  <2>1. 1 <= k /\ 1 \in Nat
    OBVIOUS
  <2>2. Streams(p, 1) /\ (Climbs(o, 1, f.in, Count(b)) => Climbs(p, 1, f.in, Count(b)))
    BY <1>1, <1>9, <2>1, ThinnedStream DEF AuthGone
  <2>3. c.st = "hello_sent" => Len(p) = 0
    BY <1>0, <1>9 DEF AuthGone
  <2>4. AuthGone(c, f, p, u, goes)
    BY <1>1, <1>2, <1>4, <1>9, <2>2, <2>3 DEF AuthGone
  <2> QED BY <1>5, <2>4 DEF Dialogue
<1> QED BY <1>6, <1>7, <1>8, <1>9 DEF Dialogue

\* An answer to hello is proven: record t[1] is handled, m goes out on a live link.
Proven(b, c, o, p, t, u, m, live) ==
  /\ t # << >> /\ u = Tail(t) /\ Head(t).type = "hello_ack" /\ Head(t).secret = b.nvs
  /\ b.st = "hello_sent" /\ c.st = "hello_sent" /\ c.sid = b.sid /\ c.key = b.nvs
  /\ m.type = "client_auth" /\ m.id = b.sid /\ m.secret = b.nvs
  /\ p = IF live THEN Append(o, m) ELSE o

LEMMA DialogueOpens ==
  ASSUME NEW b \in BoardState, NEW c \in BoardState, NEW f \in FlipState,
         NEW o \in Seq(Rec), NEW p \in Seq(Rec), NEW t \in Seq(Rec), NEW u, NEW m \in Rec,
         NEW up \in BOOLEAN, NEW live \in BOOLEAN, live => up,
         Dialogue(b, f, o, t, up, live),
         Proven(b, c, o, p, t, u, m, live)
  PROVE  Dialogue(c, f, p, u, up, live)
PROOF
<1>0. /\ t # << >> /\ u = Tail(t) /\ Head(t).type = "hello_ack" /\ Head(t).secret = b.nvs
      /\ b.st = "hello_sent" /\ c.st = "hello_sent" /\ c.sid = b.sid /\ c.key = b.nvs
      /\ m.type = "client_auth" /\ m.id = b.sid /\ m.secret = b.nvs
      /\ p = IF live THEN Append(o, m) ELSE o
  BY DEF Proven
<1>1. /\ u \in Seq(Rec) /\ Len(t) >= 1 /\ Len(u) = Len(t) - 1 /\ Head(t) = t[1]
  BY <1>0, TailAt
<1>2. Len(t) \in Nat /\ Len(o) \in Nat /\ 1 \in 1 .. Len(t)
  BY <1>1, RecordsAt
<1>3. t[1] # Ack /\ t[1].type = "hello_ack"
  BY <1>0, <1>1 DEF Ack, Msg
<1>4. ~ Acks(t) /\ ~ \A i \in 1 .. Len(t) : t[i].type # "hello_ack"
  BY <1>2, <1>3 DEF Acks
<1>5. HelloGone(b, f, o, t, up)
  <2>1. ~ HelloOut(b, f, o, t, up)
    BY <1>4 DEF HelloOut
  <2>2. ~ AuthOut(b, f, o, t, up, live)
    BY <1>4 DEF AuthOut
  <2>3. ~ AuthGone(b, f, o, t, live)
    BY <1>4 DEF AuthGone
  <2> QED BY <2>1, <2>2, <2>3 DEF Dialogue
<1>6. Len(t) = 1 /\ f.sess = "hello" /\ f.sid = b.sid /\ f.secret = b.nvs
  <2>1. Answers(b, f, t)
    BY <1>5 DEF HelloGone
  <2>2. /\ t[1] = Ack \/ (1 = Len(t) /\ t[1].type \in {"hello_ack", "unknown_board"})
        /\ t[1].type = "hello_ack" => f.sess = "hello" /\ f.sid = b.sid /\ f.secret = t[1].secret
    BY <1>2, <2>1 DEF Answers
  <2> QED BY <1>0, <1>1, <1>3, <2>2
<1>7. Len(u) = 0 /\ Len(o) = 0 /\ Unopened(c, f, up) /\ Steady(f, up) /\ ~ Joined(c, f)
  <2>1. Len(u) = 0
    BY <1>1, <1>6
  <2>2. Len(o) = 0 /\ Unopened(b, f, up)
    BY <1>5 DEF HelloGone
  <2>3. Steady(f, up)
    BY DEF Dialogue
  <2>4. Joined(c, f) <=> Joined(b, f)
    BY <1>0 DEF Joined
  <2>5. Unopened(c, f, up) /\ ~ Joined(c, f)
    BY <2>2, <2>4 DEF Unopened
  <2> QED BY <2>1, <2>2, <2>3, <2>5
<1>8. Count(c) = 1
  BY <1>0 DEF Count
<1>9. CASE live
  <2>1. Len(p) = 1 /\ p[1] = m
    BY <1>0, <1>7, <1>9, AppendAt
  <2>2. Streams(p, 2) /\ Climbs(p, 2, 1, Count(c)) /\ Whole(c, p, 2, 1, Count(c))
    BY <1>0, <1>8, <2>1 DEF Streams, Climbs, Whole
  <2>3. Acks(u)
    BY <1>7 DEF Acks
  <2> HIDE DEF Count, Streams, Climbs, Whole, Acks, Unopened, Joined, BoardState, FlipState, Rec
  <2>4. AuthOut(c, f, p, u, up, live)
    BY <1>0, <1>6, <1>7, <2>1, <2>2, <2>3 DEF AuthOut
  <2> QED BY <1>0, <1>7, <2>4 DEF Dialogue
<1>10. CASE ~ live
  <2>1. AuthGone(c, f, p, u, live)
    BY <1>0, <1>7, <1>10 DEF AuthGone, Streams
  <2> QED BY <1>0, <1>7, <2>1 DEF Dialogue
<1> QED BY <1>9, <1>10

\* A write is confirmed.
LEMMA DialogueDelivers ==
  ASSUME NEW b \in BoardState, NEW f \in FlipState,
         NEW o \in Seq(Rec), Len(o) >= 1, NEW t \in Seq(Rec),
         NEW up \in BOOLEAN, NEW live \in BOOLEAN,
         Dialogue(b, f, o, t, up, live)
  PROVE  Dialogue(b, f, o, Append(t, Ack), up, live)
PROOF
<1> DEFINE u == Append(t, Ack)
<1>1. Ack \in Rec /\ Ack.type = "ack"
  BY Kinds DEF Ack, Msg, Rec, Types
<1>2. u \in Seq(Rec) /\ Len(u) = Len(t) + 1 /\ (\A i \in 1 .. Len(t) : u[i] = t[i]) /\ u[Len(t) + 1] = Ack
  BY <1>1, AppendAt
<1>3. /\ Len(t) \in Nat /\ Len(u) \in Nat /\ DOMAIN t = 1 .. Len(t) /\ DOMAIN u = 1 .. Len(u)
      /\ \A i \in 1 .. Len(u) : i \in 1 .. Len(t) \/ i = Len(t) + 1
  BY <1>2, RecordsAt
<1> HIDE DEF u
<1>4. Acks(t) => Acks(u)
  BY <1>2, <1>3 DEF Acks
<1>5. (\A i \in 1 .. Len(t) : t[i].type # "hello_ack") => \A i \in 1 .. Len(u) : u[i].type # "hello_ack"
  BY <1>1, <1>2, <1>3
<1>6. ASSUME Streaming(t, f.out)  PROVE  Streaming(u, f.out)
  <2>1. \A i \in Numbered(u) : i \in Numbered(t) /\ u[i] = t[i]
    BY <1>1, <1>2, <1>3 DEF Numbered
  <2>2. Rising(u, 1, f.out)
    BY <1>6, <2>1 DEF Streaming, Rising
  <2> QED BY <1>5, <1>6, <2>2 DEF Streaming
<1> HIDE DEF BoardState, FlipState, Rec, Count, Acks, Streaming, Climbs, Streams, Steady
<1>7. CASE HelloOut(b, f, o, t, up)
  <2>1. HelloOut(b, f, o, u, up)
    BY <1>4, <1>7 DEF HelloOut
  <2> QED BY <2>1 DEF Dialogue, u
<1>8. CASE HelloGone(b, f, o, t, up)
  BY <1>8 DEF HelloGone
<1>9. CASE AuthOut(b, f, o, t, up, live)
  <2>1. AuthOut(b, f, o, u, up, live)
    BY <1>4, <1>9 DEF AuthOut
  <2> QED BY <2>1 DEF Dialogue, u
<1>10. CASE AuthGone(b, f, o, t, live)
  <2>1. AuthGone(b, f, o, u, live)
    BY <1>5, <1>6, <1>10 DEF AuthGone
  <2> QED BY <2>1 DEF Dialogue, u
<1> QED BY <1>7, <1>8, <1>9, <1>10 DEF Dialogue

\* One more numbered record of the Flipper, or one that is lost.
LEMMA StreamingGrows ==
  ASSUME NEW t \in Seq(Rec), NEW out \in Int, Streaming(t, out)
  PROVE  /\ Streaming(t, out + 1)
         /\ \A m \in Rec : m.seq = out /\ m.type # "hello_ack" => Streaming(Append(t, m), out + 1)
PROOF
<1>1. /\ Len(t) \in Nat /\ DOMAIN t = 1 .. Len(t)
      /\ \A i \in 1 .. Len(t) : t[i].seq \in Int /\ t[i].type # "hello_ack"
      /\ out >= 1 /\ Rising(t, 1, out)
  BY RecordsAt DEF Streaming
<1>2. \A i \in Numbered(t) : i \in 1 .. Len(t) /\ t[i].seq \in 1 .. out - 1 /\ t[i].seq < out
  BY <1>1 DEF Rising, Numbered
<1>3. Rising(t, 1, out + 1)
  BY <1>1, <1>2 DEF Rising
<1>4. ASSUME NEW m \in Rec, m.seq = out, m.type # "hello_ack"
      PROVE  Streaming(Append(t, m), out + 1)
  <2> DEFINE u == Append(t, m)
  <2>1. u \in Seq(Rec) /\ Len(u) = Len(t) + 1 /\ (\A i \in 1 .. Len(t) : u[i] = t[i]) /\ u[Len(t) + 1] = m
    BY AppendAt
  <2>2. DOMAIN u = 1 .. Len(u)
    BY <2>1, RecordsAt
  <2> HIDE DEF u
  <2>3. \A i \in 1 .. Len(u) : i \in 1 .. Len(t) \/ i = Len(t) + 1
    BY <1>1, <2>1
  <2>4. \A i \in Numbered(u) : i \in 1 .. Len(u)
                                /\ (i = Len(t) + 1 \/ (i \in 1 .. Len(t) /\ i \in Numbered(t) /\ u[i] = t[i]))
    BY <1>1, <2>1, <2>2, <2>3 DEF Numbered
  <2>5. Rising(u, 1, out + 1)
    <3> SUFFICES ASSUME NEW i \in Numbered(u)
                 PROVE  /\ u[i].seq \in 1 .. (out + 1) - 1
                        /\ \A j \in Numbered(u) : j < i => u[j].seq < u[i].seq
      BY DEF Rising
    <3>1. CASE i = Len(t) + 1
      <4>1. u[i].seq = out
        BY <1>4, <2>1, <3>1
      <4>2. \A j \in Numbered(u) : j < i => j \in Numbered(t) /\ u[j] = t[j]
        BY <1>1, <2>4, <3>1
      <4> QED BY <1>1, <1>2, <4>1, <4>2
    <3>2. CASE i # Len(t) + 1
      <4>1. i \in 1 .. Len(t) /\ i \in Numbered(t) /\ u[i] = t[i]
        BY <2>4, <3>2
      <4>2. \A j \in Numbered(u) : j < i => j \in Numbered(t) /\ u[j] = t[j]
        BY <1>1, <2>4, <4>1
      <4>3. t[i].seq \in 1 .. (out + 1) - 1 /\ \A j \in Numbered(t) : j < i => t[j].seq < t[i].seq
        BY <1>3, <4>1 DEF Rising
      <4> QED BY <4>1, <4>2, <4>3
    <3> QED BY <3>1, <3>2
  <2>6. \A i \in 1 .. Len(u) : u[i].type # "hello_ack"
    BY <1>1, <1>4, <2>1, <2>3
  <2> QED BY <1>1, <2>5, <2>6 DEF Streaming, u
<1> QED BY <1>1, <1>3, <1>4 DEF Streaming

\* Without a link the Flipper can only forget the session.
LEMMA DialogueIdles ==
  ASSUME NEW b \in BoardState, NEW f \in FlipState, NEW g \in FlipState,
         NEW o \in Seq(Rec), NEW t \in Seq(Rec), NEW u, u = << >>,
         NEW up \in BOOLEAN, NEW live \in BOOLEAN,
         NEW stays \in BOOLEAN, ~ stays, NEW goes \in BOOLEAN, ~ goes,
         Dialogue(b, f, o, t, up, live),
         \/ g.sess = "none"
         \/ g.sess = f.sess /\ g.sid = f.sid /\ g.in = f.in /\ g.out >= f.out
  PROVE  Dialogue(b, g, o, u, stays, goes)
PROOF
<1>1. u \in Seq(Rec) /\ Len(u) = 0 /\ DOMAIN u = {}
  BY EmptySeq, LenProperties
<1>2. Acks(u) /\ Answers(b, g, u) /\ \A i \in 1 .. Len(u) : u[i].type # "hello_ack"
  BY <1>1 DEF Acks, Answers
<1>3. \A out : out >= 1 => Streaming(u, out)
  BY <1>1 DEF Streaming, Rising, Numbered
<1>4. Steady(g, stays) /\ b.st \in {"hello_sent", "authenticated"}
  BY DEF Steady, Dialogue
<1>5. Joined(b, g) => Joined(b, f) /\ g.in = f.in /\ g.out >= f.out
  BY DEF Joined
<1>6. Unopened(b, f, up) => Unopened(b, g, stays)
  BY <1>5 DEF Unopened
<1>7. f.out \in Int /\ g.out \in Int
  BY FlipCounts
<1> HIDE DEF BoardState, FlipState, Rec, Count, Acks, Answers, Climbs, Streams, Steady, Joined, Unopened
<1>8. CASE HelloOut(b, f, o, t, up)
  <2>1. HelloOut(b, g, o, u, stays)
    BY <1>2, <1>6, <1>8 DEF HelloOut
  <2> QED BY <1>4, <2>1 DEF Dialogue
<1>9. CASE HelloGone(b, f, o, t, up)
  <2>1. HelloGone(b, g, o, u, stays)
    BY <1>2, <1>6, <1>9 DEF HelloGone
  <2> QED BY <1>4, <2>1 DEF Dialogue
<1>10. CASE AuthOut(b, f, o, t, up, live)
  <2>1. AuthOut(b, g, o, u, stays, goes)
    BY <1>2, <1>6, <1>10 DEF AuthOut
  <2> QED BY <1>4, <2>1 DEF Dialogue
<1>11. CASE AuthGone(b, f, o, t, live)
  <2>1. ASSUME Joined(b, g)  PROVE  Climbs(o, 1, g.in, Count(b)) /\ Streaming(u, g.out)
    <3>1. Climbs(o, 1, f.in, Count(b)) /\ f.out >= 1
      BY <1>5, <1>11, <2>1 DEF AuthGone, Streaming
    <3>2. g.out >= 1
      BY <1>5, <1>7, <2>1, <3>1
    <3> QED BY <1>3, <1>5, <2>1, <3>1, <3>2
  <2>2. AuthGone(b, g, o, u, goes)
    BY <1>2, <1>11, <2>1 DEF AuthGone
  <2> QED BY <1>4, <2>2 DEF Dialogue
<1> QED BY <1>8, <1>9, <1>10, <1>11 DEF Dialogue

\* The same session for the Flipper.
SameEnd(f, g) == g.sess = f.sess /\ g.sid = f.sid /\ g.secret = f.secret /\ g.key = f.key /\ g.in = f.in

\* A turn of its main thread.
LEMMA DialogueTurns ==
  ASSUME NEW b \in BoardState, NEW f \in FlipState, NEW g \in FlipState,
         NEW o \in Seq(Rec), NEW t \in Seq(Rec),
         NEW up \in BOOLEAN, NEW live \in BOOLEAN, NEW stays \in BOOLEAN, stays => live,
         Dialogue(b, f, o, t, up, live),
         SameEnd(f, g), g.out = f.out, Range(g.events) \subseteq Range(f.events),
         g.phase = "active" => f.phase = "active" \/ "active" \in Range(f.events)
  PROVE  Dialogue(b, g, o, t, up, stays)
PROOF
<1>1. Steady(g, up) /\ b.st \in {"hello_sent", "authenticated"}
  BY DEF Steady, Dialogue
<1>2. /\ Joined(b, g) <=> Joined(b, f)
      /\ Unopened(b, f, up) => Unopened(b, g, up)
      /\ Answers(b, f, t) => Answers(b, g, t)
  BY DEF Joined, Unopened, Answers, SameEnd
<1> HIDE DEF BoardState, FlipState, Rec, Count, Acks, Answers, Climbs, Streams, Steady, Joined, Unopened
<1>3. CASE HelloOut(b, f, o, t, up)
  <2>1. HelloOut(b, g, o, t, up)
    BY <1>2, <1>3 DEF HelloOut
  <2> QED BY <1>1, <2>1 DEF Dialogue
<1>4. CASE HelloGone(b, f, o, t, up)
  <2>1. HelloGone(b, g, o, t, up)
    BY <1>2, <1>4 DEF HelloGone
  <2> QED BY <1>1, <2>1 DEF Dialogue
<1>5. CASE AuthOut(b, f, o, t, up, live)
  <2>1. AuthOut(b, g, o, t, up, stays)
    BY <1>2, <1>5 DEF AuthOut, SameEnd
  <2> QED BY <1>1, <2>1 DEF Dialogue
<1>6. CASE AuthGone(b, f, o, t, live)
  <2>1. AuthGone(b, g, o, t, stays)
    BY <1>2, <1>6 DEF AuthGone, SameEnd
  <2> QED BY <1>1, <2>1 DEF Dialogue
<1> QED BY <1>3, <1>4, <1>5, <1>6 DEF Dialogue

\* A numbered record more, when a number is left, on the way to the board or lost.
Commands(f, g, t, u) ==
  \/ g.out = f.out /\ u = t
  \/ /\ g.out = f.out + 1
     /\ u = t \/ \E m \in Rec : m.type = "command" /\ m.seq = f.out /\ u = Append(t, m)

\* A command of the user, which its main thread sends only when it believes in the session.
LEMMA DialogueCommands ==
  ASSUME NEW b \in BoardState, NEW f \in FlipState, NEW g \in FlipState,
         NEW o \in Seq(Rec), NEW t \in Seq(Rec), NEW u \in Seq(Rec),
         NEW up \in BOOLEAN, NEW live \in BOOLEAN, up, f.phase = "active",
         Dialogue(b, f, o, t, up, live),
         SameEnd(f, g), g.events = f.events, Commands(f, g, t, u)
  PROVE  Dialogue(b, g, o, u, up, live)
PROOF
<1>0. \/ g.out = f.out /\ u = t
      \/ /\ g.out = f.out + 1
         /\ u = t \/ \E m \in Rec : m.type = "command" /\ m.seq = f.out /\ u = Append(t, m)
  BY DEF Commands
<1>1. Steady(g, up) /\ b.st \in {"hello_sent", "authenticated"}
  BY DEF Steady, Dialogue
<1>2. AuthGone(b, f, o, t, live)
  BY DEF Dialogue, HelloOut, HelloGone, AuthOut, Unopened
<1>3. Joined(b, g) <=> Joined(b, f)
  BY DEF Joined, SameEnd
<1>4. f.out \in Int
  BY FlipCounts
<1>5. Joined(b, g) => Streaming(u, g.out)
  BY <1>0, <1>2, <1>3, <1>4, StreamingGrows DEF AuthGone
<1>6. \A i \in 1 .. Len(u) : u[i].type # "hello_ack"
  <2>1. \A i \in 1 .. Len(t) : t[i].type # "hello_ack"
    BY <1>2 DEF AuthGone
  <2>2. CASE u = t
    BY <2>1, <2>2
  <2>3. CASE u # t
    <3>1. PICK m \in Rec : m.type = "command" /\ u = Append(t, m)
      BY <1>0, <2>3
    <3>2. /\ Len(t) \in Nat /\ Len(u) = Len(t) + 1 /\ u[Len(t) + 1] = m
          /\ \A i \in 1 .. Len(t) : u[i] = t[i]
      BY <3>1, AppendAt, RecordsAt
    <3>3. \A i \in 1 .. Len(u) : i \in 1 .. Len(t) \/ i = Len(t) + 1
      BY <3>2
    <3> QED BY <2>1, <3>1, <3>2, <3>3
  <2> QED BY <2>2, <2>3
<1> HIDE DEF BoardState, FlipState, Rec, Count, Streaming, Climbs, Streams, Steady, Joined
<1>7. AuthGone(b, g, o, u, live)
  BY <1>2, <1>3, <1>5, <1>6 DEF AuthGone, SameEnd
<1> QED BY <1>1, <1>7 DEF Dialogue

\* What the type of the first record says of the dialogue.
LEMMA HeadSays ==
  ASSUME NEW b \in BoardState, NEW f \in FlipState, NEW o \in Seq(Rec), o # << >>, NEW t \in Seq(Rec),
         NEW up \in BOOLEAN, NEW live \in BOOLEAN, Dialogue(b, f, o, t, up, live)
  PROVE  /\ Len(o) >= 1 /\ Len(o) \in Nat
         /\ \/ o[1].type = "hello" /\ HelloOut(b, f, o, t, up)
            \/ o[1].type = "client_auth" /\ AuthOut(b, f, o, t, up, live)
            \/ o[1].type \in Sent /\ AuthGone(b, f, o, t, live)
PROOF
<1>1. Len(o) >= 1 /\ Len(o) \in Nat /\ 1 \in 1 .. Len(o)
  BY TailAt, RecordsAt
<1>2. CASE HelloOut(b, f, o, t, up)
  BY <1>1, <1>2 DEF HelloOut
<1>3. CASE HelloGone(b, f, o, t, up)
  BY <1>1, <1>3 DEF HelloGone
<1>4. CASE AuthOut(b, f, o, t, up, live)
  BY <1>1, <1>4 DEF AuthOut
<1>5. CASE AuthGone(b, f, o, t, live)
  BY <1>1, <1>5 DEF AuthGone, Streams
<1> QED BY <1>2, <1>3, <1>4, <1>5 DEF Dialogue

\* The Flipper handles hello.
LEMMA DialogueGreets ==
  ASSUME NEW b \in BoardState, NEW f \in FlipState, NEW g \in FlipState,
         NEW o \in Seq(Rec), o # << >>, o[1].type = "hello", NEW t \in Seq(Rec), NEW u \in Seq(Rec),
         NEW up \in BOOLEAN, NEW live \in BOOLEAN,
         Dialogue(b, f, o, t, up, live),
         g.phase = f.phase, Range(g.events) \subseteq Range(f.events) \cup {"authenticating"},
         g.sess \in {"none", "hello"},
         \/ u = t
         \/ \E x \in Rec : /\ u = Append(t, x)
                           /\ \/ x.type = "unknown_board"
                              \/ /\ x.type = "hello_ack" /\ g.sess = "hello" /\ g.sid = o[1].id
                                 /\ g.secret = x.secret
  PROVE  Dialogue(b, g, Tail(o), u, up, live)
PROOF
<1> DEFINE p == Tail(o)
<1>1. HelloOut(b, f, o, t, up)
  <2>1. "hello" \notin Sent
    BY DEF Sent
  <2> QED BY <2>1, HeadSays
<1>2. Len(p) = 0 /\ p \in Seq(Rec)
  BY <1>1, TailAt DEF HelloOut
<1>3. Unopened(b, g, up) /\ Steady(g, up)
  <2>1. Unopened(b, f, up) /\ Steady(f, up)
    BY <1>1 DEF HelloOut, Dialogue
  <2>2. ~ Joined(b, g)
    BY DEF Joined
  <2>3. Steady(g, up)
    BY <2>1 DEF Steady
  <2>4. up => g.phase # "active" /\ "active" \notin Range(g.events)
    BY <2>1 DEF Unopened
  <2> QED BY <2>2, <2>3, <2>4 DEF Unopened
<1>4. Acks(t) /\ b.st = "hello_sent" /\ b.done = "none" /\ o[1].id = b.sid
  BY <1>1 DEF HelloOut
<1>5. Ack.type = "ack"
  BY DEF Ack, Msg
<1>6. Answers(b, g, u)
  <2>1. CASE u = t
    BY <1>4, <1>5, <2>1 DEF Acks, Answers
  <2>2. CASE u # t
    <3>1. PICK x \in Rec : /\ u = Append(t, x)
                           /\ \/ x.type = "unknown_board"
                              \/ /\ x.type = "hello_ack" /\ g.sess = "hello" /\ g.sid = o[1].id
                                 /\ g.secret = x.secret
      BY <2>2
    <3>2. /\ Len(t) \in Nat /\ Len(u) = Len(t) + 1 /\ u[Len(t) + 1] = x
          /\ \A i \in 1 .. Len(t) : u[i] = t[i]
      BY <3>1, AppendAt, RecordsAt
    <3> SUFFICES ASSUME NEW i \in 1 .. Len(u)
                 PROVE  /\ u[i] = Ack \/ (i = Len(u) /\ u[i].type \in {"hello_ack", "unknown_board"})
                        /\ u[i].type = "hello_ack" => g.sess = "hello" /\ g.sid = b.sid /\ g.secret = u[i].secret
      BY DEF Answers
    <3>3. CASE i = Len(t) + 1
      <4>1. u[i] = x /\ i = Len(u)
        BY <3>2, <3>3
      <4> QED BY <1>4, <3>1, <4>1
    <3>4. CASE i # Len(t) + 1
      <4>1. i \in 1 .. Len(t) /\ u[i] = t[i]
        BY <3>2, <3>4
      <4>2. u[i] = Ack
        BY <1>4, <4>1 DEF Acks
      <4> QED BY <1>5, <4>2
    <3> QED BY <3>3, <3>4
  <2> QED BY <2>1, <2>2
<1> HIDE DEF p
<1>7. HelloGone(b, g, p, u, up)
  BY <1>2, <1>3, <1>4, <1>6 DEF HelloGone
<1>8. Dialogue(b, g, p, u, up, live)
  BY <1>3, <1>4, <1>7 DEF Dialogue
<1> QED BY <1>8 DEF p

\* client_auth: what it leads to when it finds another session, another secret, or what it should.
Passes(f, g, m, t, u) == g = f /\ u = t /\ (f.sess # "hello" \/ m.id # f.sid)
Refuses(f, g, m, t, u) == g.sess = "none" /\ u = t /\ m.secret # f.secret
Accepts(f, g, m, t, u) ==
  /\ g.sess = "active" /\ g.sid = f.sid /\ g.key = m.secret /\ g.in = 1
  /\ f.sess = "hello" /\ m.id = f.sid
  /\ Acks(t) => Streaming(u, g.out)

\* The Flipper handles client_auth.
LEMMA DialogueJoins ==
  ASSUME NEW b \in BoardState, NEW f \in FlipState, NEW g \in FlipState,
         NEW o \in Seq(Rec), o # << >>, o[1].type = "client_auth", NEW t \in Seq(Rec), NEW u \in Seq(Rec),
         NEW up \in BOOLEAN, NEW live \in BOOLEAN, live => up,
         Dialogue(b, f, o, t, up, live), Steady(g, up),
         Passes(f, g, o[1], t, u) \/ Refuses(f, g, o[1], t, u) \/ Accepts(f, g, o[1], t, u)
  PROVE  Dialogue(b, g, Tail(o), u, up, live)
PROOF
<1> DEFINE p == Tail(o)
<1>0. Len(o) \in Nat /\ Len(o) >= 1
  BY HeadSays
<1>1. AuthOut(b, f, o, t, up, live)
  <2>1. "client_auth" \notin Sent
    BY DEF Sent
  <2> QED BY <2>1, HeadSays
<1>2. p \in Seq(Rec) /\ Len(p) = Len(o) - 1 /\ \A i \in 1 .. Len(p) : p[i] = o[i + 1]
  BY TailAt
<1>3. Streams(o, 2) /\ Climbs(o, 2, 1, Count(b)) /\ o[1].id = b.sid /\ Acks(t) /\ ~ Joined(b, f)
  BY <1>1 DEF AuthOut, Unopened
<1>4. Count(b) \in Int /\ Len(p) \in Nat
  BY <1>2, CountIs, RecordsAt
<1>5. Streams(p, 1) /\ Climbs(p, 1, 1, Count(b))
  <2>1. Thinned(p, o, 1)
    BY <1>0, <1>2, <1>4 DEF Thinned
  <2> HIDE DEF p
  <2> QED BY <1>2, <1>3, <1>4, <2>1, ThinnedAfter
<1>6. b.st = "hello_sent" => Len(p) = 0
  <2> SUFFICES ASSUME b.st = "hello_sent" PROVE Len(p) = 0
    OBVIOUS
  <2>1. Count(b) = 1
    BY DEF Count
  <2>n. PICK n : n = Len(p)
    OBVIOUS
  <2>m. n \in Nat
    BY <1>4, <2>n
  <2>5. SUFFICES ASSUME n # 0 PROVE FALSE
    BY <2>n
  <2>2. 1 \in 1 .. Len(p)
    <3>1. 1 \in 1 .. n
      BY ONLY <2>m, <2>5
    <3> QED BY <2>n, <3>1
  <2>3. p[1].seq >= 1 /\ p[1].seq < Count(b)
    BY <1>5, <2>2 DEF Climbs
  <2>4. p[1].seq \in Int
    BY <1>2, <2>2, RecordsAt
  <2> HIDE DEF Count, p
  <2> QED BY <2>1, <2>3, <2>4
<1>7. b.st \in {"hello_sent", "authenticated"}
  BY DEF Dialogue
<1>8. Ack.type # "hello_ack"
  BY DEF Ack, Msg
<1>9. live => Whole(b, p, 1, 1, Count(b)) /\ b.key = o[1].secret
  <2> SUFFICES ASSUME live PROVE Whole(b, p, 1, 1, Count(b)) /\ b.key = o[1].secret
    OBVIOUS
  <2>1. Whole(b, o, 2, 1, Count(b)) /\ b.key = o[1].secret
    BY <1>1 DEF AuthOut
  <2> QED BY <1>4, <2>1, WholeTail
<1>a. up => f.sess = "hello" /\ f.sid = b.sid /\ f.secret = o[1].secret
  BY <1>1 DEF AuthOut
<1>b. \A i \in 1 .. Len(t) : t[i].type # "hello_ack"
  BY <1>3, <1>8 DEF Acks
<1> HIDE DEF p
<1>10. CASE Passes(f, g, o[1], t, u)
  <2>1. ~ up /\ ~ live
    BY <1>3, <1>10, <1>a DEF Passes
  <2>2. ~ Joined(b, g)
    BY <1>3, <1>10 DEF Passes
  <2>3. AuthGone(b, g, p, u, live)
    BY <1>5, <1>6, <1>10, <1>b, <2>1, <2>2 DEF AuthGone, Passes
  <2>4. Dialogue(b, g, p, u, up, live)
    BY <1>7, <2>3 DEF Dialogue
  <2> QED BY <2>4 DEF p
<1>11. CASE Refuses(f, g, o[1], t, u)
  <2>1. ~ up /\ ~ live
    BY <1>3, <1>11, <1>a DEF Refuses
  <2>2. ~ Joined(b, g)
    BY <1>11 DEF Refuses, Joined
  <2>3. AuthGone(b, g, p, u, live)
    BY <1>5, <1>6, <1>11, <1>b, <2>1, <2>2 DEF AuthGone, Refuses
  <2>4. Dialogue(b, g, p, u, up, live)
    BY <1>7, <2>3 DEF Dialogue
  <2> QED BY <2>4 DEF p
<1>12. CASE Accepts(f, g, o[1], t, u)
  <2>1. Joined(b, g) /\ g.in = 1 /\ g.key = o[1].secret /\ Streaming(u, g.out)
    BY <1>3, <1>12 DEF Accepts, Joined
  <2>2. \A i \in 1 .. Len(u) : u[i].type # "hello_ack"
    BY <2>1 DEF Streaming
  <2>3. AuthGone(b, g, p, u, live)
    BY <1>5, <1>6, <1>9, <2>1, <2>2 DEF AuthGone
  <2>4. Dialogue(b, g, p, u, up, live)
    BY <1>7, <2>3 DEF Dialogue
  <2> QED BY <2>4 DEF p
<1> QED BY <1>10, <1>11, <1>12

\* A record of the session: what it leads to without a session, when it does not fit, and when it does.
Ignores(f, g) == g = f /\ f.sess # "active"
Rejects(f, g, m) == g.sess = "none" /\ f.sess = "active" /\ ~ Authentic(m, f.sid, f.key, f.in)
Advances(f, g, m) ==
  /\ g.sess = f.sess /\ g.sid = f.sid /\ g.key = f.key /\ g.out = f.out /\ g.in = f.in + 1
  /\ m.seq = f.in

\* The Flipper handles a record of the session.
LEMMA DialogueAdvances ==
  ASSUME NEW b \in BoardState, NEW f \in FlipState, NEW g \in FlipState,
         NEW o \in Seq(Rec), o # << >>, o[1].type \notin {"hello", "client_auth"}, NEW t \in Seq(Rec),
         NEW up \in BOOLEAN, NEW live \in BOOLEAN,
         Dialogue(b, f, o, t, up, live), Steady(g, up),
         Ignores(f, g) \/ Rejects(f, g, o[1]) \/ Advances(f, g, o[1])
  PROVE  Dialogue(b, g, Tail(o), t, up, live)
PROOF
<1> DEFINE p == Tail(o)
<1>0. Len(o) \in Nat /\ Len(o) >= 1
  BY HeadSays
<1>1. AuthGone(b, f, o, t, live)
  BY HeadSays
<1>2. p \in Seq(Rec) /\ Len(p) = Len(o) - 1 /\ \A i \in 1 .. Len(p) : p[i] = o[i + 1]
  BY TailAt
<1>3. Count(b) \in Int /\ Len(p) \in Nat /\ f.in \in Int
  BY <1>2, CountIs, RecordsAt, FlipCounts
<1>4. Thinned(p, o, 1)
  BY <1>0, <1>2, <1>3 DEF Thinned
<1>5. Streams(p, 1)
  BY <1>1, <1>2, <1>3, <1>4, ThinnedAfter DEF AuthGone, p
<1>6. b.st = "hello_sent" => Len(p) = 0
  BY <1>0, <1>1 DEF AuthGone
<1>7. b.st \in {"hello_sent", "authenticated"}
  BY DEF Dialogue
<1>8. \A i \in 1 .. Len(t) : t[i].type # "hello_ack"
  BY <1>1 DEF AuthGone
<1> HIDE DEF p
<1>9. CASE Ignores(f, g) \/ Rejects(f, g, o[1])
  <2>1. ~ Joined(b, g)
    BY <1>9 DEF Ignores, Rejects, Joined
  <2>2. ~ live
    <3> SUFFICES ASSUME live PROVE FALSE
      OBVIOUS
    <3>1. Joined(b, f) /\ f.key = b.key /\ Whole(b, o, 1, f.in, Count(b))
      BY <1>1 DEF AuthGone
    <3>2. 1 \in 1 .. Len(o) /\ f.in + 1 - 1 = f.in
      BY <1>0, <1>3
    <3>3. o[1].seq = f.in /\ o[1].id = b.sid /\ o[1].secret = b.key
      BY <3>1, <3>2 DEF Whole
    <3>4. o[1].seq < SequenceMax
      <4>1. o[1] \in Rec
        BY <3>2, RecordsAt
      <4>2. o[1].seq \in Nums
        BY <4>1 DEF Rec
      <4> QED BY <4>2, SessionAssumption DEF Nums
    <3> QED BY <1>9, <3>1, <3>3, <3>4 DEF Ignores, Rejects, Joined, Authentic
  <2>3. AuthGone(b, g, p, t, live)
    BY <1>5, <1>6, <1>8, <2>1, <2>2 DEF AuthGone
  <2>4. Dialogue(b, g, p, t, up, live)
    BY <1>7, <2>3 DEF Dialogue
  <2> QED BY <2>4 DEF p
<1>10. CASE Advances(f, g, o[1])
  <2>1. /\ g.in = f.in + 1 /\ g.in = o[1].seq + 1 /\ g.out = f.out /\ g.key = f.key
        /\ Joined(b, g) <=> Joined(b, f)
    BY <1>10 DEF Advances, Joined
  <2>2. Joined(b, g) => Climbs(p, 1, g.in, Count(b)) /\ Streaming(t, g.out)
    <3> SUFFICES ASSUME Joined(b, g) PROVE Climbs(p, 1, g.in, Count(b)) /\ Streaming(t, g.out)
      OBVIOUS
    <3>1. Climbs(o, 1, f.in, Count(b)) /\ Streaming(t, f.out)
      BY <1>1, <2>1 DEF AuthGone
    <3>2. Climbs(p, 1, o[1].seq + 1, Count(b))
      BY <1>0, <1>2, <1>3, <1>4, <3>1, ThinnedAfter
    <3> QED BY <2>1, <3>1, <3>2
  <2>3. live => Joined(b, g) /\ g.key = b.key /\ Whole(b, p, 1, g.in, Count(b))
    <3> SUFFICES ASSUME live PROVE Joined(b, g) /\ g.key = b.key /\ Whole(b, p, 1, g.in, Count(b))
      OBVIOUS
    <3>1. Joined(b, f) /\ f.key = b.key /\ Whole(b, o, 1, f.in, Count(b))
      BY <1>1 DEF AuthGone
    <3>2. Whole(b, p, 1, f.in + 1, Count(b))
      BY <1>3, <3>1, WholeTail DEF p
    <3> QED BY <2>1, <3>1, <3>2
  <2>4. AuthGone(b, g, p, t, live)
    BY <1>5, <1>6, <1>8, <2>2, <2>3 DEF AuthGone
  <2>5. Dialogue(b, g, p, t, up, live)
    BY <1>7, <2>4 DEF Dialogue
  <2> QED BY <2>5 DEF p
<1> QED BY <1>9, <1>10

\* The events that let a session be.
Mild == Events \ {"connected", "advertising"}

\* What a handler of the Flipper that posts no more than E leaves as it is, but for the session.
Posts(h, r, E) ==
  /\ r \in FlipRun /\ r.lost = h.lost
  /\ r.f.phase = h.f.phase /\ r.f.known = h.f.known /\ r.f.file = h.f.file
  /\ Range(r.f.events) \subseteq Range(h.f.events) \cup E

\* And one that leaves the session too.
Keeps(h, r, E) == Posts(h, r, E) /\ SameEnd(h.f, r.f) /\ r.f.out = h.f.out /\ r.toB = h.toB

\* Other books for the Flipper.
LEMMA WithEnd ==
  ASSUME NEW h \in FlipRun, NEW g \in FlipState
  PROVE  LET r == [h EXCEPT !.f = g]
         IN r \in FlipRun /\ r.f = g /\ r.toB = h.toB /\ r.lost = h.lost
PROOF
<1> HIDE DEF FlipState, Rec
<1> QED BY DEF FlipRun

\* An event, or none when the queue is full.
LEMMA PostKeeps ==
  ASSUME NEW h \in FlipRun, NEW event \in Events
  PROVE  Keeps(h, Post(h, event), {event})
PROOF
<1>0. PICK e : e = h.f.events
  OBVIOUS
<1> DEFINE t == IF Len(e) < EventCap THEN Append(e, event) ELSE e
           g == [h.f EXCEPT !.events = t]
           r == [h EXCEPT !.f = g]
<1>1. h.f \in FlipState
  BY DEF FlipRun
<1>2. e \in Queue /\ e \in Seq(Events) /\ Len(e) \in Nat
  BY <1>0, <1>1, LenProperties DEF FlipState, Queue
<1>3. Append(e, event) \in Seq(Events) /\ Len(Append(e, event)) = Len(e) + 1
  BY <1>2, AppendProperties
<1>4. Post(h, event) = r
  BY <1>0 DEF Post, FlipRun
<1>5. t \in Queue
  BY <1>2, <1>3, SessionAssumption DEF Queue
<1>6. Range(t) \subseteq Range(e) \cup {event}
  <2>1. /\ DOMAIN Append(e, event) = 1 .. Len(e) + 1 /\ DOMAIN e = 1 .. Len(e)
        /\ Append(e, event)[Len(e) + 1] = event
        /\ \A i \in 1 .. Len(e) : Append(e, event)[i] = e[i]
    BY <1>2, AppendProperties, LenProperties
  <2>2. Range(Append(e, event)) \subseteq Range(e) \cup {event}
    BY <1>2, <2>1 DEF Range
  <2> QED BY <2>2
<1> HIDE DEF t
<1>7. /\ g \in FlipState /\ g.events = t /\ g.out = h.f.out /\ g.phase = h.f.phase /\ g.known = h.f.known
      /\ g.file = h.f.file /\ SameEnd(h.f, g)
  BY <1>1, <1>5 DEF FlipState, SameEnd
<1> HIDE DEF g
<1>8. r \in FlipRun /\ r.f = g /\ r.toB = h.toB /\ r.lost = h.lost
  BY <1>7, WithEnd
<1> HIDE DEF r
<1>9. Keeps(h, r, {event})
  BY <1>0, <1>6, <1>7, <1>8 DEF Keeps, Posts
<1> QED BY <1>4, <1>9

\* The session forgotten.
LEMMA ResetSessionForgets ==
  ASSUME NEW h \in FlipRun
  PROVE  Posts(h, ResetSession(h), {}) /\ ResetSession(h).f.sess = "none" /\ ResetSession(h).toB = h.toB
PROOF
<1> DEFINE g == [h.f EXCEPT !.sess = "none", !.sid = 0, !.secret = 0, !.key = 0, !.out = 0, !.in = 0]
           r == [h EXCEPT !.f = g]
<1>1. h.f \in FlipState
  BY DEF FlipRun
<1>2. /\ g \in FlipState /\ g.sess = "none" /\ g.events = h.f.events /\ g.phase = h.f.phase
      /\ g.known = h.f.known /\ g.file = h.f.file
  BY <1>1, Kinds DEF FlipState
<1>3. ResetSession(h) = r
  BY DEF ResetSession, FlipRun
<1> HIDE DEF g
<1>4. r \in FlipRun /\ r.f = g /\ r.toB = h.toB /\ r.lost = h.lost
  BY <1>2, WithEnd
<1> HIDE DEF r
<1> QED BY <1>2, <1>3, <1>4 DEF Posts

\* A notification arrives, or not.
LEMMA NotifyAppends ==
  ASSUME NEW h \in FlipRun, NEW m \in Rec
  PROVE  LET r == Notify(h, m)
         IN /\ r \in FlipRun /\ r.f = h.f /\ r.lost = h.lost
            /\ r.toB = h.toB \/ r.toB = Append(h.toB, m)
            /\ link = "down" => r.toB = h.toB
PROOF
<1> DEFINE t == Append(h.toB, m)
           r == [h EXCEPT !.toB = t]
<1>1. t \in Seq(Rec)
  BY AppendIs DEF FlipRun
<1>2. Notify(h, m) = IF h.lost \/ link = "down" \/ board.conn # "up" THEN h ELSE r
  BY DEF Notify
<1> HIDE DEF t
<1>3. r \in FlipRun /\ r.f = h.f /\ r.lost = h.lost /\ r.toB = t
  <2> HIDE DEF FlipState, Rec
  <2> QED BY <1>1 DEF FlipRun
<1> HIDE DEF r
<1> QED BY <1>2, <1>3 DEF t

\* A numbered record goes out, or its number is lost, or there is none left.
LEMMA NotifyProtectedSpeaks ==
  ASSUME NEW h \in FlipRun, NEW type \in {"query", "command"}
  PROVE  LET r == NotifyProtected(h, type)
         IN /\ Posts(h, r, {}) /\ SameEnd(h.f, r.f) /\ r.f.events = h.f.events
            /\ \/ r.f.out = h.f.out /\ r.toB = h.toB
               \/ /\ r.f.out = h.f.out + 1
                  /\ \/ r.toB = h.toB
                     \/ \E m \in Rec : m.type = type /\ m.seq = h.f.out /\ r.toB = Append(h.toB, m)
            /\ link = "down" => r.toB = h.toB
PROOF
<1> DEFINE x == Msg(type, h.f.sid, h.f.key, h.f.out)
           a == Notify(h, x)
           n == a.f.out + 1
           g == [a.f EXCEPT !.out = n]
           r == [a EXCEPT !.f = g]
<1>1. h.f \in FlipState
  BY DEF FlipRun
<1>3. CASE h.f.out >= SequenceMax
  BY <1>3 DEF NotifyProtected, Posts, SameEnd
<1>4. CASE ~ h.f.out >= SequenceMax
  <2>1. h.f.sid \in Ids /\ h.f.key \in Secret /\ h.f.out \in Counts
    BY <1>1, Kinds DEF FlipState
  <2>2. h.f.out \in Nums /\ h.f.out + 1 \in Counts
    BY <1>4, <2>1, Kinds
  <2>3. x \in Rec /\ x.type = type /\ x.seq = h.f.out
    BY <2>1, <2>2 DEF Msg, Rec, Types
  <2>4. NotifyProtected(h, type) = [a EXCEPT !.f.out = @ + 1]
    BY <1>4 DEF NotifyProtected
  <2> HIDE DEF x
  <2>5. /\ a \in FlipRun /\ a.f = h.f /\ a.lost = h.lost
        /\ a.toB = h.toB \/ a.toB = Append(h.toB, x)
        /\ link = "down" => a.toB = h.toB
    BY <2>3, NotifyAppends
  <2> HIDE DEF a
  <2>6. [a EXCEPT !.f.out = @ + 1] = r
    BY <2>5 DEF FlipRun
  <2>7. n \in Counts /\ n = h.f.out + 1
    BY <2>2, <2>5
  <2> HIDE DEF n
  <2>8. /\ g \in FlipState /\ g.out = n /\ g.events = h.f.events /\ g.phase = h.f.phase
        /\ g.known = h.f.known /\ g.file = h.f.file /\ SameEnd(h.f, g)
    BY <1>1, <2>5, <2>7 DEF FlipState, SameEnd
  <2> HIDE DEF g
  <2>9. r \in FlipRun /\ r.f = g /\ r.toB = a.toB /\ r.lost = a.lost
    BY <2>5, <2>8, WithEnd
  <2> HIDE DEF r
  <2>10. Posts(h, r, {}) /\ SameEnd(h.f, r.f) /\ r.f.events = h.f.events
    BY <2>5, <2>8, <2>9 DEF Posts
  <2>11. /\ r.f.out = h.f.out + 1
         /\ \/ r.toB = h.toB
            \/ \E m \in Rec : m.type = type /\ m.seq = h.f.out /\ r.toB = Append(h.toB, m)
         /\ link = "down" => r.toB = h.toB
    BY <2>3, <2>5, <2>7, <2>8, <2>9
  <2> QED BY <2>4, <2>6, <2>10, <2>11
<1> QED BY <1>3, <1>4

\* A handler that goes on with the numbered records.
Speaks(h, r) ==
  /\ Posts(h, r, {"capability"}) /\ SameEnd(h.f, r.f)
  /\ Streaming(h.toB, h.f.out) => Streaming(r.toB, r.f.out)

\* Sending one is such.
LEMMA NotifyProtectedStreams ==
  ASSUME NEW h \in FlipRun, NEW type \in {"query", "command"}
  PROVE  Speaks(h, NotifyProtected(h, type))
PROOF
<1> DEFINE r == NotifyProtected(h, type)
<1>1. /\ Posts(h, r, {}) /\ SameEnd(h.f, r.f)
      /\ \/ r.f.out = h.f.out /\ r.toB = h.toB
         \/ /\ r.f.out = h.f.out + 1
            /\ \/ r.toB = h.toB
               \/ \E m \in Rec : m.type = type /\ m.seq = h.f.out /\ r.toB = Append(h.toB, m)
  BY NotifyProtectedSpeaks
<1> HIDE DEF r
<1>2. h.f \in FlipState /\ h.toB \in Seq(Rec)
  BY DEF FlipRun
<1>3. PICK out \in Int : out = h.f.out
  BY <1>2, FlipCounts
<1>4. Streaming(h.toB, h.f.out) => Streaming(r.toB, r.f.out)
  <2> SUFFICES ASSUME Streaming(h.toB, out) PROVE Streaming(r.toB, r.f.out)
    BY <1>3
  <2>1. /\ Streaming(h.toB, out + 1)
        /\ \A m \in Rec : m.seq = out /\ m.type # "hello_ack" => Streaming(Append(h.toB, m), out + 1)
    BY <1>2, StreamingGrows
  <2>2. CASE r.f.out = out /\ r.toB = h.toB
    BY <2>2
  <2>3. CASE r.f.out = out + 1 /\ r.toB = h.toB
    BY <2>1, <2>3
  <2>4. CASE r.f.out = out + 1 /\ r.toB # h.toB
    <3>1. PICK m \in Rec : m.type = type /\ m.seq = out /\ r.toB = Append(h.toB, m)
      BY <1>1, <1>3, <2>4
    <3>2. Streaming(Append(h.toB, m), out + 1)
      BY <2>1, <3>1
    <3> QED BY <2>4, <3>1, <3>2
  <2> QED BY <1>1, <1>3, <2>2, <2>3, <2>4
<1>5. Posts(h, r, {"capability"})
  BY <1>1 DEF Posts
<1>6. Speaks(h, r)
  BY <1>1, <1>4, <1>5 DEF Speaks
<1> QED BY <1>6 DEF r

\* Opening the session with the capabilities.
LEMMA BootstrapSpeaks ==
  ASSUME NEW h \in FlipRun
  PROVE  Speaks(h, Bootstrap(h))
PROOF
<1>1. Keeps(h, Post(h, "capability"), {"capability"})
  BY PostKeeps DEF Events
<1>2. Speaks(h, Post(h, "capability"))
  BY <1>1 DEF Keeps, Speaks
<1>3. Speaks(h, NotifyProtected(h, "query"))
  BY NotifyProtectedStreams
<1> QED BY <1>2, <1>3 DEF Bootstrap

\* And with the question for the status.
LEMMA QueryStatusSpeaks ==
  ASSUME NEW h \in FlipRun
  PROVE  Speaks(h, QueryStatus(h))
PROOF
<1>1. Speaks(h, h)
  BY DEF Speaks, Posts, SameEnd
<1>2. Speaks(h, NotifyProtected(h, "command"))
  BY NotifyProtectedStreams
<1> QED BY <1>1, <1>2 DEF QueryStatus

\* handle_hello.
LEMMA HandleHelloAnswers ==
  ASSUME NEW h \in FlipRun, NEW m \in Rec, m.type = "hello", NEW failure
  PROVE  LET r == HandleHello(h, m, failure)
         IN /\ Posts(h, r, {"authenticating"}) /\ r.f.sess \in {"none", "hello"}
            /\ \/ r.toB = h.toB
               \/ \E x \in Rec : /\ r.toB = Append(h.toB, x)
                                 /\ \/ x.type = "unknown_board"
                                    \/ /\ x.type = "hello_ack" /\ r.f.sess = "hello" /\ r.f.sid = m.id
                                       /\ r.f.secret = x.secret
PROOF
<1> DEFINE q == ResetSession(h)
           u == Msg("unknown_board", 0, 0, 0)
           g == [q.f EXCEPT !.sess = "hello", !.sid = m.id, !.secret = h.f.file]
           a == [q EXCEPT !.f = g]
           x == Msg("hello_ack", m.id, h.f.file, 0)
           c == Notify(a, x)
           d == Post(c, "authenticating")
           n == Notify(q, u)
<1>1. Posts(h, q, {}) /\ q.f.sess = "none" /\ q.toB = h.toB /\ q \in FlipRun
  BY ResetSessionForgets DEF Posts
<1>2. HandleHello(h, m, failure) = IF h.f.file = 0 \/ failure = "unreadable" THEN n ELSE d
  <2> HIDE DEF q, u, x
  <2>1. [q EXCEPT !.f.sess = "hello", !.f.sid = m.id, !.f.secret = h.f.file] = a
    BY <1>1 DEF FlipRun
  <2>2. c = Notify([q EXCEPT !.f.sess = "hello", !.f.sid = m.id, !.f.secret = h.f.file], x)
    BY <2>1
  <2> HIDE DEF a, c
  <2> QED BY <2>2 DEF HandleHello, q, u, x
<1>3. h.f \in FlipState /\ q.f \in FlipState
  BY <1>1 DEF FlipRun
<1> HIDE DEF q
<1>4. CASE h.f.file = 0 \/ failure = "unreadable"
  <2>1. u \in Rec /\ u.type = "unknown_board"
    BY Kinds DEF Msg, Rec, Types
  <2> HIDE DEF u
  <2>2. n \in FlipRun /\ n.f = q.f /\ n.lost = q.lost /\ (n.toB = q.toB \/ n.toB = Append(q.toB, u))
    BY <1>1, <2>1, NotifyAppends
  <2> HIDE DEF n
  <2>3. Posts(h, n, {"authenticating"}) /\ n.f.sess = "none"
    BY <1>1, <2>2 DEF Posts
  <2>4. n.toB = h.toB \/ \E y \in Rec : n.toB = Append(h.toB, y) /\ y.type = "unknown_board"
    BY <1>1, <2>1, <2>2
  <2> QED BY <1>2, <1>4, <2>3, <2>4
<1>5. CASE h.f.file # 0 /\ failure # "unreadable"
  <2>1. h.f.file \in Secret /\ m.id \in Sids
    BY <1>3 DEF FlipState, Rec
  <2>2. /\ g \in FlipState /\ g.sess = "hello" /\ g.sid = m.id /\ g.secret = h.f.file
        /\ g.events = q.f.events /\ g.phase = q.f.phase /\ g.known = q.f.known /\ g.file = q.f.file
    BY <1>3, <2>1 DEF FlipState
  <2>3. x \in Rec /\ x.type = "hello_ack" /\ x.secret = h.f.file
    BY <2>1, Kinds DEF Msg, Rec, Types
  <2> HIDE DEF g, x
  <2>4. a \in FlipRun /\ a.f = g /\ a.toB = q.toB /\ a.lost = q.lost
    BY <1>1, <2>2, WithEnd
  <2> HIDE DEF a
  <2>5. c \in FlipRun /\ c.f = a.f /\ c.lost = a.lost /\ (c.toB = a.toB \/ c.toB = Append(a.toB, x))
    BY <2>3, <2>4, NotifyAppends
  <2> HIDE DEF c
  <2>6. Keeps(c, d, {"authenticating"})
    BY <2>5, PostKeeps DEF Events
  <2> HIDE DEF d
  <2>7. Posts(h, d, {"authenticating"})
    BY <1>1, <2>2, <2>4, <2>5, <2>6 DEF Keeps, Posts
  <2>8. /\ d.f.sess = "hello" /\ d.f.sid = m.id /\ d.f.secret = x.secret
        /\ d.toB = h.toB \/ d.toB = Append(h.toB, x)
    BY <1>1, <2>2, <2>3, <2>4, <2>5, <2>6 DEF Keeps, SameEnd
  <2>9. d.toB = h.toB
        \/ \E y \in Rec : /\ d.toB = Append(h.toB, y)
                          /\ y.type = "hello_ack" /\ d.f.sess = "hello" /\ d.f.sid = m.id
                          /\ d.f.secret = y.secret
    BY <2>3, <2>8
  <2> QED BY <1>2, <1>5, <2>7, <2>8, <2>9
<1> QED BY <1>4, <1>5

\* One such handler behind the other.
LEMMA PostsOn ==
  ASSUME NEW h, NEW q, NEW r, NEW E, NEW F, Posts(h, q, E), Posts(q, r, F), E \subseteq Mild, F \subseteq Mild
  PROVE  Posts(h, r, Mild)
PROOF BY DEF Posts

\* handle_client_auth.
LEMMA HandleClientAuthJoins ==
  ASSUME NEW h \in FlipRun, NEW m \in Rec
  PROVE  LET r == HandleClientAuth(h, m)
         IN /\ Posts(h, r, Mild)
            /\ \/ Passes(h.f, r.f, m, h.toB, r.toB)
               \/ Refuses(h.f, r.f, m, h.toB, r.toB)
               \/ Accepts(h.f, r.f, m, h.toB, r.toB)
PROOF
<1> DEFINE p == Post(h, "failed")
           q == ResetSession(p)
           e == Post(q, "fatal")
           g == [h.f EXCEPT !.sess = "active", !.key = h.f.secret, !.secret = 0, !.out = 1, !.in = 1]
           a == [h EXCEPT !.f = g]
           c == Post(a, "active")
           d == Bootstrap(c)
           k == QueryStatus(d)
<1>1. h.f \in FlipState
  BY DEF FlipRun
<1>3. [h EXCEPT !.f.sess = "active", !.f.key = h.f.secret, !.f.secret = 0, !.f.out = 1, !.f.in = 1]
        = a
  BY DEF FlipRun
<1>4. HandleClientAuth(h, m) = IF h.f.sess # "hello" \/ m.id # h.f.sid THEN h
                               ELSE IF m.secret # h.f.secret THEN e
                               ELSE k
  BY <1>3 DEF HandleClientAuth
<1>m. {"failed"} \subseteq Mild /\ {"fatal"} \subseteq Mild /\ {"active"} \subseteq Mild
      /\ {"capability"} \subseteq Mild /\ {} \subseteq Mild /\ Mild \subseteq Mild
  BY DEF Mild, Events
<1>5. CASE h.f.sess # "hello" \/ m.id # h.f.sid
  <2>1. Posts(h, h, Mild)
    BY DEF Posts
  <2>2. Passes(h.f, h.f, m, h.toB, h.toB)
    BY <1>5 DEF Passes
  <2> QED BY <1>4, <1>5, <2>1, <2>2
<1>6. CASE ~ (h.f.sess # "hello" \/ m.id # h.f.sid) /\ m.secret # h.f.secret
  <2>1. Keeps(h, p, {"failed"})
    BY PostKeeps DEF Events
  <2> HIDE DEF p
  <2>2. p \in FlipRun
    BY <2>1 DEF Keeps, Posts
  <2>3. Posts(p, q, {}) /\ q.f.sess = "none" /\ q.toB = p.toB
    BY <2>2, ResetSessionForgets
  <2> HIDE DEF q
  <2>4. q \in FlipRun
    BY <2>3 DEF Posts
  <2>5. Keeps(q, e, {"fatal"})
    BY <2>4, PostKeeps DEF Events
  <2> HIDE DEF e
  <2>6. Posts(h, p, {"failed"}) /\ Posts(q, e, {"fatal"})
    BY <2>1, <2>5 DEF Keeps
  <2>7. Posts(h, q, Mild)
    BY <1>m, <2>3, <2>6, PostsOn
  <2>8. Posts(h, e, Mild)
    BY <1>m, <2>6, <2>7, PostsOn
  <2>9. Refuses(h.f, e.f, m, h.toB, e.toB)
    BY <1>6, <2>1, <2>3, <2>5 DEF Keeps, SameEnd, Refuses
  <2> QED BY <1>4, <1>6, <2>8, <2>9
<1>7. CASE ~ (h.f.sess # "hello" \/ m.id # h.f.sid) /\ m.secret = h.f.secret
  <2>1. /\ g \in FlipState /\ g.sess = "active" /\ g.sid = h.f.sid /\ g.key = h.f.secret
        /\ g.in = 1 /\ g.out = 1 /\ g.events = h.f.events /\ g.phase = h.f.phase
        /\ g.known = h.f.known /\ g.file = h.f.file
    BY <1>1, Kinds DEF FlipState
  <2> HIDE DEF g
  <2>2. a \in FlipRun /\ a.f = g /\ a.toB = h.toB /\ a.lost = h.lost
    BY <2>1, WithEnd
  <2> HIDE DEF a
  <2>3. Keeps(a, c, {"active"})
    BY <2>2, PostKeeps DEF Events
  <2> HIDE DEF c
  <2>4. c \in FlipRun
    BY <2>3 DEF Keeps, Posts
  <2>5. Speaks(c, d)
    BY <2>4, BootstrapSpeaks
  <2> HIDE DEF d
  <2>6. d \in FlipRun
    BY <2>5 DEF Speaks, Posts
  <2>7. Speaks(d, k)
    BY <2>6, QueryStatusSpeaks
  <2> HIDE DEF k
  <2>8. Posts(h, k, Mild)
    <3>1. Posts(h, a, {})
      BY <2>1, <2>2 DEF Posts
    <3>2. Posts(a, c, {"active"}) /\ Posts(c, d, {"capability"}) /\ Posts(d, k, {"capability"})
      BY <2>3, <2>5, <2>7 DEF Keeps, Speaks
    <3>3. Posts(h, c, Mild)
      BY <1>m, <3>1, <3>2, PostsOn
    <3>4. Posts(h, d, Mild)
      BY <1>m, <3>2, <3>3, PostsOn
    <3> QED BY <1>m, <3>2, <3>4, PostsOn
  <2>9. k.f.sess = "active" /\ k.f.sid = h.f.sid /\ k.f.key = m.secret /\ k.f.in = 1
    BY <1>7, <2>1, <2>2, <2>3, <2>5, <2>7 DEF Keeps, Speaks, SameEnd
  <2>10. ASSUME Acks(h.toB)  PROVE  Streaming(k.toB, k.f.out)
    <3>1. Streaming(h.toB, 1)
      <4>1. Ack.type = "ack"
        BY DEF Ack, Msg
      <4>2. h.toB \in Seq(Rec)
        BY DEF FlipRun
      <4>3. DOMAIN h.toB = 1 .. Len(h.toB)
        BY <4>2, RecordsAt
      <4>4. \A i \in 1 .. Len(h.toB) : h.toB[i].type = "ack"
        BY <2>10, <4>1 DEF Acks
      <4>5. Numbered(h.toB) = {}
        BY <4>3, <4>4 DEF Numbered
      <4> QED BY <4>4, <4>5 DEF Streaming, Rising
    <3>2. Streaming(c.toB, c.f.out)
      BY <2>1, <2>2, <2>3, <3>1 DEF Keeps
    <3> QED BY <2>5, <2>7, <3>2 DEF Speaks
  <2>11. Accepts(h.f, k.f, m, h.toB, k.toB)
    BY <1>7, <2>9, <2>10 DEF Accepts
  <2> QED BY <1>4, <1>7, <2>8, <2>11
<1> QED BY <1>5, <1>6, <1>7

\* profile_event_handler's last branch.
LEMMA HandleProtectedAdvances ==
  ASSUME NEW h \in FlipRun, NEW m \in Rec
  PROVE  LET r == HandleProtected(h, m)
         IN /\ Posts(h, r, Mild) /\ r.toB = h.toB
            /\ Ignores(h.f, r.f) \/ Rejects(h.f, r.f, m) \/ Advances(h.f, r.f, m)
PROOF
<1> DEFINE n == h.f.in + 1
           g == [h.f EXCEPT !.in = n]
           a == [h EXCEPT !.f = g]
           q == ResetSession(h)
           e == Post(q, "fatal")
           k == [g EXCEPT !.cached = TRUE]
           c == [h EXCEPT !.f = k]
           d == Post(c, "capability")
<1>1. h.f \in FlipState
  BY DEF FlipRun
<1>m. {"fatal"} \subseteq Mild /\ {"capability"} \subseteq Mild /\ {} \subseteq Mild
  BY DEF Mild, Events
<1>2. CASE h.f.sess # "active"
  <2>1. HandleProtected(h, m) = h
    BY <1>2 DEF HandleProtected
  <2>2. Posts(h, h, Mild) /\ Ignores(h.f, h.f)
    BY <1>2 DEF Posts, Ignores
  <2> QED BY <2>1, <2>2
<1>3. CASE h.f.sess = "active" /\ ~ Authentic(m, h.f.sid, h.f.key, h.f.in)
  <2>1. Posts(h, q, {}) /\ q.f.sess = "none" /\ q.toB = h.toB
    BY ResetSessionForgets
  <2>2. HandleProtected(h, m) = e
    BY <1>3 DEF HandleProtected
  <2> HIDE DEF q
  <2>3. Keeps(q, e, {"fatal"})
    BY <2>1, PostKeeps DEF Events, Posts
  <2> HIDE DEF e
  <2>4. Posts(h, e, Mild)
    BY <1>m, <2>1, <2>3, PostsOn DEF Keeps
  <2>5. Rejects(h.f, e.f, m) /\ e.toB = h.toB
    BY <1>3, <2>1, <2>3 DEF Keeps, SameEnd, Rejects
  <2> QED BY <2>2, <2>4, <2>5
<1>4. CASE h.f.sess = "active" /\ Authentic(m, h.f.sid, h.f.key, h.f.in)
  <2>1. n \in Counts /\ m.seq = h.f.in
    <3>1. h.f.in \in Counts /\ h.f.in = m.seq /\ m.seq < SequenceMax
      BY <1>1, <1>4 DEF FlipState, Authentic
    <3> QED BY <3>1, Kinds, SessionAssumption DEF Counts
  <2>2. [h EXCEPT !.f.in = @ + 1] = a
    BY DEF FlipRun
  <2>3. [a EXCEPT !.f.cached = TRUE] = c
    BY DEF FlipRun
  <2>4. HandleProtected(h, m) = IF m.type = "capability" THEN d ELSE a
    <3> DEFINE t == [h EXCEPT !.f.in = @ + 1]
    <3>1. HandleProtected(h, m)
            = IF m.type = "capability" THEN Post([t EXCEPT !.f.cached = TRUE], "capability") ELSE t
      BY <1>4 DEF HandleProtected
    <3>2. t = a
      BY <2>2
    <3> HIDE DEF t, a, c
    <3> QED BY <2>3, <3>1, <3>2
  <2>n. n = h.f.in + 1
    OBVIOUS
  <2> HIDE DEF n
  <2>5. /\ g \in FlipState /\ g.sess = h.f.sess /\ g.sid = h.f.sid /\ g.key = h.f.key /\ g.in = n
        /\ g.out = h.f.out /\ g.events = h.f.events /\ g.phase = h.f.phase /\ g.known = h.f.known
        /\ g.file = h.f.file
    BY <1>1, <2>1 DEF FlipState
  <2> HIDE DEF g
  <2>6. /\ k \in FlipState /\ k.sess = h.f.sess /\ k.sid = h.f.sid /\ k.key = h.f.key /\ k.in = n
        /\ k.out = h.f.out /\ k.events = h.f.events /\ k.phase = h.f.phase /\ k.known = h.f.known
        /\ k.file = h.f.file
    BY <2>5 DEF FlipState
  <2> HIDE DEF k
  <2>7. a \in FlipRun /\ a.f = g /\ a.toB = h.toB /\ a.lost = h.lost
    BY <2>5, WithEnd
  <2>8. c \in FlipRun /\ c.f = k /\ c.toB = h.toB /\ c.lost = h.lost
    BY <2>6, WithEnd
  <2> HIDE DEF c, a
  <2>9. Keeps(c, d, {"capability"})
    BY <2>8, PostKeeps DEF Events
  <2> HIDE DEF d
  <2>10. Posts(h, a, Mild) /\ Posts(h, d, Mild)
    <3>1. Posts(h, a, Mild) /\ Posts(h, c, {})
      BY <2>5, <2>6, <2>7, <2>8 DEF Posts
    <3> QED BY <1>m, <2>9, <3>1, PostsOn DEF Keeps
  <2>11. Advances(h.f, a.f, m) /\ Advances(h.f, d.f, m) /\ a.toB = h.toB /\ d.toB = h.toB
    BY <2>1, <2>5, <2>6, <2>7, <2>8, <2>9, <2>n DEF Keeps, SameEnd, Advances
  <2> QED BY <2>4, <2>10, <2>11
<1> QED BY <1>2, <1>3, <1>4

-----------------------------------------------------------------------------
(* The records on their way to the Flipper: those its worker has yet to    *)
(* handle, and behind them those in the air.                               *)

\* Two queues, one behind the other.
LEMMA BehindAt ==
  ASSUME NEW s \in Seq(Rec), NEW t \in Seq(Rec)
  PROVE  /\ s \o t \in Seq(Rec) /\ Len(s \o t) = Len(s) + Len(t)
         /\ Len(s) \in Nat /\ Len(t) \in Nat
         /\ \A i \in 1 .. Len(s) + Len(t) : i <= Len(s) => (s \o t)[i] = s[i]
         /\ \A i \in 1 .. Len(s) + Len(t) : i > Len(s) => (s \o t)[i] = t[i - Len(s)]
PROOF
<1>1. Len(s) \in Nat /\ Len(t) \in Nat
  BY LenProperties
<1>2. /\ s \o t \in Seq(Rec) /\ Len(s \o t) = Len(s) + Len(t)
      /\ \A i \in 1 .. Len(s) + Len(t) : (s \o t)[i] = IF i <= Len(s) THEN s[i] ELSE t[i - Len(s)]
  BY ConcatProperties
<1> QED BY <1>1, <1>2

\* Nothing behind it.
LEMMA NothingBehind ==
  ASSUME NEW s \in Seq(Rec)
  PROVE  s \o << >> = s
PROOF BY ConcatEmptySeq

\* A record written.
LEMMA QueuesAppend ==
  ASSUME NEW s \in Seq(Rec), NEW t \in Seq(Rec), NEW e \in Rec
  PROVE  s \o Append(t, e) = Append(s \o t, e)
PROOF
<1> DEFINE one == <<e>>
<1>1. one \in Seq(Rec)
  OBVIOUS
<1>2. Append(t, e) = t \o one /\ s \o t \in Seq(Rec) /\ Append(s \o t, e) = (s \o t) \o one
  BY AppendIsConcat, BehindAt
<1> HIDE DEF one
<1>3. (s \o t) \o one = s \o (t \o one)
  BY <1>1, ConcatAssociative
<1> QED BY <1>2, <1>3

\* A record delivered.
LEMMA QueuesPass ==
  ASSUME NEW s \in Seq(Rec), NEW t \in Seq(Rec), t # << >>
  PROVE  Append(s, Head(t)) \o Tail(t) = s \o t
PROOF
<1>1. PICK e \in Rec, u \in Seq(Rec) : /\ e = t[1] /\ e = Head(t) /\ u = Tail(t) /\ Len(t) = Len(u) + 1
                                       /\ \A i \in 1 .. Len(u) : u[i] = t[i + 1]
  <2>1. /\ Tail(t) \in Seq(Rec) /\ Len(t) >= 1 /\ Len(Tail(t)) = Len(t) - 1 /\ Head(t) = t[1]
        /\ \A i \in 1 .. Len(Tail(t)) : Tail(t)[i] = t[i + 1]
    BY TailAt
  <2>2. Head(t) \in Rec
    BY HeadTailProperties
  <2>3. Len(t) \in Nat
    BY LenProperties
  <2>4. Len(t) = Len(Tail(t)) + 1
    BY <2>1, <2>3
  <2> QED BY <2>1, <2>2, <2>4
<1>2. PICK x \in Seq(Rec) : /\ x = Append(s, e) /\ Len(x) = Len(s) + 1 /\ x[Len(s) + 1] = e
                            /\ \A i \in 1 .. Len(s) : x[i] = s[i]
  BY AppendAt
<1>3. /\ x \o u \in Seq(Rec) /\ Len(x \o u) = Len(x) + Len(u)
      /\ Len(x) \in Nat /\ Len(u) \in Nat
      /\ \A i \in 1 .. Len(x) + Len(u) : i <= Len(x) => (x \o u)[i] = x[i]
      /\ \A i \in 1 .. Len(x) + Len(u) : i > Len(x) => (x \o u)[i] = u[i - Len(x)]
  BY BehindAt
<1>4. /\ s \o t \in Seq(Rec) /\ Len(s \o t) = Len(s) + Len(t)
      /\ Len(s) \in Nat /\ Len(t) \in Nat
      /\ \A i \in 1 .. Len(s) + Len(t) : i <= Len(s) => (s \o t)[i] = s[i]
      /\ \A i \in 1 .. Len(s) + Len(t) : i > Len(s) => (s \o t)[i] = t[i - Len(s)]
  BY BehindAt
<1>5. Len(x \o u) = Len(s \o t)
  BY <1>1, <1>2, <1>3, <1>4
<1>6. ASSUME NEW i \in 1 .. Len(x \o u)  PROVE  (x \o u)[i] = (s \o t)[i]
  <2>1. i \in 1 .. Len(s) + Len(t) /\ i \in 1 .. Len(x) + Len(u) /\ i \in Nat
    BY <1>1, <1>2, <1>3, <1>4
  <2>2. CASE i <= Len(s)
    <3>1. i <= Len(x) /\ i \in 1 .. Len(s)
      BY <1>2, <1>4, <2>1, <2>2
    <3> QED BY <1>2, <1>3, <1>4, <2>1, <2>2, <3>1
  <2>3. CASE i = Len(s) + 1
    <3>1. i <= Len(x) /\ i > Len(s) /\ i - Len(s) = 1
      BY <1>2, <1>4, <2>1, <2>3
    <3>2. (x \o u)[i] = x[i] /\ (s \o t)[i] = t[1]
      BY <1>3, <1>4, <2>1, <3>1
    <3> QED BY <1>1, <1>2, <2>3, <3>2
  <2>4. CASE i > Len(s) + 1
    <3>1. /\ i > Len(x) /\ i > Len(s) /\ i - Len(x) \in 1 .. Len(u) /\ (i - Len(x)) + 1 = i - Len(s)
      BY <1>1, <1>2, <1>3, <1>4, <2>1, <2>4
    <3>2. (x \o u)[i] = u[i - Len(x)] /\ (s \o t)[i] = t[i - Len(s)]
      BY <1>3, <1>4, <2>1, <3>1
    <3>3. u[i - Len(x)] = t[(i - Len(x)) + 1]
      BY <1>1, <3>1
    <3> QED BY <3>1, <3>2, <3>3
  <2> QED BY <1>4, <2>1, <2>2, <2>3, <2>4
<1>7. x \o u = s \o t
  BY <1>3, <1>4, <1>5, <1>6, SeqEqual
<1> QED BY <1>1, <1>2, <1>7

\* A record handled.
LEMMA QueuesTake ==
  ASSUME NEW s \in Seq(Rec), NEW t \in Seq(Rec), s # << >>
  PROVE  s \o t # << >> /\ (s \o t)[1] = Head(s) /\ Tail(s) \o t = Tail(s \o t)
PROOF
<1>1. PICK u \in Seq(Rec) : /\ u = Tail(s) /\ Len(s) = Len(u) + 1 /\ Head(s) = s[1]
                            /\ \A i \in 1 .. Len(u) : u[i] = s[i + 1]
  <2>1. /\ Tail(s) \in Seq(Rec) /\ Len(s) >= 1 /\ Len(Tail(s)) = Len(s) - 1 /\ Head(s) = s[1]
        /\ \A i \in 1 .. Len(Tail(s)) : Tail(s)[i] = s[i + 1]
    BY TailAt
  <2>2. Len(s) \in Nat
    BY LenProperties
  <2>3. Len(s) = Len(Tail(s)) + 1
    BY <2>1, <2>2
  <2> QED BY <2>1, <2>3
<1>2. PICK o \in Seq(Rec) : /\ o = s \o t /\ Len(o) = Len(s) + Len(t)
      /\ Len(s) \in Nat /\ Len(t) \in Nat
      /\ \A i \in 1 .. Len(s) + Len(t) : i <= Len(s) => o[i] = s[i]
      /\ \A j \in 1 .. Len(s) + Len(t) : j > Len(s) => o[j] = t[j - Len(s)]
  <2>1. /\ s \o t \in Seq(Rec) /\ Len(s \o t) = Len(s) + Len(t)
        /\ Len(s) \in Nat /\ Len(t) \in Nat
        /\ \A i \in 1 .. Len(s) + Len(t) : i <= Len(s) => (s \o t)[i] = s[i]
        /\ \A j \in 1 .. Len(s) + Len(t) : j > Len(s) => (s \o t)[j] = t[j - Len(s)]
    BY BehindAt
  <2> QED BY <2>1
<1>3. /\ u \o t \in Seq(Rec) /\ Len(u \o t) = Len(u) + Len(t) /\ Len(u) \in Nat
      /\ \A i \in 1 .. Len(u) + Len(t) : i <= Len(u) => (u \o t)[i] = u[i]
      /\ \A i \in 1 .. Len(u) + Len(t) : i > Len(u) => (u \o t)[i] = t[i - Len(u)]
  BY BehindAt
<1>4. o # << >> /\ o[1] = Head(s)
  <2>1. Len(o) >= 1 /\ 1 \in 1 .. Len(s) + Len(t) /\ 1 <= Len(s)
    BY <1>1, <1>2, <1>3
  <2> QED BY <1>1, <1>2, <2>1, EmptySeq
<1>5. PICK p \in Seq(Rec) : /\ p = Tail(o) /\ Len(p) = Len(o) - 1
                            /\ \A i \in 1 .. Len(p) : p[i] = o[i + 1]
  BY <1>4, TailAt
<1>6. Len(u \o t) = Len(p)
  BY <1>1, <1>2, <1>3, <1>5
<1>7. ASSUME NEW i \in 1 .. Len(u \o t)  PROVE  (u \o t)[i] = p[i]
  <2>1. /\ i \in 1 .. Len(p) /\ i \in 1 .. Len(u) + Len(t) /\ i + 1 \in 1 .. Len(s) + Len(t) /\ i \in Nat
        /\ i <= Len(u) \/ i > Len(u)
    BY <1>1, <1>2, <1>3, <1>6
  <2>2. CASE i <= Len(u)
    <3>1. i + 1 <= Len(s) /\ i \in 1 .. Len(u)
      BY <1>1, <1>3, <2>1, <2>2
    <3>2. (u \o t)[i] = u[i] /\ p[i] = o[i + 1] /\ o[i + 1] = s[i + 1] /\ u[i] = s[i + 1]
      BY <1>1, <1>2, <1>3, <1>5, <2>1, <2>2, <3>1
    <3> QED BY <3>2
  <2>3. CASE i > Len(u)
    <3>1. i + 1 > Len(s) /\ (i + 1) - Len(s) = i - Len(u)
      BY <1>1, <1>3, <2>1, <2>3
    <3>2. (u \o t)[i] = t[i - Len(u)] /\ p[i] = o[i + 1] /\ o[i + 1] = t[(i + 1) - Len(s)]
      BY <1>1, <1>2, <1>3, <1>5, <2>1, <2>3, <3>1
    <3> QED BY <3>1, <3>2
  <2> QED BY <2>1, <2>2, <2>3
<1>8. u \o t = p
  BY <1>3, <1>5, <1>6, <1>7, SeqEqual
<1> QED BY <1>1, <1>2, <1>4, <1>5, <1>8

\* Records lost: the first of those in the air, all of them, or none.
LEMMA QueuesThin ==
  ASSUME NEW s \in Seq(Rec), NEW t \in Seq(Rec)
  PROVE  /\ Thinned(s, s \o t, Len(s) + 1) /\ Len(s) + 1 \in Nat /\ Len(s) + 1 >= 1
         /\ t # << >> => Thinned(s \o Tail(t), s \o t, Len(s) + 1) /\ s \o Tail(t) \in Seq(Rec)
PROOF
<1>1. PICK o \in Seq(Rec) : /\ o = s \o t /\ Len(o) = Len(s) + Len(t)
      /\ Len(s) \in Nat /\ Len(t) \in Nat
      /\ \A i \in 1 .. Len(s) + Len(t) : i <= Len(s) => o[i] = s[i]
      /\ \A j \in 1 .. Len(s) + Len(t) : j > Len(s) => o[j] = t[j - Len(s)]
  BY BehindAt
<1>2. PICK k \in Nat : k = Len(s) + 1
  BY <1>1
<1>3. Thinned(s, o, k)
  <2> SUFFICES ASSUME NEW i \in 1 .. Len(s)
               PROVE  i < k /\ ~ i >= k /\ i <= Len(o) /\ s[i] = o[i]
    BY DEF Thinned
  <2>1. i \in 1 .. Len(s) + Len(t) /\ i <= Len(s) /\ i < k /\ ~ i >= k /\ i <= Len(o)
    BY <1>1, <1>2
  <2> QED BY <1>1, <2>1
<1>4. ASSUME t # << >>  PROVE  Thinned(s \o Tail(t), o, k) /\ s \o Tail(t) \in Seq(Rec)
  <2>1. PICK u \in Seq(Rec) : /\ u = Tail(t) /\ Len(u) = Len(t) - 1
                              /\ \A i \in 1 .. Len(u) : u[i] = t[i + 1]
    BY <1>4, TailAt
  <2>2. PICK p \in Seq(Rec) : /\ p = s \o u /\ Len(p) = Len(s) + Len(u) /\ Len(u) \in Nat
        /\ \A i \in 1 .. Len(s) + Len(u) : i <= Len(s) => p[i] = s[i]
        /\ \A j \in 1 .. Len(s) + Len(u) : j > Len(s) => p[j] = u[j - Len(s)]
    <3>1. /\ s \o u \in Seq(Rec) /\ Len(s \o u) = Len(s) + Len(u)
          /\ Len(s) \in Nat /\ Len(u) \in Nat
          /\ \A i \in 1 .. Len(s) + Len(u) : i <= Len(s) => (s \o u)[i] = s[i]
          /\ \A i \in 1 .. Len(s) + Len(u) : i > Len(s) => (s \o u)[i] = u[i - Len(s)]
      BY BehindAt
    <3> QED BY <3>1
  <2>3. Thinned(p, o, k)
    <3> SUFFICES ASSUME NEW i \in 1 .. Len(p)
                 PROVE  /\ i < k => i <= Len(o) /\ p[i] = o[i]
                        /\ i >= k => i + 1 <= Len(o) /\ p[i] = o[i + 1]
      BY DEF Thinned
    <3>1. /\ i \in 1 .. Len(s) + Len(u) /\ i \in 1 .. Len(s) + Len(t) /\ i + 1 \in 1 .. Len(s) + Len(t)
          /\ i \in Nat
      BY <1>1, <2>1, <2>2
    <3>2. CASE i < k
      <4>1. i <= Len(s) /\ ~ i >= k /\ i <= Len(o)
        BY <1>1, <1>2, <3>1, <3>2
      <4>2. p[i] = s[i] /\ o[i] = s[i]
        BY <1>1, <2>2, <3>1, <4>1
      <4> QED BY <4>1, <4>2
    <3>3. CASE i >= k
      <4>1. /\ i > Len(s) /\ i + 1 > Len(s) /\ ~ i < k /\ i + 1 <= Len(o)
            /\ i - Len(s) \in 1 .. Len(u) /\ (i - Len(s)) + 1 = (i + 1) - Len(s)
        BY SMTT(20), <1>1, <1>2, <2>1, <2>2, <3>1, <3>3
      <4>2. p[i] = u[i - Len(s)]
        BY ONLY <2>2, <3>1, <4>1
      <4>4. o[i + 1] = t[(i + 1) - Len(s)]
        BY ONLY <1>1, <3>1, <4>1
      <4>3. u[i - Len(s)] = t[(i - Len(s)) + 1]
        BY <2>1, <4>1
      <4> QED BY <4>1, <4>2, <4>3, <4>4
    <3> QED BY <1>2, <3>1, <3>2, <3>3
  <2> QED BY <2>1, <2>2, <2>3
<1> QED BY <1>1, <1>2, <1>3, <1>4

-----------------------------------------------------------------------------
(* The invariant of the dialogue, and that of the connection before it.    *)

DialogueInv ==
  board.mode = "runtime" /\ board.conn = "up" =>
    Dialogue(board, flip, inbox \o toF, toB, link = "up", link = "up" /\ ~ closing)

\* Until the dialogue begins nothing is under way, and the Flipper's main thread forgets what it
\* believed of the last session.
ConnectingInv ==
  link = "up" /\ board.conn = "connecting" =>
    /\ inbox = << >> /\ toF = << >> /\ toB = << >> /\ ~ closing
    /\ flip.events = << >> \/ flip.events = <<"connected">>
    /\ flip.events = << >> => flip.phase # "active"

\* A turn of the Flipper's main thread, for the session.
LEMMA MainTurns ==
  ASSUME SessionInv, MainHandles
  PROVE  /\ flip.events # << >> /\ flip'.events = Tail(flip.events) /\ flip' \in FlipState
         /\ UNCHANGED <<board, link, toF, inbox, toB>> /\ closing' \in BOOLEAN /\ (closing => closing')
         /\ Head(flip.events) # "fatal" => closing' = closing
         /\ Head(flip.events) \notin {"connected", "advertising"} =>
              /\ SameEnd(flip, flip') /\ flip'.out = flip.out
              /\ flip'.phase = "active" => flip.phase = "active" \/ Head(flip.events) = "active"
         /\ Head(flip.events) = "connected" => flip'.phase = "exchanging"
         /\ \/ flip'.sess = "none"
            \/ SameEnd(flip, flip') /\ flip'.out = flip.out
PROOF
<1> DEFINE event == Head(flip.events)
           rest == Tail(flip.events)
           f == [flip EXCEPT !.events = rest]
           h == [OnFlipper(FALSE) EXCEPT !.f = f]
           p == [f EXCEPT !.stage = "none", !.pair = 0]
           q == [p EXCEPT !.sess = "none", !.sid = 0, !.secret = 0, !.key = 0, !.out = 0, !.in = 0]
<1>1. /\ flip.events # << >>
      /\ flip' = LET reset == ResetSession(ResetPairing(h)).f
                 IN CASE event = "connected" -> [reset EXCEPT !.phase = "exchanging"]
                      [] event = "advertising" ->
                           IF flip.phase = "done" THEN f ELSE [reset EXCEPT !.phase = "waiting"]
                      [] event = "fatal" -> [f EXCEPT !.phase = "failed"]
                      [] event = "capability" -> [f EXCEPT !.known = TRUE]
                      [] OTHER -> [f EXCEPT !.phase = event]
      /\ closing' = (closing \/ (event = "fatal" /\ link = "up"))
      /\ UNCHANGED <<board, link, toF, inbox, toB>>
  BY DEF MainHandles
<1>2. flip \in FlipState /\ closing \in BOOLEAN
  BY DEF SessionInv, TypeInv
<1>3. event \in Events /\ rest \in Queue
  <2>1. flip.events \in Seq(Events) /\ Len(flip.events) <= EventCap /\ Len(flip.events) \in Nat
    BY <1>2, LenProperties DEF FlipState, Queue
  <2>2. rest \in Seq(Events) /\ Len(rest) = Len(flip.events) - 1 /\ event \in Events
    BY <1>1, <2>1, HeadTailProperties
  <2> QED BY <2>1, <2>2, SessionAssumption DEF Queue
<1>0. closing' \in BOOLEAN /\ (closing => closing') /\ (event # "fatal" => closing' = closing)
  BY <1>1, <1>2
<1>00. PICK e \in Events : e = event
  BY <1>3
<1> HIDE DEF rest, event
<1>4. /\ f \in FlipState /\ f.events = rest /\ SameEnd(flip, f) /\ f.out = flip.out
      /\ f.phase = flip.phase
  BY <1>2, <1>3 DEF FlipState, SameEnd
<1> HIDE DEF f
<1>5. h.f = f /\ ResetPairing(h).f = p /\ ResetSession(ResetPairing(h)).f = q
  BY <1>4 DEF OnFlipper, ResetPairing, ResetSession
<1>6. p \in FlipState /\ p.events = rest
  BY <1>4, Kinds DEF FlipState
<1> HIDE DEF p
<1>7. q \in FlipState /\ q.events = rest /\ q.sess = "none"
  BY <1>6, Kinds DEF FlipState
<1> HIDE DEF q, h
<1>8. flip' = CASE event = "connected" -> [q EXCEPT !.phase = "exchanging"]
                [] event = "advertising" ->
                     IF flip.phase = "done" THEN f ELSE [q EXCEPT !.phase = "waiting"]
                [] event = "fatal" -> [f EXCEPT !.phase = "failed"]
                [] event = "capability" -> [f EXCEPT !.known = TRUE]
                [] OTHER -> [f EXCEPT !.phase = event]
  BY <1>1, <1>5
<1>9. \A x \in Phases :
        /\ [q EXCEPT !.phase = x] \in FlipState /\ [q EXCEPT !.phase = x].events = rest
        /\ [q EXCEPT !.phase = x].sess = "none" /\ [q EXCEPT !.phase = x].phase = x
  BY <1>7 DEF FlipState
<1>10. \A x \in Phases :
         /\ [f EXCEPT !.phase = x] \in FlipState /\ [f EXCEPT !.phase = x].events = rest
         /\ SameEnd(flip, [f EXCEPT !.phase = x]) /\ [f EXCEPT !.phase = x].out = flip.out
         /\ [f EXCEPT !.phase = x].phase = x
  BY <1>4 DEF FlipState, SameEnd
<1>11. /\ [f EXCEPT !.known = TRUE] \in FlipState /\ [f EXCEPT !.known = TRUE].events = rest
       /\ SameEnd(flip, [f EXCEPT !.known = TRUE]) /\ [f EXCEPT !.known = TRUE].out = flip.out
       /\ [f EXCEPT !.known = TRUE].phase = flip.phase
  BY <1>4 DEF FlipState, SameEnd
<1>12. /\ flip' \in FlipState /\ flip'.events = rest
       /\ event \notin {"connected", "advertising"} =>
            /\ SameEnd(flip, flip') /\ flip'.out = flip.out
            /\ flip'.phase = "active" => flip.phase = "active" \/ event = "active"
       /\ event = "connected" => flip'.phase = "exchanging"
       /\ \/ flip'.sess = "none"
          \/ SameEnd(flip, flip') /\ flip'.out = flip.out
  <2> HIDE DEF FlipState, SameEnd
  <2>1. CASE event = "connected"
    <3>1. flip' = [q EXCEPT !.phase = "exchanging"]
      BY <1>8, <2>1
    <3> QED BY <1>9, <2>1, <3>1 DEF Phases
  <2>2. CASE event = "advertising"
    <3>1. flip' = IF flip.phase = "done" THEN f ELSE [q EXCEPT !.phase = "waiting"]
      BY <1>8, <2>2
    <3> QED BY <1>4, <1>9, <2>2, <3>1 DEF Phases
  <2>3. CASE event = "fatal"
    <3>1. flip' = [f EXCEPT !.phase = "failed"]
      BY <1>8, <2>3
    <3> QED BY <1>10, <2>3, <3>1 DEF Phases
  <2>4. CASE event = "capability"
    <3>1. flip' = [f EXCEPT !.known = TRUE]
      BY <1>8, <2>4
    <3> QED BY <1>11, <2>4, <3>1
  <2>5. CASE event \notin {"connected", "advertising", "fatal", "capability"}
    <3>1. flip' = [f EXCEPT !.phase = event]
      BY <1>8, <2>5
    <3>2. event \in Phases
      BY <1>3, <2>5 DEF Events, Phases
    <3> QED BY <1>10, <2>5, <3>1, <3>2
  <2> QED BY <2>1, <2>2, <2>3, <2>4, <2>5
<1> QED BY <1>0, <1>1, <1>12 DEF event, rest

\* The Flipper's side of a connection that begins.
LEMMA ConnectTells ==
  ASSUME SessionInv, Connect, ~ LateReset
  PROVE  flip'.events = <<"connected">>
PROOF
<1> DEFINE h == OnFlipper(FALSE)
           r == Post(h, "connected")
<1>1. flip \in FlipState /\ flip.events = << >>
  BY DEF SessionInv, TypeInv, Connect, MainKeepsUp
<1>2. flip' = [r.f EXCEPT !.conn = TRUE]
  BY DEF Connect
<1>3. Len(flip.events) < EventCap
  BY <1>1, SessionAssumption
<1>4. r.f = [flip EXCEPT !.events = Append(flip.events, "connected")]
  BY <1>3 DEF Post, OnFlipper
<1>5. Append(flip.events, "connected") = <<"connected">>
  BY <1>1
<1> HIDE DEF r
<1> QED BY <1>1, <1>2, <1>4, <1>5 DEF FlipState

\* With the services found the connection is up for the ESP32.
LEMMA SubscribedIsUp ==
  ASSUME SessionInv, Subscribed
  PROVE  board'.conn = "up"
PROOF
<1> DEFINE h == OnBoard(FALSE)
           b == [board EXCEPT !.conn = "up"]
           a == [h EXCEPT !.b = b]
           r == IF board.mode = "runtime" THEN BeginAuth(a) ELSE BeginPairing(a)
<1>1. h \in Run /\ h.b = board
  BY RunOfBoard DEF SessionInv
<1>2. board \in BoardState
  BY DEF SessionInv, TypeInv
<1>3. b \in BoardState /\ b.mode = board.mode /\ b.st = board.st /\ b.conn = "up"
  BY <1>2 DEF BoardState, Conns
<1>4. /\ link = "up" /\ board.conn = "connecting" /\ NamesLeft
      /\ BoardReturns(IF board.mode = "runtime" THEN BeginAuth([h EXCEPT !.b.conn = "up"])
                      ELSE BeginPairing([h EXCEPT !.b.conn = "up"]))
  BY DEF Subscribed
<1> HIDE DEF h
<1>5. [h EXCEPT !.b.conn = "up"] = a
  BY <1>1 DEF Run
<1>6. board' = r.b
  BY <1>4, <1>5 DEF BoardReturns
<1> HIDE DEF b
<1>7. a \in Run /\ a.b = b
  BY <1>1, <1>3, WithBoard
<1> HIDE DEF a
<1>8. FreshNames
  <2>1. FreshSecret \in 1 .. NSecrets /\ FreshSession \in 1 .. NSessions
    BY <1>4, NamesAreFresh
  <2> QED BY <2>1, SessionAssumption DEF FreshNames, Secret, Sids
<1>9. board.st = "idle" /\ board.mode \in {"runtime", "pairing"}
  BY <1>2, <1>4 DEF SessionInv, LinkInv, BoardState
<1>10. Quiet(a, r, Ack)
  <2>1. CASE board.mode = "runtime"
    BY <1>3, <1>7, <1>8, <2>1, BeginAuthIsQuiet
  <2>2. CASE board.mode = "pairing"
    BY <1>3, <1>7, <1>8, <1>9, <2>2, BeginPairingIsQuiet
  <2> QED BY <1>9, <2>1, <2>2
<1>11. Turn(a.b, r.b, Ack)
  BY <1>10 DEF Quiet
<1> HIDE DEF r
<1>12. r.b.conn = "up"
  BY <1>3, <1>7, <1>11 DEF Turn
<1> QED BY <1>6, <1>12

\* Outside a dialogue a capture changes the books of the ESP32 alone.
LEMMA CaptureAside ==
  ASSUME SessionInv, Capture, board.st # "authenticated"
  PROVE  UNCHANGED <<closing, toF, toB>>
PROOF
<1>1. PICK busy \in BOOLEAN :
        LET h == [OnBoard(busy) EXCEPT !.b.backlog = @ + 1]
        IN BoardReturns(IF board.st = "authenticated" THEN KickSend(h) ELSE h)
  BY DEF Capture
<1> QED BY <1>1 DEF BoardReturns, OnBoard

\* The commands of the user, for the session.
LEMMA UserTurns ==
  ASSUME SessionInv, UserCommand
  PROVE  /\ flip.phase = "active" /\ flip' \in FlipState
         /\ UNCHANGED <<board, link, closing, toF, inbox>>
         /\ SameEnd(flip, flip') /\ flip'.events = flip.events /\ flip'.phase = flip.phase
         /\ \/ flip'.out = flip.out /\ toB' = toB
            \/ /\ flip'.out = flip.out + 1
               /\ toB' = toB \/ \E m \in Rec : m.type = "command" /\ m.seq = flip.out /\ toB' = Append(toB, m)
         /\ link = "down" => toB' = toB
PROOF
<1> DEFINE h == OnFlipper(FALSE)
           r == NotifyProtected(h, "command")
<1>1. flip' = r.f /\ toB' = r.toB /\ UNCHANGED <<board, link, closing, toF, inbox>> /\ flip.phase = "active"
  BY DEF UserCommand
<1>2. h \in FlipRun /\ h.f = flip /\ h.toB = toB
  BY RunOfFlipper DEF SessionInv
<1> HIDE DEF h
<1>3. /\ Posts(h, r, {}) /\ SameEnd(h.f, r.f) /\ r.f.events = h.f.events
      /\ \/ r.f.out = h.f.out /\ r.toB = h.toB
         \/ /\ r.f.out = h.f.out + 1
            /\ r.toB = h.toB \/ \E m \in Rec : m.type = "command" /\ m.seq = h.f.out /\ r.toB = Append(h.toB, m)
      /\ link = "down" => r.toB = h.toB
  BY <1>2, NotifyProtectedSpeaks
<1> HIDE DEF r
<1>4. r.f \in FlipState /\ r.f.phase = flip.phase
  BY <1>2, <1>3 DEF Posts, FlipRun
<1> QED BY <1>1, <1>2, <1>3, <1>4

\* Steps of the ESP32 never go back to the beginning of a connection.
LEMMA BoardStaysConnected ==
  ASSUME SessionInv, History, BoardReceives \/ WriteError \/ HelloTimeout \/ PairReplyTimeout \/ IdleTimeout
                              \/ Capture,
         board'.conn = "connecting"
  PROVE  board.conn = "connecting"
PROOF
<1>1. (\E m : BoardQuiet(m)) \/ BoardEnded
  BY BoardReceivesIs, WriteErrorIsQuiet, HelloTimeoutIsQuiet, PairReplyTimeoutIsQuiet, IdleTimeoutIsQuiet,
     CaptureIsQuiet
<1>2. ASSUME NEW m, BoardQuiet(m)  PROVE  board.conn = "connecting"
  BY <1>2 DEF BoardQuiet, Turn
<1>3. CASE BoardEnded
  BY <1>3 DEF BoardEnded
<1> QED BY <1>1, <1>2, <1>3

\* Every step keeps to it.
LEMMA StepKeepsConnecting ==
  ASSUME SessionInv, ConnectingInv, [Next]_vars, ~ LateReset
  PROVE  ConnectingInv'
PROOF
<1> SUFFICES ASSUME link' = "up", board'.conn = "connecting"
             PROVE  /\ inbox' = << >> /\ toF' = << >> /\ toB' = << >> /\ ~ closing'
                    /\ flip'.events = << >> \/ flip'.events = <<"connected">>
                    /\ flip'.events = << >> => flip'.phase # "active"
  BY DEF ConnectingInv
<1>1. CASE UNCHANGED vars
  BY <1>1 DEF vars, system, ConnectingInv
<1>2. CASE Connect
  <2>1. link = "down" /\ ~ flip.conn /\ UNCHANGED <<closing, toF, inbox, toB>>
    BY <1>2 DEF Connect
  <2>2. toF = << >> /\ toB = << >> /\ inbox = << >> /\ closing = FALSE
    BY <2>1 DEF SessionInv, LinkInv
  <2>3. flip'.events = <<"connected">>
    BY <1>2, ConnectTells
  <2> QED BY <2>1, <2>2, <2>3
<1>3. CASE Subscribed
  BY <1>3, SubscribedIsUp
<1>4. CASE LinkCloses \/ LinkLost \/ FlipperStops \/ Restart \/ FactoryReset
  BY <1>4 DEF LinkCloses, LinkLost, FlipperStops, Restart, FactoryReset, LinkDown
<1>5. CASE BoardDisconnect
  BY <1>5, BoardDisconnectIs
<1>6. CASE WindowExpires
  <2>1. board.conn = "connecting" /\ UNCHANGED <<flip, link, closing, toF, inbox, toB>>
    <3>1. board \in BoardState /\ board' = [board EXCEPT !.window = FALSE]
      BY <1>6 DEF SessionInv, TypeInv, WindowExpires
    <3>2. board'.conn = board.conn
      BY <3>1 DEF BoardState
    <3> QED BY <1>6, <3>2 DEF WindowExpires
  <2> QED BY <2>1 DEF ConnectingInv
<1>7. CASE /\ History
           /\ BoardReceives \/ WriteError \/ HelloTimeout \/ PairReplyTimeout \/ IdleTimeout \/ Capture
  <2>1. board.conn = "connecting" /\ UNCHANGED <<flip, link, inbox>>
    <3>1. UNCHANGED <<flip, link, inbox>>
      BY <1>7 DEF BoardReceives, WriteError, HelloTimeout, PairReplyTimeout, IdleTimeout, Capture
    <3> QED BY <1>7, <3>1, BoardStaysConnected
  <2>2. /\ inbox = << >> /\ toF = << >> /\ toB = << >> /\ ~ closing
        /\ flip.events = << >> \/ flip.events = <<"connected">>
        /\ flip.events = << >> => flip.phase # "active"
    BY <2>1 DEF ConnectingInv
  <2>3. Capture
    BY <1>7, <2>1, <2>2 DEF BoardReceives, WriteError, HelloTimeout, PairReplyTimeout, IdleTimeout, Overdue
  <2>4. board.st = "idle"
    BY <2>1 DEF SessionInv, LinkInv
  <2>5. UNCHANGED <<closing, toF, toB>>
    BY <2>3, <2>4, CaptureAside
  <2> QED BY <2>1, <2>2, <2>5
<1>8. CASE \/ Delivered \/ FlipperHandles \/ FlipperDisconnect \/ MainHandles \/ UserCommand
           \/ FlipperStart \/ RecordRemoved
  <2>1. board' = board /\ link' = link
    <3>1. board' = board
      BY <1>8, BoardLeftAlone
    <3>2. link' = link
      BY <1>8 DEF Delivered, FlipperHandles, FlipperDisconnect, MainHandles, UserCommand, FlipperStart,
                  RecordRemoved
    <3> QED BY <3>1, <3>2
  <2>2. /\ inbox = << >> /\ toF = << >> /\ toB = << >> /\ ~ closing
        /\ flip.events = << >> \/ flip.events = <<"connected">>
        /\ flip.events = << >> => flip.phase # "active"
        /\ link = "up" /\ board.conn = "connecting" /\ link # "down"
    BY <2>1 DEF ConnectingInv
  <2>3. \/ MainHandles \/ UserCommand \/ FlipperStart \/ RecordRemoved
    BY <1>8, <2>2 DEF Delivered, FlipperHandles, FlipperDisconnect
  <2>4. CASE MainHandles
    <3>1. flip.events = <<"connected">>
      BY <2>2, <2>4 DEF MainHandles
    <3>2. Head(flip.events) = "connected" /\ Tail(flip.events) = << >>
      BY <3>1
    <3> QED BY <2>2, <2>4, <3>2, MainTurns
  <2>5. CASE UserCommand
    <3>1. /\ flip.phase = "active" /\ UNCHANGED <<board, link, closing, toF, inbox>>
          /\ flip'.events = flip.events /\ flip'.phase = flip.phase
      BY <2>5, UserTurns
    <3>2. toB' = toB
      <4> DEFINE h == OnFlipper(FALSE)
                 m == Msg("command", h.f.sid, h.f.key, h.f.out)
      <4>1. toB' = NotifyProtected(h, "command").toB
        BY <2>5 DEF UserCommand
      <4>2. h \in FlipRun /\ h.toB = toB
        BY RunOfFlipper DEF SessionInv
      <4> HIDE DEF h
      <4>3. Notify(h, m) = h
        BY <2>2 DEF Notify
      <4>4. NotifyProtected(h, "command").toB = h.toB
        <5> HIDE DEF FlipState, Rec, m
        <5>1. NotifyProtected(h, "command") = h \/ NotifyProtected(h, "command") = [h EXCEPT !.f.out = @ + 1]
          BY <4>3 DEF NotifyProtected, m
        <5> QED BY <4>2, <5>1 DEF FlipRun
      <4> QED BY <4>1, <4>2, <4>4
    <3> QED BY <2>2, <3>1, <3>2
  <2>6. CASE FlipperStart \/ RecordRemoved
    <3>1. flip \in FlipState /\ UNCHANGED <<closing, toF, inbox, toB>>
          /\ (flip' = [flip EXCEPT !.up = TRUE, !.phase = "waiting"] \/ flip' = [flip EXCEPT !.file = 0])
      BY <2>6 DEF SessionInv, TypeInv, FlipperStart, RecordRemoved
    <3>2. flip'.events = flip.events /\ (flip'.phase = "waiting" \/ flip'.phase = flip.phase)
      BY <3>1 DEF FlipState
    <3> QED BY <2>2, <3>1, <3>2
  <2> QED BY <2>3, <2>4, <2>5, <2>6
<1> QED BY <1>1, <1>2, <1>3, <1>4, <1>5, <1>6, <1>7, <1>8 DEF Next, History, Remembers

\* The dialogue as it stands ...
LEMMA DialogueHere ==
  ASSUME DialogueInv, board.mode = "runtime", board.conn = "up"
  PROVE  \E up \in BOOLEAN, live \in BOOLEAN :
           /\ up = (link = "up") /\ live = (link = "up" /\ ~ closing)
           /\ Dialogue(board, flip, inbox \o toF, toB, up, live)
PROOF
<1> DEFINE x == (link = "up")
           y == (link = "up" /\ ~ closing)
<1>1. Dialogue(board, flip, inbox \o toF, toB, x, y)
  BY DEF DialogueInv
<1>2. x \in BOOLEAN /\ y \in BOOLEAN
  OBVIOUS
<1> QED BY <1>1, <1>2

\* ... and behind a step.
LEMMA DialogueThere ==
  ASSUME board'.mode = "runtime" /\ board'.conn = "up" =>
           \E p, up, live : /\ up = (link' = "up") /\ live = (link' = "up" /\ ~ closing')
                            /\ p = inbox' \o toF'
                            /\ Dialogue(board', flip', p, toB', up, live)
  PROVE  DialogueInv'
PROOF
<1> SUFFICES ASSUME board'.mode = "runtime", board'.conn = "up"
             PROVE  Dialogue(board', flip', inbox' \o toF', toB', link' = "up", link' = "up" /\ ~ closing')
  BY DEF DialogueInv, Dialogue, HelloOut, HelloGone, AuthOut, AuthGone, Streaming, Answers, Steady, Unopened,
         Joined, Acks, Whole, Climbs, Streams, Rising, Numbered, Count, Ack, Msg
<1>1. PICK p, up, live : /\ up = (link' = "up") /\ live = (link' = "up" /\ ~ closing')
                         /\ p = inbox' \o toF'
                         /\ Dialogue(board', flip', p, toB', up, live)
  OBVIOUS
<1> QED BY <1>1

\* Where the step is not in a dialogue there is nothing to say.
LEMMA NoDialogue ==
  ASSUME board'.mode # "runtime" \/ board'.conn # "up"
  PROVE  DialogueInv'
PROOF BY DialogueThere

\* What the ESP32 does in it.
LEMMA CarriesKeepsDialogue ==
  ASSUME SessionInv, SessionInv', DialogueInv, BoardCarries
  PROVE  DialogueInv'
PROOF
<1> SUFFICES ASSUME board'.mode = "runtime", board'.conn = "up"
             PROVE  \E p, up, live : /\ up = (link' = "up") /\ live = (link' = "up" /\ ~ closing')
                                     /\ p = inbox' \o toF'
                                     /\ Dialogue(board', flip', p, toB', up, live)
  BY DialogueThere
<1>1. /\ board \in BoardState /\ board' \in BoardState /\ flip \in FlipState
      /\ inbox \in Seq(Rec) /\ toF \in Seq(Rec) /\ toB \in Seq(Rec) /\ toF' \in Seq(Rec)
      /\ link \in {"up", "down"} /\ closing \in BOOLEAN /\ closing' \in BOOLEAN
  BY DEF SessionInv, TypeInv
<1>2. /\ UNCHANGED <<flip, link, inbox>> /\ Takes
      /\ board'.mode = board.mode /\ board'.conn = board.conn /\ board'.sid = board.sid
      /\ board'.key = board.key
      /\ board'.st = board.st \/ (board.st = "hello_sent" /\ board'.st = "authenticated")
      /\ closing /\ link = "up" => closing'
      /\ board.st # "authenticated" /\ board.done = "none"
           => board'.st = board.st /\ board'.done = "none" /\ toF' = toF
  BY DEF BoardCarries
<1>3. \/ /\ toF' = toF
         /\ \/ Count(board') = Count(board)
            \/ Count(board') > Count(board) /\ (closing' \/ link = "down")
      \/ /\ ~ closing /\ link = "up"
         /\ board'.st = "authenticated" /\ Count(board') = Count(board) + 1
         /\ \E m \in Rec : /\ m.type \in Sent /\ m.id = board.sid /\ m.secret = board.key
                           /\ m.seq = Count(board) /\ toF' = Append(toF, m)
  BY DEF BoardCarries
<1>4. PICK up \in BOOLEAN, live \in BOOLEAN :
        /\ up = (link = "up") /\ live = (link = "up" /\ ~ closing)
        /\ Dialogue(board, flip, inbox \o toF, toB, up, live)
  BY <1>2, DialogueHere
<1>5. PICK stays \in BOOLEAN : stays = (link' = "up" /\ ~ closing')
  OBVIOUS
<1>6. PICK o \in Seq(Rec) : o = inbox \o toF
  BY <1>1, BehindAt
<1>7. PICK p : p = inbox' \o toF'
  OBVIOUS
<1>8. PICK c \in BoardState : c = board'
  BY <1>1
<1>9. PICK u : u = toB'
  OBVIOUS
<1>10. Shrinks(toB, u)
  BY <1>2, <1>9 DEF Takes, Shrinks
<1>11. stays => live
  BY <1>1, <1>2, <1>4, <1>5
<1>12. PICK n : n = Count(c)
  OBVIOUS
<1>13. n = Count(board')
  BY <1>8, <1>12 DEF Count
<1>14. \/ p = o /\ (n = Count(board) \/ (n > Count(board) /\ ~ stays))
       \/ /\ live /\ c.st = "authenticated" /\ n = Count(board) + 1
          /\ \E m \in Rec : /\ m.type \in Sent /\ m.id = board.sid /\ m.secret = board.key
                            /\ m.seq = Count(board) /\ p = Append(o, m)
  <2>1. CASE toF' = toF /\ (n = Count(board) \/ (n > Count(board) /\ (closing' \/ link = "down")))
    <3>1. p = o
      BY <1>2, <1>6, <1>7, <2>1
    <3>2. closing' \/ link = "down" => ~ stays
      BY <1>2, <1>5
    <3> QED BY <2>1, <3>1, <3>2
  <2>2. ASSUME ~ closing, link = "up", board'.st = "authenticated", n = Count(board) + 1,
               NEW m \in Rec, m.type \in Sent, m.id = board.sid, m.secret = board.key,
               m.seq = Count(board), toF' = Append(toF, m)
        PROVE  /\ live /\ c.st = "authenticated" /\ n = Count(board) + 1
               /\ p = Append(o, m)
    <3>1. p = Append(o, m)
      BY <1>1, <1>2, <1>6, <1>7, <2>2, QueuesAppend
    <3> QED BY <1>4, <1>8, <2>2, <3>1
  <2> QED BY <1>3, <1>13, <2>1, <2>2
<1>15. SameSession(board, c) /\ (c.st = board.st \/ (board.st = "hello_sent" /\ c.st = "authenticated"))
  BY <1>2, <1>8 DEF SameSession
<1>16. board.st # "authenticated" /\ board.done = "none" => c.st = board.st /\ c.done = "none" /\ p = o
  BY <1>2, <1>6, <1>7, <1>8
<1>20. Dialogue(board, flip, o, toB, up, live)
  BY <1>4, <1>6
<1>21. \/ p = o /\ (Count(c) = Count(board) \/ (Count(c) > Count(board) /\ ~ stays))
       \/ /\ live /\ c.st = "authenticated" /\ Count(c) = Count(board) + 1
          /\ \E m \in Rec : /\ m.type \in Sent /\ m.id = board.sid /\ m.secret = board.key
                            /\ m.seq = Count(board) /\ p = Append(o, m)
  BY <1>12, <1>14
<1>22. board \in BoardState /\ flip \in FlipState /\ toB \in Seq(Rec)
  BY <1>1
<1>17. Dialogue(c, flip, p, u, up, stays)
  BY <1>10, <1>11, <1>15, <1>16, <1>20, <1>21, <1>22, DialogueCarries
<1>18. Dialogue(board', flip', p, toB', up, stays)
  BY <1>2, <1>8, <1>9, <1>17
<1>19. up = (link' = "up")
  BY <1>2, <1>4
<1> QED BY <1>5, <1>7, <1>18, <1>19

\* It asks for the end of the connection.
LEMMA ClosesKeepsDialogue ==
  ASSUME SessionInv, SessionInv', DialogueInv, BoardCloses
  PROVE  DialogueInv'
PROOF
<1> SUFFICES ASSUME board'.mode = "runtime", board'.conn = "up"
             PROVE  \E p, up, live : /\ up = (link' = "up") /\ live = (link' = "up" /\ ~ closing')
                                     /\ p = inbox' \o toF'
                                     /\ Dialogue(board', flip', p, toB', up, live)
  BY DialogueThere
<1>1. /\ board \in BoardState /\ board' \in BoardState /\ flip \in FlipState
      /\ inbox \in Seq(Rec) /\ toF \in Seq(Rec) /\ toB \in Seq(Rec) /\ toF' \in Seq(Rec)
      /\ link \in {"up", "down"}
  BY DEF SessionInv, TypeInv
<1>2. /\ UNCHANGED <<flip, link, inbox>> /\ Takes
      /\ board'.mode = board.mode /\ board'.conn = board.conn /\ board'.sid = board.sid
      /\ board'.st = board.st /\ board'.seq = board.seq /\ board'.done = board.done
      /\ toF' = toF \/ (toF # << >> /\ toF' = Tail(toF))
      /\ link = "up" => closing'
  BY DEF BoardCloses
<1>3. PICK up \in BOOLEAN, live \in BOOLEAN :
        /\ up = (link = "up") /\ Dialogue(board, flip, inbox \o toF, toB, up, live)
  BY <1>2, DialogueHere
<1>4. PICK goes \in BOOLEAN : goes = (link' = "up" /\ ~ closing')
  OBVIOUS
<1>5. ~ goes
  BY <1>2, <1>4
<1>6. PICK o \in Seq(Rec) : o = inbox \o toF
  BY <1>1, BehindAt
<1>7. PICK p \in Seq(Rec) : p = inbox' \o toF'
  <2>1. inbox' \in Seq(Rec)
    BY <1>1, <1>2
  <2> QED BY <1>1, <2>1, BehindAt
<1>8. PICK c \in BoardState : c = board'
  BY <1>1
<1>9. PICK u : u = toB'
  OBVIOUS
<1>10. Shrinks(toB, u)
  BY <1>2, <1>9 DEF Takes, Shrinks
<1>11. PICK k \in Nat : k >= 1 /\ Thinned(p, o, k)
  <2>1. CASE toF' = toF
    <3>1. p = o
      BY <1>2, <1>6, <1>7, <2>1
    <3>2. << >> \in Seq(Rec)
      BY EmptySeq
    <3>3. Thinned(o, o \o << >>, Len(o) + 1) /\ Len(o) + 1 \in Nat /\ Len(o) + 1 >= 1
      BY <3>2, QueuesThin
    <3>4. o \o << >> = o
      BY NothingBehind
    <3> QED BY <3>1, <3>3, <3>4
  <2>2. CASE toF # << >> /\ toF' = Tail(toF)
    <3>1. /\ Thinned(inbox \o Tail(toF), inbox \o toF, Len(inbox) + 1)
          /\ Len(inbox) + 1 \in Nat /\ Len(inbox) + 1 >= 1
      BY <1>1, <2>2, QueuesThin
    <3> QED BY <1>2, <1>6, <1>7, <2>2, <3>1
  <2> QED BY <1>2, <2>1, <2>2
<1>20. Dialogue(board, flip, o, toB, up, live)
  BY <1>3, <1>6
<1>21. board \in BoardState /\ flip \in FlipState /\ toB \in Seq(Rec)
  BY <1>1
<1>22. c.sid = board.sid /\ c.st = board.st /\ c.seq = board.seq /\ c.done = board.done
  BY <1>2, <1>8
<1>12. Dialogue(c, flip, p, u, up, goes)
  BY <1>5, <1>10, <1>11, <1>20, <1>21, <1>22, DialogueEnds
<1>13. Dialogue(board', flip', p, toB', up, goes)
  BY <1>2, <1>8, <1>9, <1>12
<1>14. up = (link' = "up")
  BY <1>2, <1>3
<1> QED BY <1>4, <1>7, <1>13, <1>14

\* It answers a proven hello.
LEMMA OpensKeepsDialogue ==
  ASSUME SessionInv, SessionInv', DialogueInv, BoardOpens
  PROVE  DialogueInv'
PROOF
<1> SUFFICES ASSUME board'.mode = "runtime", board'.conn = "up"
             PROVE  \E p, up, live : /\ up = (link' = "up") /\ live = (link' = "up" /\ ~ closing')
                                     /\ p = inbox' \o toF'
                                     /\ Dialogue(board', flip', p, toB', up, live)
  BY DialogueThere
<1>1. /\ board \in BoardState /\ board' \in BoardState /\ flip \in FlipState
      /\ inbox \in Seq(Rec) /\ toF \in Seq(Rec) /\ toB \in Seq(Rec) /\ toF' \in Seq(Rec)
      /\ link \in {"up", "down"} /\ closing \in BOOLEAN
  BY DEF SessionInv, TypeInv
<1>2. /\ UNCHANGED <<flip, link, inbox>> /\ toB # << >> /\ toB' = Tail(toB) /\ closing' = closing
      /\ board.st = "hello_sent" /\ Head(toB).type = "hello_ack" /\ Head(toB).secret = board.nvs
      /\ board'.mode = board.mode /\ board'.conn = board.conn /\ board'.sid = board.sid
      /\ board'.st = board.st /\ board'.done = "authenticated" /\ board'.key = board.nvs
  BY DEF BoardOpens
<1>3. PICK m \in Rec : /\ m.type = "client_auth" /\ m.id = board.sid /\ m.secret = board.nvs
                       /\ toF' = IF closing \/ link = "down" THEN toF ELSE Append(toF, m)
  BY DEF BoardOpens
<1>4. PICK up \in BOOLEAN, live \in BOOLEAN :
        /\ up = (link = "up") /\ live = (link = "up" /\ ~ closing)
        /\ Dialogue(board, flip, inbox \o toF, toB, up, live)
  BY <1>2, DialogueHere
<1>5. PICK o \in Seq(Rec) : o = inbox \o toF
  BY <1>1, BehindAt
<1>6. PICK p \in Seq(Rec) : p = inbox' \o toF'
  <2>1. inbox' \in Seq(Rec)
    BY <1>1, <1>2
  <2> QED BY <1>1, <2>1, BehindAt
<1>7. PICK c \in BoardState : c = board'
  BY <1>1
<1>8. PICK u : u = toB'
  OBVIOUS
<1>9. p = IF live THEN Append(o, m) ELSE o
  <2>1. CASE live
    <3>1. toF' = Append(toF, m)
      BY <1>1, <1>3, <1>4, <2>1
    <3> QED BY <1>1, <1>2, <1>5, <1>6, <2>1, <3>1, QueuesAppend
  <2>2. CASE ~ live
    <3>1. toF' = toF
      BY <1>1, <1>3, <1>4, <2>2
    <3> QED BY <1>2, <1>5, <1>6, <2>2, <3>1
  <2> QED BY <2>1, <2>2
<1>10. live => up
  BY <1>4
<1>11. c.st = "hello_sent" /\ c.sid = board.sid /\ c.key = board.nvs /\ u = Tail(toB)
  BY <1>2, <1>7, <1>8
<1>15. PICK b \in BoardState, f \in FlipState, t \in Seq(Rec) : b = board /\ f = flip /\ t = toB
  BY <1>1
<1>16. Dialogue(b, f, o, t, up, live)
  BY <1>4, <1>5, <1>15
<1>17. Proven(b, c, o, p, t, u, m, live)
  BY <1>2, <1>3, <1>9, <1>11, <1>15 DEF Proven
<1>18. Dialogue(c, f, p, u, up, live)
  BY <1>10, <1>16, <1>17, DialogueOpens
<1>12. Dialogue(c, flip, p, u, up, live)
  BY <1>15, <1>18
<1>13. Dialogue(board', flip', p, toB', up, live)
  BY <1>2, <1>7, <1>8, <1>12
<1>14. up = (link' = "up") /\ live = (link' = "up" /\ ~ closing')
  BY <1>2, <1>4
<1> QED BY <1>6, <1>13, <1>14

\* It says hello to a Flipper whose main thread has forgotten the last session.
LEMMA BeginsKeepsDialogue ==
  ASSUME SessionInv, SessionInv', ConnectingInv, BoardBegins, flip.events = << >>
  PROVE  DialogueInv'
PROOF
<1> SUFFICES ASSUME board'.mode = "runtime", board'.conn = "up"
             PROVE  \E p, up, live : /\ up = (link' = "up") /\ live = (link' = "up" /\ ~ closing')
                                     /\ p = inbox' \o toF'
                                     /\ Dialogue(board', flip', p, toB', up, live)
  BY DialogueThere
<1>1. /\ UNCHANGED <<flip, link, inbox, toB>> /\ NamesLeft
      /\ link = "up" /\ board.conn = "connecting"
      /\ board'.st = "hello_sent" /\ board'.done = "none" /\ board'.sid = FreshSession
  BY DEF BoardBegins
<1>2. PICK m \in Rec : m.type = "hello" /\ m.id = FreshSession /\ toF' = Append(toF, m)
  BY DEF BoardBegins
<1>3. inbox = << >> /\ toF = << >> /\ toB = << >> /\ flip.phase # "active"
  BY <1>1 DEF ConnectingInv
<1>4. FreshSession # flip.sid
  <2>1. FreshSession \notin SessionsInUse
    BY <1>1, NamesAreFresh
  <2> QED BY <2>1 DEF SessionsInUse
<1>5. PICK p : p = inbox' \o toF'
  OBVIOUS
<1>6. Len(p) = 1 /\ p[1] = m
  <2>1. << >> \in Seq(Rec) /\ Len(<< >>) = 0
    BY EmptySeq
  <2>2. p = << >> \o Append(<< >>, m)
    BY <1>1, <1>2, <1>3, <1>5
  <2>3. << >> \o Append(<< >>, m) = Append(<< >> \o << >>, m)
    BY <2>1, QueuesAppend
  <2>4. << >> \o << >> = << >>
    BY <2>1, NothingBehind
  <2>5. p = <<m>>
    BY <2>2, <2>3, <2>4
  <2> QED BY <2>5
<1>7. PICK up : up = (link' = "up")
  OBVIOUS
<1>8. PICK live : live = (link' = "up" /\ ~ closing')
  OBVIOUS
<1>9. Range(flip.events) = {}
  BY EmptyIs
<1>10. HelloOut(board', flip', p, toB', up)
  <2>1. Acks(toB')
    BY <1>1, <1>3 DEF Acks
  <2>2. ~ Joined(board', flip')
    BY <1>1, <1>4 DEF Joined
  <2>3. Unopened(board', flip', up)
    BY <1>1, <1>3, <1>9, <2>2 DEF Unopened
  <2> QED BY <1>1, <1>2, <1>6, <2>1, <2>3 DEF HelloOut
<1>11. Steady(flip', up)
  BY <1>1, <1>9 DEF Steady
<1>12. Dialogue(board', flip', p, toB', up, live)
  BY <1>1, <1>10, <1>11 DEF Dialogue
<1> QED BY <1>5, <1>7, <1>8, <1>12

\* A write is delivered.
LEMMA DeliveredKeepsDialogue ==
  ASSUME SessionInv, SessionInv', DialogueInv, Delivered
  PROVE  DialogueInv'
PROOF
<1> SUFFICES ASSUME board'.mode = "runtime", board'.conn = "up"
             PROVE  \E p, up, live : /\ up = (link' = "up") /\ live = (link' = "up" /\ ~ closing')
                                     /\ p = inbox' \o toF'
                                     /\ Dialogue(board', flip', p, toB', up, live)
  BY DialogueThere
<1>1. /\ board \in BoardState /\ flip \in FlipState
      /\ inbox \in Seq(Rec) /\ toF \in Seq(Rec) /\ toB \in Seq(Rec)
  BY DEF SessionInv, TypeInv
<1>2. /\ toF # << >> /\ toF' = Tail(toF) /\ inbox' = Append(inbox, Head(toF))
      /\ toB' = Append(toB, Ack) /\ UNCHANGED <<board, flip, link, closing>>
  BY DEF Delivered
<1>3. PICK up \in BOOLEAN, live \in BOOLEAN :
        /\ up = (link = "up") /\ live = (link = "up" /\ ~ closing)
        /\ Dialogue(board, flip, inbox \o toF, toB, up, live)
  BY <1>2, DialogueHere
<1>4. PICK o \in Seq(Rec) : o = inbox \o toF /\ Len(o) >= 1
  <2>1. inbox \o toF \in Seq(Rec) /\ Len(inbox \o toF) = Len(inbox) + Len(toF)
        /\ Len(inbox) \in Nat /\ Len(toF) \in Nat
    BY <1>1, BehindAt
  <2>2. Len(toF) >= 1
    BY <1>1, <1>2, TailAt
  <2>3. Len(inbox \o toF) >= 1
    BY <2>1, <2>2
  <2> QED BY <2>1, <2>3
<1>5. inbox' \o toF' = o
  BY <1>1, <1>2, <1>4, QueuesPass
<1>6. Dialogue(board, flip, o, toB, up, live)
  BY <1>3, <1>4
<1>7. Dialogue(board, flip, o, Append(toB, Ack), up, live)
  BY <1>1, <1>4, <1>6, DialogueDelivers
<1>8. Dialogue(board', flip', o, toB', up, live)
  BY <1>2, <1>7
<1>9. up = (link' = "up") /\ live = (link' = "up" /\ ~ closing')
  BY <1>2, <1>3
<1> QED BY <1>5, <1>8, <1>9

\* The worker routes the records of the dialogue by their type.
LEMMA HandledIs ==
  ASSUME NEW h, NEW m, NEW failure
  PROVE  /\ m.type = "hello" => Handled(h, m, failure) = HandleHello(h, m, failure)
         /\ m.type = "client_auth" => Handled(h, m, failure) = HandleClientAuth(h, m)
         /\ m.type \in Sent => Handled(h, m, failure) = HandleProtected(h, m)
PROOF
<1>1. CASE m.type = "hello"
  BY <1>1 DEF Handled, Sent
<1>2. CASE m.type = "client_auth"
  BY <1>2 DEF Handled, Sent
<1>3. CASE m.type \in Sent
  <2>1. m.type \notin {"pair_init", "pair_confirm", "pair_complete", "pair_error", "hello", "client_auth"}
    BY <1>3 DEF Sent
  <2> QED BY <2>1 DEF Handled
<1> QED BY <1>1, <1>2, <1>3

\* Mild events let the session be.
LEMMA MildIsSteady ==
  ASSUME NEW f, NEW g, NEW up \in BOOLEAN, Steady(f, up), Range(g.events) \subseteq Range(f.events) \cup Mild
  PROVE  Steady(g, up)
PROOF BY DEF Steady, Mild

\* The worker takes a record.
LEMMA HandlesKeepsDialogue ==
  ASSUME SessionInv, SessionInv', DialogueInv, FlipperHandles
  PROVE  DialogueInv'
PROOF
<1> SUFFICES ASSUME board'.mode = "runtime", board'.conn = "up"
             PROVE  \E p, up, live : /\ up = (link' = "up") /\ live = (link' = "up" /\ ~ closing')
                                     /\ p = inbox' \o toF'
                                     /\ Dialogue(board', flip', p, toB', up, live)
  BY DialogueThere
<1>1. /\ board \in BoardState /\ flip \in FlipState /\ flip' \in FlipState
      /\ inbox \in Seq(Rec) /\ toF \in Seq(Rec) /\ toB \in Seq(Rec) /\ toB' \in Seq(Rec)
  BY DEF SessionInv, TypeInv
<1>2. inbox # << >> /\ inbox' = Tail(inbox) /\ UNCHANGED <<board, link, closing, toF>>
  BY DEF FlipperHandles
<1>3. PICK up \in BOOLEAN, live \in BOOLEAN :
        /\ up = (link = "up") /\ live = (link = "up" /\ ~ closing)
        /\ Dialogue(board, flip, inbox \o toF, toB, up, live)
  BY <1>2, DialogueHere
<1>4. PICK o \in Seq(Rec) : o = inbox \o toF
  BY <1>1, BehindAt
<1>5. PICK m \in Rec : m = Head(inbox)
  BY <1>1, <1>2, HeadTailProperties
<1>6. o # << >> /\ o[1] = m /\ inbox' \o toF' = Tail(o)
  BY <1>1, <1>2, <1>4, <1>5, QueuesTake
<1>7. Dialogue(board, flip, o, toB, up, live)
  BY <1>3, <1>4
<1>8. PICK failure : LET h == Handled(OnFlipper(failure = "notification"), Head(inbox), failure)
                     IN flip' = h.f /\ toB' = h.toB
  BY DEF FlipperHandles
<1> DEFINE h == OnFlipper(failure = "notification")
<1>9. h \in FlipRun /\ h.f = flip /\ h.toB = toB
  BY RunOfFlipper DEF SessionInv
<1>10. flip' = Handled(h, m, failure).f /\ toB' = Handled(h, m, failure).toB
  BY <1>5, <1>8
<1> HIDE DEF h
<1>11. m.type = "hello" \/ m.type = "client_auth" \/ m.type \in Sent
  BY <1>1, <1>6, <1>7, HeadSays
<1>12. Steady(flip, up)
  BY <1>7 DEF Dialogue
<1>13. live => up
  BY <1>3
<1>14. Dialogue(board, flip', Tail(o), toB', up, live)
  <2>1. CASE m.type = "hello"
    <3> DEFINE r == HandleHello(h, m, failure)
    <3>1. flip' = r.f /\ toB' = r.toB
      BY <1>10, <2>1, HandledIs
    <3>2. /\ Posts(h, r, {"authenticating"}) /\ r.f.sess \in {"none", "hello"}
          /\ \/ r.toB = h.toB
             \/ \E x \in Rec : /\ r.toB = Append(h.toB, x)
                               /\ \/ x.type = "unknown_board"
                                  \/ /\ x.type = "hello_ack" /\ r.f.sess = "hello" /\ r.f.sid = m.id
                                     /\ r.f.secret = x.secret
      BY <1>9, <2>1, HandleHelloAnswers
    <3> HIDE DEF r
    <3>3. flip'.phase = flip.phase /\ Range(flip'.events) \subseteq Range(flip.events) \cup {"authenticating"}
      BY <1>9, <3>1, <3>2 DEF Posts
    <3>4. flip'.sess \in {"none", "hello"}
      BY <3>1, <3>2
    <3>5. \/ toB' = toB
          \/ \E x \in Rec : /\ toB' = Append(toB, x)
                            /\ \/ x.type = "unknown_board"
                               \/ /\ x.type = "hello_ack" /\ flip'.sess = "hello" /\ flip'.sid = o[1].id
                                  /\ flip'.secret = x.secret
      BY <1>6, <1>9, <3>1, <3>2
    <3>6. o[1].type = "hello"
      BY <1>6, <2>1
    <3> QED BY <1>1, <1>6, <1>7, <3>3, <3>4, <3>5, <3>6, DialogueGreets
  <2>2. CASE m.type = "client_auth"
    <3> DEFINE r == HandleClientAuth(h, m)
    <3>1. flip' = r.f /\ toB' = r.toB
      BY <1>10, <2>2, HandledIs
    <3>2. /\ Posts(h, r, Mild)
          /\ \/ Passes(h.f, r.f, m, h.toB, r.toB)
             \/ Refuses(h.f, r.f, m, h.toB, r.toB)
             \/ Accepts(h.f, r.f, m, h.toB, r.toB)
      BY <1>9, HandleClientAuthJoins
    <3> HIDE DEF r
    <3>3. Steady(flip', up)
      BY <1>9, <1>12, <3>1, <3>2, MildIsSteady DEF Posts
    <3>4. \/ Passes(flip, flip', o[1], toB, toB') \/ Refuses(flip, flip', o[1], toB, toB')
          \/ Accepts(flip, flip', o[1], toB, toB')
      BY <1>6, <1>9, <3>1, <3>2
    <3>5. o[1].type = "client_auth"
      BY <1>6, <2>2
    <3> QED BY <1>1, <1>6, <1>7, <1>13, <3>3, <3>4, <3>5, DialogueJoins
  <2>3. CASE m.type \in Sent
    <3> DEFINE r == HandleProtected(h, m)
    <3>1. flip' = r.f /\ toB' = r.toB
      BY <1>10, <2>3, HandledIs
    <3>2. /\ Posts(h, r, Mild) /\ r.toB = h.toB
          /\ Ignores(h.f, r.f) \/ Rejects(h.f, r.f, m) \/ Advances(h.f, r.f, m)
      BY <1>9, HandleProtectedAdvances
    <3> HIDE DEF r
    <3>3. Steady(flip', up)
      BY <1>9, <1>12, <3>1, <3>2, MildIsSteady DEF Posts
    <3>4. Ignores(flip, flip') \/ Rejects(flip, flip', o[1]) \/ Advances(flip, flip', o[1])
      BY <1>6, <1>9, <3>1, <3>2
    <3>5. o[1].type \notin {"hello", "client_auth"}
      BY <1>6, <2>3 DEF Sent
    <3>6. toB' = toB
      BY <1>9, <3>1, <3>2
    <3>7. Dialogue(board, flip', Tail(o), toB, up, live)
      BY <1>1, <1>6, <1>7, <3>3, <3>4, <3>5, DialogueAdvances
    <3> QED BY <3>6, <3>7
  <2> QED BY <1>11, <2>1, <2>2, <2>3
<1>15. Dialogue(board', flip', Tail(o), toB', up, live)
  BY <1>2, <1>14
<1>16. up = (link' = "up") /\ live = (link' = "up" /\ ~ closing')
  BY <1>2, <1>3
<1> QED BY <1>6, <1>15, <1>16

\* A turn of the Flipper that leaves the queues and the board as they are.
LEMMA TurnKeepsDialogue ==
  ASSUME SessionInv, SessionInv', DialogueInv, UNCHANGED <<board, link, toF, inbox, toB>>,
         closing => closing',
         link = "up" =>
           /\ SameEnd(flip, flip') /\ flip'.out = flip.out /\ Range(flip'.events) \subseteq Range(flip.events)
           /\ flip'.phase = "active" => flip.phase = "active" \/ "active" \in Range(flip.events),
         \/ flip'.sess = "none"
         \/ SameEnd(flip, flip') /\ flip'.out = flip.out
  PROVE  DialogueInv'
PROOF
<1> SUFFICES ASSUME board'.mode = "runtime", board'.conn = "up"
             PROVE  \E p, up, live : /\ up = (link' = "up") /\ live = (link' = "up" /\ ~ closing')
                                     /\ p = inbox' \o toF'
                                     /\ Dialogue(board', flip', p, toB', up, live)
  BY DialogueThere
<1>1. /\ board \in BoardState /\ flip \in FlipState /\ flip' \in FlipState
      /\ inbox \in Seq(Rec) /\ toF \in Seq(Rec) /\ toB \in Seq(Rec)
      /\ link \in {"up", "down"} /\ closing \in BOOLEAN
  BY DEF SessionInv, TypeInv
<1>2. UNCHANGED <<board, link, toF, inbox, toB>>
  OBVIOUS
<1>3. PICK up \in BOOLEAN, live \in BOOLEAN :
        /\ up = (link = "up") /\ live = (link = "up" /\ ~ closing)
        /\ Dialogue(board, flip, inbox \o toF, toB, up, live)
  BY <1>2, DialogueHere
<1>4. PICK o \in Seq(Rec) : o = inbox \o toF
  BY <1>1, BehindAt
<1>5. Dialogue(board, flip, o, toB, up, live)
  BY <1>3, <1>4
<1>6. PICK stays \in BOOLEAN : stays = (link' = "up" /\ ~ closing')
  OBVIOUS
<1>7. stays => live
  BY <1>2, <1>3, <1>6
<1>8. up = (link' = "up") /\ o = inbox' \o toF'
  BY <1>2, <1>3, <1>4
<1>9. Dialogue(board, flip', o, toB, up, stays)
  <2>1. CASE link = "up"
    BY <1>1, <1>5, <1>7, <2>1, DialogueTurns
  <2>2. CASE link = "down"
    <3>1. ~ up /\ ~ stays /\ toB = << >>
      BY <1>2, <1>3, <1>6, <2>2 DEF SessionInv, LinkInv
    <3>2. \/ flip'.sess = "none"
          \/ flip'.sess = flip.sess /\ flip'.sid = flip.sid /\ flip'.in = flip.in /\ flip'.out >= flip.out
      <4>1. flip.out \in Int
        BY <1>1, FlipCounts
      <4> QED BY <4>1 DEF SameEnd
    <3>3. PICK b \in BoardState, f \in FlipState, t \in Seq(Rec) : b = board /\ f = flip /\ t = toB
      BY <1>1
    <3>8. Dialogue(b, f, o, t, up, live)
      BY <1>5, <3>3
    <3>4. PICK g \in FlipState : g = flip'
      BY <1>1
    <3>5. PICK u : u = << >>
      OBVIOUS
    <3>6. \/ g.sess = "none"
          \/ g.sess = f.sess /\ g.sid = f.sid /\ g.in = f.in /\ g.out >= f.out
      BY <3>2, <3>3, <3>4
    <3>7. Dialogue(b, g, o, u, up, stays)
      BY <3>1, <3>5, <3>6, <3>8, DialogueIdles
    <3> QED BY <3>1, <3>3, <3>4, <3>5, <3>7
  <2> QED BY <1>1, <2>1, <2>2
<1>10. Dialogue(board', flip', o, toB', up, stays)
  BY <1>2, <1>9
<1> QED BY <1>6, <1>8, <1>10

\* The events behind the first.
LEMMA EventsBehind ==
  ASSUME NEW f \in FlipState, f.events # << >>
  PROVE  Range(Tail(f.events)) \subseteq Range(f.events) /\ Head(f.events) \in Range(f.events)
PROOF
<1>1. f.events \in Seq(Events)
  BY DEF FlipState, Queue
<1>2. PICK s \in Seq(Events) : s = f.events /\ s # << >>
  BY <1>1
<1>3. /\ Len(s) \in Nat /\ Len(s) >= 1 /\ DOMAIN s = 1 .. Len(s) /\ Head(s) = s[1]
  BY <1>2, LenProperties, EmptySeq
<1>4. /\ Tail(s) \in Seq(Events) /\ Len(Tail(s)) = Len(s) - 1
      /\ \A i \in 1 .. Len(Tail(s)) : Tail(s)[i] = s[i + 1]
  BY <1>2, HeadTailProperties
<1>5. DOMAIN Tail(s) = 1 .. Len(s) - 1
  BY <1>4, LenProperties
<1>6. \A i \in DOMAIN Tail(s) : i + 1 \in DOMAIN s /\ Tail(s)[i] = s[i + 1]
  BY <1>3, <1>4, <1>5
<1>7. 1 \in DOMAIN s
  BY <1>3
<1> QED BY <1>2, <1>3, <1>6, <1>7 DEF Range

\* The main thread takes an event.
LEMMA MainKeepsDialogue ==
  ASSUME SessionInv, SessionInv', DialogueInv, MainHandles
  PROVE  DialogueInv'
PROOF
<1>1. CASE board.mode = "runtime" /\ board.conn = "up"
  <2>1. /\ flip.events # << >> /\ flip'.events = Tail(flip.events)
        /\ UNCHANGED <<board, link, toF, inbox, toB>> /\ (closing => closing')
        /\ Head(flip.events) \notin {"connected", "advertising"} =>
              /\ SameEnd(flip, flip') /\ flip'.out = flip.out
              /\ flip'.phase = "active" => flip.phase = "active" \/ Head(flip.events) = "active"
        /\ \/ flip'.sess = "none"
           \/ SameEnd(flip, flip') /\ flip'.out = flip.out
    BY MainTurns
  <2>2. Range(Tail(flip.events)) \subseteq Range(flip.events) /\ Head(flip.events) \in Range(flip.events)
    BY <2>1, EventsBehind DEF SessionInv, TypeInv
  <2>3. link = "up" => Head(flip.events) \notin {"connected", "advertising"}
    <3>1. PICK up \in BOOLEAN, live \in BOOLEAN :
            up = (link = "up") /\ Dialogue(board, flip, inbox \o toF, toB, up, live)
      BY <1>1, DialogueHere
    <3>2. Steady(flip, up)
      BY <3>1 DEF Dialogue
    <3> QED BY <2>2, <3>1, <3>2 DEF Steady
  <2>4. link = "up" =>
          /\ SameEnd(flip, flip') /\ flip'.out = flip.out /\ Range(flip'.events) \subseteq Range(flip.events)
          /\ flip'.phase = "active" => flip.phase = "active" \/ "active" \in Range(flip.events)
    BY <2>1, <2>2, <2>3
  <2> QED BY <2>1, <2>4, TurnKeepsDialogue
<1>2. CASE ~ (board.mode = "runtime" /\ board.conn = "up")
  BY <1>2, BoardLeftAlone, NoDialogue
<1> QED BY <1>1, <1>2

\* The application is opened, or the record removed.
LEMMA StartKeepsDialogue ==
  ASSUME SessionInv, SessionInv', DialogueInv, FlipperStart \/ RecordRemoved
  PROVE  DialogueInv'
PROOF
<1>1. /\ flip \in FlipState /\ UNCHANGED <<board, link, closing, toF, inbox, toB>>
      /\ flip' = [flip EXCEPT !.up = TRUE, !.phase = "waiting"] \/ flip' = [flip EXCEPT !.file = 0]
  BY DEF SessionInv, TypeInv, FlipperStart, RecordRemoved
<1>2. /\ SameEnd(flip, flip') /\ flip'.out = flip.out /\ flip'.events = flip.events
      /\ flip'.phase = "active" => flip.phase = "active"
  BY <1>1 DEF FlipState, SameEnd
<1> QED BY <1>1, <1>2, TurnKeepsDialogue

\* A user sends a command.
LEMMA UserKeepsDialogue ==
  ASSUME SessionInv, SessionInv', DialogueInv, UserCommand
  PROVE  DialogueInv'
PROOF
<1> SUFFICES ASSUME board'.mode = "runtime", board'.conn = "up"
             PROVE  \E p, up, live : /\ up = (link' = "up") /\ live = (link' = "up" /\ ~ closing')
                                     /\ p = inbox' \o toF'
                                     /\ Dialogue(board', flip', p, toB', up, live)
  BY DialogueThere
<1>1. /\ board \in BoardState /\ flip \in FlipState /\ flip' \in FlipState
      /\ inbox \in Seq(Rec) /\ toF \in Seq(Rec) /\ toB \in Seq(Rec) /\ toB' \in Seq(Rec)
      /\ link \in {"up", "down"}
  BY DEF SessionInv, TypeInv
<1>2. /\ flip.phase = "active" /\ UNCHANGED <<board, link, closing, toF, inbox>>
      /\ SameEnd(flip, flip') /\ flip'.events = flip.events
      /\ \/ flip'.out = flip.out /\ toB' = toB
         \/ /\ flip'.out = flip.out + 1
            /\ toB' = toB \/ \E m \in Rec : m.type = "command" /\ m.seq = flip.out /\ toB' = Append(toB, m)
      /\ link = "down" => toB' = toB
  BY UserTurns
<1>3. PICK up \in BOOLEAN, live \in BOOLEAN :
        /\ up = (link = "up") /\ live = (link = "up" /\ ~ closing)
        /\ Dialogue(board, flip, inbox \o toF, toB, up, live)
  BY <1>2, DialogueHere
<1>4. PICK o \in Seq(Rec) : o = inbox \o toF
  BY <1>1, BehindAt
<1>5. Dialogue(board, flip, o, toB, up, live)
  BY <1>3, <1>4
<1>6. Dialogue(board, flip', o, toB', up, live)
  <2>1. CASE link = "up"
    <3>1. up
      BY <1>3, <2>1
    <3>3. PICK b \in BoardState, f \in FlipState, t \in Seq(Rec) : b = board /\ f = flip /\ t = toB
      BY <1>1
    <3>8. Dialogue(b, f, o, t, up, live)
      BY <1>5, <3>3
    <3>4. PICK g \in FlipState : g = flip'
      BY <1>1
    <3>5. PICK u \in Seq(Rec) : u = toB'
      BY <1>1
    <3>6. f.phase = "active" /\ SameEnd(f, g) /\ g.events = f.events /\ Commands(f, g, t, u)
      BY <1>2, <3>3, <3>4, <3>5 DEF Commands
    <3>7. Dialogue(b, g, o, u, up, live)
      BY <3>1, <3>6, <3>8, ZenonT(40), DialogueCommands
    <3> QED BY <3>3, <3>4, <3>5, <3>7
  <2>2. CASE link = "down"
    <3>1. ~ up /\ ~ live /\ toB = << >> /\ toB' = << >>
      BY <1>2, <1>3, <2>2 DEF SessionInv, LinkInv
    <3>2. flip'.sess = flip.sess /\ flip'.sid = flip.sid /\ flip'.in = flip.in /\ flip'.out >= flip.out
      <4>1. flip.out \in Int
        BY <1>1, FlipCounts
      <4>2. flip'.out = flip.out \/ flip'.out = flip.out + 1
        BY <1>2
      <4>3. flip'.out >= flip.out
        BY <4>1, <4>2
      <4> QED BY <1>2, <4>3 DEF SameEnd
    <3>3. PICK b \in BoardState, f \in FlipState, t \in Seq(Rec) : b = board /\ f = flip /\ t = toB
      BY <1>1
    <3>8. Dialogue(b, f, o, t, up, live)
      BY <1>5, <3>3
    <3>4. PICK g \in FlipState : g = flip'
      BY <1>1
    <3>5. PICK u : u = << >>
      OBVIOUS
    <3>6. g.sess = f.sess /\ g.sid = f.sid /\ g.in = f.in /\ g.out >= f.out
      BY <3>2, <3>3, <3>4
    <3>7. Dialogue(b, g, o, u, up, live)
      BY <3>1, <3>5, <3>6, <3>8, DialogueIdles
    <3> QED BY <3>1, <3>3, <3>4, <3>5, <3>7
  <2> QED BY <1>1, <2>1, <2>2
<1>7. Dialogue(board', flip', o, toB', up, live)
  BY <1>2, <1>6
<1>8. up = (link' = "up") /\ live = (link' = "up" /\ ~ closing') /\ o = inbox' \o toF'
  BY <1>2, <1>3, <1>4
<1> QED BY <1>7, <1>8

\* The Flipper notices that the link is gone.
LEMMA LeavesKeepsDialogue ==
  ASSUME SessionInv, SessionInv', DialogueInv, FlipperDisconnect
  PROVE  DialogueInv'
PROOF
<1> DEFINE h == OnFlipper(FALSE)
           r == Post(h, "advertising")
<1>1. link = "down" /\ flip' = [r.f EXCEPT !.conn = FALSE]
      /\ UNCHANGED <<board, link, closing, toF, inbox, toB>>
  BY DEF FlipperDisconnect
<1>2. h \in FlipRun /\ h.f = flip
  BY RunOfFlipper DEF SessionInv
<1> HIDE DEF h
<1>3. Keeps(h, r, {"advertising"})
  BY <1>2, PostKeeps DEF Events
<1> HIDE DEF r
<1>4. r.f \in FlipState /\ SameEnd(flip, r.f) /\ r.f.out = flip.out
  BY <1>2, <1>3 DEF Keeps, Posts, FlipRun
<1>5. SameEnd(flip, flip') /\ flip'.out = flip.out
  BY <1>1, <1>4 DEF FlipState, SameEnd
<1> QED BY <1>1, <1>5, TurnKeepsDialogue

\* The link goes down, with the Flipper's application or without it.
LEMMA DropsKeepsDialogue ==
  ASSUME SessionInv, SessionInv', DialogueInv, LinkCloses \/ LinkLost \/ FlipperStops
  PROVE  DialogueInv'
PROOF
<1> SUFFICES ASSUME board'.mode = "runtime", board'.conn = "up"
             PROVE  \E p, up, live : /\ up = (link' = "up") /\ live = (link' = "up" /\ ~ closing')
                                     /\ p = inbox' \o toF'
                                     /\ Dialogue(board', flip', p, toB', up, live)
  BY DialogueThere
<1>1. /\ board \in BoardState /\ flip \in FlipState /\ flip' \in FlipState
      /\ inbox \in Seq(Rec) /\ toF \in Seq(Rec) /\ toB \in Seq(Rec) /\ inbox' \in Seq(Rec)
  BY DEF SessionInv, TypeInv
<1>2. /\ link' = "down" /\ toF' = << >> /\ toB' = << >> /\ board' = board
      /\ \/ UNCHANGED <<flip, inbox>>
         \/ inbox' = << >> /\ flip'.sess = "none"
  <2>1. LinkDown /\ board' = board
    BY DEF LinkCloses, LinkLost, FlipperStops
  <2>2. CASE LinkCloses \/ LinkLost
    BY <2>1, <2>2 DEF LinkCloses, LinkLost, LinkDown
  <2>3. CASE FlipperStops
    BY <2>1, <2>3 DEF FlipperStops, LinkDown, FlipperOff
  <2> QED BY <2>2, <2>3
<1>3. PICK up \in BOOLEAN, live \in BOOLEAN :
        Dialogue(board, flip, inbox \o toF, toB, up, live)
  BY <1>2, DialogueHere
<1>4. PICK o \in Seq(Rec) : o = inbox \o toF
  BY <1>1, BehindAt
<1>5. Dialogue(board, flip, o, toB, up, live)
  BY <1>3, <1>4
<1>6. PICK stays \in BOOLEAN : stays = (link' = "up")
  OBVIOUS
<1>7. PICK goes \in BOOLEAN : goes = (link' = "up" /\ ~ closing')
  OBVIOUS
<1>8. ~ stays /\ ~ goes
  BY <1>2, <1>6, <1>7
<1>9. inbox' \o toF' = inbox'
  BY <1>1, <1>2, NothingBehind
<1>10. PICK u : u = toB'
  OBVIOUS
<1>11. Shrinks(toB, u) /\ u = << >>
  BY <1>2, <1>10 DEF Shrinks
<1>12. PICK k \in Nat : k >= 1 /\ Thinned(inbox', o, k)
  <2>1. CASE inbox' = inbox
    <3>1. Thinned(inbox, inbox \o toF, Len(inbox) + 1) /\ Len(inbox) + 1 \in Nat /\ Len(inbox) + 1 >= 1
      BY <1>1, QueuesThin
    <3> QED BY <1>4, <2>1, <3>1
  <2>2. CASE inbox' = << >>
    <3>1. Thinned(inbox', o, 1)
      BY <2>2 DEF Thinned
    <3> QED BY <3>1
  <2> QED BY <1>2, <2>1, <2>2
<1>16. PICK p \in Seq(Rec) : p = inbox'
  BY <1>1
<1>17. board \in BoardState /\ flip \in FlipState /\ toB \in Seq(Rec) /\ Thinned(p, o, k)
  BY <1>1, <1>12, <1>16
<1>18. board.sid = board.sid /\ board.st = board.st /\ board.seq = board.seq /\ board.done = board.done
  OBVIOUS
<1>19. Dialogue(board, flip, p, u, stays, goes)
  BY <1>5, <1>8, <1>11, <1>12, <1>17, <1>18, DialogueEnds
<1>13. Dialogue(board, flip, inbox', u, stays, goes)
  BY <1>16, <1>19
<1>14. Dialogue(board, flip', inbox', u, stays, goes)
  <2>1. CASE flip' = flip
    BY <1>13, <2>1
  <2>2. CASE flip'.sess = "none"
    <3>1. u \in Seq(Rec)
      BY <1>11, EmptyIs
    <3>2. PICK g \in FlipState : g = flip' /\ g.sess = "none"
      BY <1>1, <2>2
    <3>3. PICK b \in BoardState, f \in FlipState : b = board /\ f = flip
      BY <1>1
    <3>6. PICK t \in Seq(Rec), up0 \in BOOLEAN, live0 \in BOOLEAN : t = u /\ up0 = stays /\ live0 = goes
      BY <3>1
    <3>4. Dialogue(b, f, p, t, up0, live0)
      BY <1>19, <3>3, <3>6
    <3>5. Dialogue(b, g, p, u, stays, goes)
      BY <1>8, <1>11, <3>2, <3>4, DialogueIdles
    <3> QED BY <1>16, <3>2, <3>3, <3>5
  <2> QED BY <1>2, <2>1, <2>2
<1>15. Dialogue(board', flip', inbox', toB', stays, goes)
  BY <1>2, <1>10, <1>14
<1> QED BY <1>6, <1>7, <1>9, <1>15

\* What the ESP32 does, without a link or with one.
LEMMA ServesKeepsDialogue ==
  ASSUME SessionInv, SessionInv', DialogueInv, ConnectingInv, BoardServes,
         BoardBegins => flip.events = << >>
  PROVE  DialogueInv'
PROOF
<1>1. BoardPairs \/ BoardCarries \/ BoardCloses \/ BoardOpens \/ BoardBegins
  BY DEF BoardServes
<1>2. CASE BoardPairs
  BY <1>2, NoDialogue DEF BoardPairs
<1> QED BY <1>1, <1>2, CarriesKeepsDialogue, ClosesKeepsDialogue, OpensKeepsDialogue, BeginsKeepsDialogue

\* A board that begins has just subscribed.
LEMMA OnlySubscribedBegins ==
  ASSUME SessionInv, ConnectingInv, BoardBegins,
         BoardReceives \/ WriteError \/ HelloTimeout \/ PairReplyTimeout \/ IdleTimeout \/ Capture
  PROVE  FALSE
PROOF
<1>1. link = "up" /\ board.conn = "connecting" /\ toF' # toF
  <2>1. PICK m \in Rec : toF' = Append(toF, m)
    BY DEF BoardBegins
  <2>2. toF \in Seq(Rec)
    BY DEF SessionInv, TypeInv
  <2>3. Len(Append(toF, m)) = Len(toF) + 1 /\ Len(toF) \in Nat
    BY <2>2, AppendAt, RecordsAt
  <2>4. Len(Append(toF, m)) # Len(toF)
    BY <2>3
  <2>5. toF' # toF
    BY <2>1, <2>4
  <2> QED BY <2>5 DEF BoardBegins
<1>2. toF = << >> /\ toB = << >> /\ board.st = "idle"
  BY <1>1 DEF ConnectingInv, SessionInv, LinkInv
<1>3. Capture
  BY <1>1, <1>2 DEF BoardReceives, WriteError, HelloTimeout, PairReplyTimeout, IdleTimeout, Overdue
<1>4. toF' = toF
  BY <1>2, <1>3, CaptureAside
<1> QED BY <1>1, <1>4

\* Every step keeps to the dialogue.
LEMMA StepKeepsDialogue ==
  ASSUME SessionInv, SessionInv', BooksInv, DialogueInv, ConnectingInv, [Next]_vars, ~ LateReset
  PROVE  DialogueInv'
PROOF
<1>1. CASE UNCHANGED vars
  <2>1. flip' = flip /\ UNCHANGED <<board, link, closing, toF, inbox, toB>>
    BY <1>1 DEF vars, system
  <2>2. SameEnd(flip, flip') /\ flip'.out = flip.out /\ flip'.events = flip.events /\ flip'.phase = flip.phase
    BY <2>1 DEF SameEnd
  <2> QED BY <2>1, <2>2, TurnKeepsDialogue
<1>2. CASE Connect
  <2>1. board \in BoardState
    BY DEF SessionInv, TypeInv
  <2>2. board' = [board EXCEPT !.conn = "connecting", !.st = "idle", !.reason = "normal",
                            !.waiting = FALSE, !.seq = 0, !.rx = 0, !.done = "none",
                            !.pending = << >>, !.inFlight = FALSE, !.delay = 0]
    BY <1>2 DEF Connect
  <2>3. board'.conn = "connecting"
    BY <2>1, <2>2 DEF BoardState
  <2> QED BY <2>3, NoDialogue
<1>3. CASE Subscribed
  <2>1. link = "up" /\ board.conn = "connecting" /\ flip.events = << >>
    BY <1>3 DEF Subscribed, MainKeepsUp
  <2>2. ~ closing
    BY <2>1 DEF ConnectingInv
  <2> QED BY <1>3, <2>1, <2>2, SubscribedServes, ServesKeepsDialogue
<1>4. CASE BoardReceives \/ WriteError \/ HelloTimeout \/ IdleTimeout \/ Capture
  BY <1>4, BoardReceivesServes, WriteErrorServes, HelloTimeoutServes, IdleTimeoutServes, CaptureServes,
     OnlySubscribedBegins, ServesKeepsDialogue
<1>5. CASE PairReplyTimeout
  <2>1. CASE board.mode = "pairing"
    BY <1>5, <2>1, PairReplyTimeoutServes, OnlySubscribedBegins, ServesKeepsDialogue
  <2>2. CASE board.mode # "pairing"
    <3>1. board.mode = "runtime" /\ board.conn = "up" /\ board.st = "init_sent"
      BY <1>5, <2>2 DEF PairReplyTimeout, Overdue, SessionInv, TypeInv, BoardState
    <3>2. PICK up \in BOOLEAN, live \in BOOLEAN : Dialogue(board, flip, inbox \o toF, toB, up, live)
      BY <3>1, DialogueHere
    <3> QED BY <3>1, <3>2 DEF Dialogue
  <2> QED BY <2>1, <2>2
<1>6. CASE Delivered \/ FlipperHandles \/ UserCommand
  BY <1>6, DeliveredKeepsDialogue, HandlesKeepsDialogue, UserKeepsDialogue
<1>7. CASE LinkCloses \/ LinkLost \/ FlipperStops
  BY <1>7, DropsKeepsDialogue
<1>8. CASE FlipperDisconnect \/ MainHandles \/ FlipperStart \/ RecordRemoved
  BY <1>8, LeavesKeepsDialogue, MainKeepsDialogue, StartKeepsDialogue
<1>9. CASE BoardDisconnect
  BY <1>9, BoardDisconnectIs, NoDialogue
<1>10. CASE WindowExpires
  BY <1>10, WindowExpiresKeepsBooks, NoDialogue
<1>11. CASE Restart \/ FactoryReset
  BY <1>11, BootKeepsBooks, NoDialogue
<1> QED BY <1>1, <1>2, <1>3, <1>4, <1>5, <1>6, <1>7, <1>8, <1>9, <1>10, <1>11 DEF Next

\* At first there is no connection.
LEMMA InitDialogue ==
  ASSUME Init
  PROVE  DialogueInv /\ ConnectingInv
PROOF
<1>1. board.conn = "none" /\ link = "down"
  BY DEF Init, BoardAtBoot
<1> QED BY <1>1 DEF DialogueInv, ConnectingInv

\* What the counters say of the records between them.
Between(b, o, low, high) ==
  /\ Rising(o, low, high)
  /\ Whole(b, o, 1, low, high) => {o[i].seq : i \in Numbered(o)} = low .. high - 1

\* A numbered stream that climbs and of which none is missing has every number once.
LEMMA WholeStream ==
  ASSUME NEW b, NEW o \in Seq(Rec), Streams(o, 1), NEW low \in Int, NEW high \in Int,
         Climbs(o, 1, low, high)
  PROVE  Between(b, o, low, high)
PROOF
<1>1. Len(o) \in Nat /\ DOMAIN o = 1 .. Len(o) /\ \A i \in 1 .. Len(o) : o[i].seq \in Int
  BY RecordsAt
<1>2. Numbered(o) = 1 .. Len(o)
  BY <1>1 DEF Streams, Sent, Numbered
<1>3. \A i \in 1 .. Len(o) :
        o[i].seq >= low /\ o[i].seq < high /\ \A j \in 1 .. i - 1 : o[j].seq < o[i].seq
  BY DEF Climbs
<1>4. Rising(o, low, high)
  <2> SUFFICES ASSUME NEW i \in 1 .. Len(o)
               PROVE  /\ o[i].seq \in low .. high - 1
                      /\ \A j \in 1 .. Len(o) : j < i => o[j].seq < o[i].seq
    BY <1>2 DEF Rising
  <2>1. o[i].seq \in low .. high - 1
    BY <1>1, <1>3
  <2>2. \A j \in 1 .. Len(o) : j < i => j \in 1 .. i - 1
    BY <1>1
  <2> QED BY <1>3, <2>1, <2>2
<1>5. ASSUME Whole(b, o, 1, low, high)
      PROVE  {o[i].seq : i \in 1 .. Len(o)} = low .. high - 1
  <2>1. PICK n \in Nat : n = Len(o)
    BY <1>1
  <2>2. n = high - low /\ \A i \in 1 .. n : o[i].seq = low + i - 1
    BY <1>5, <2>1 DEF Whole
  <2>3. \A i \in 1 .. n : low + i - 1 \in low .. high - 1
    BY <2>2
  <2>4. ASSUME NEW x \in low .. high - 1
        PROVE  \E i \in 1 .. n : o[i].seq = x
    <3>1. x - low + 1 \in 1 .. n /\ low + (x - low + 1) - 1 = x
      BY <2>2
    <3> QED BY <2>2, <3>1
  <2>5. {o[i].seq : i \in 1 .. n} \subseteq low .. high - 1
    BY <2>2, <2>3
  <2>6. low .. high - 1 \subseteq {o[i].seq : i \in 1 .. n}
    BY <2>4
  <2> QED BY <2>1, <2>5, <2>6
<1> QED BY <1>2, <1>4, <1>5 DEF Between

\* A queue has its records in it.
LEMMA QueueRange ==
  ASSUME NEW s \in Seq(Rec), NEW t \in Seq(Rec), NEW i \in 1 .. Len(s \o t)
  PROVE  (s \o t)[i] \in Range(t) \cup Range(s)
PROOF
<1>1. /\ Len(s \o t) = Len(s) + Len(t)
      /\ Len(s) \in Nat /\ Len(t) \in Nat
      /\ \A k \in 1 .. Len(s) + Len(t) : k <= Len(s) => (s \o t)[k] = s[k]
      /\ \A k \in 1 .. Len(s) + Len(t) : k > Len(s) => (s \o t)[k] = t[k - Len(s)]
  BY BehindAt
<1>2. DOMAIN s = 1 .. Len(s) /\ DOMAIN t = 1 .. Len(t)
  BY RecordsAt
<1>3. CASE i <= Len(s)
  <2>1. i \in DOMAIN s /\ (s \o t)[i] = s[i]
    BY <1>1, <1>2, <1>3
  <2> QED BY <2>1 DEF Range
<1>4. CASE i > Len(s)
  <2>1. i - Len(s) \in DOMAIN t /\ (s \o t)[i] = t[i - Len(s)]
    BY <1>1, <1>2, <1>4
  <2> QED BY <2>1 DEF Range
<1> QED BY <1>1, <1>3, <1>4

\* What the invariant says of the two ends.
LEMMA EndsHold ==
  ASSUME SessionInv, BooksInv, FaultsInv, DialogueInv
  PROVE  EndsAgree
PROOF
<1>1. TypeOK
  BY TypesHold
<1>2. /\ board \in BoardState /\ flip \in FlipState
      /\ inbox \in Seq(Rec) /\ toF \in Seq(Rec) /\ toB \in Seq(Rec)
  BY DEF SessionInv, TypeInv
<1>3. ASSUME board.st = "authenticated"
      PROVE  \E up \in BOOLEAN, live \in BOOLEAN, o \in Seq(Rec) :
               /\ up = (link = "up") /\ live = (link = "up" /\ ~ closing) /\ o = inbox \o toF
               /\ \/ AuthOut(board, flip, o, toB, up, live) \/ AuthGone(board, flip, o, toB, live)
  <2>1. board.mode = "runtime" /\ board.conn = "up"
    BY <1>3 DEF BooksInv, SessionInv, LinkInv
  <2>2. PICK up \in BOOLEAN, live \in BOOLEAN :
          /\ up = (link = "up") /\ live = (link = "up" /\ ~ closing)
          /\ Dialogue(board, flip, inbox \o toF, toB, up, live)
    BY <2>1, DialogueHere
  <2>3. PICK o \in Seq(Rec) : o = inbox \o toF
    BY <1>2, BehindAt
  <2>4. Dialogue(board, flip, o, toB, up, live)
    BY <2>2, <2>3
  <2>5. AuthOut(board, flip, o, toB, up, live) \/ AuthGone(board, flip, o, toB, live)
    BY <1>3, <2>4 DEF Dialogue, HelloOut, HelloGone
  <2> QED BY <2>2, <2>3, <2>5
<1>4. BothEndsAgree
  <2> SUFFICES ASSUME board.st = "authenticated", link = "up", ~ closing, Consumed("client_auth")
               PROVE  flip.sess = "active" /\ flip.sid = board.sid /\ flip.key = board.key
    BY DEF BothEndsAgree
  <2>1. PICK up \in BOOLEAN, live \in BOOLEAN, o \in Seq(Rec) :
          /\ live = (link = "up" /\ ~ closing) /\ o = inbox \o toF
          /\ \/ AuthOut(board, flip, o, toB, up, live) \/ AuthGone(board, flip, o, toB, live)
    BY <1>3
  <2>2. ~ AuthOut(board, flip, o, toB, up, live)
    <3> SUFFICES ASSUME AuthOut(board, flip, o, toB, up, live)  PROVE FALSE
      OBVIOUS
    <3>1. Len(o) >= 1 /\ o[1].type = "client_auth"
      BY DEF AuthOut
    <3>2. 1 \in 1 .. Len(o)
      BY <3>1, RecordsAt
    <3>3. o[1] \in Range(toF) \cup Range(inbox)
      BY <1>2, <2>1, <3>2, QueueRange
    <3> QED BY <3>1, <3>3 DEF Consumed
  <2> QED BY <2>1, <2>2 DEF AuthGone, Joined
<1>5. StreamsInStep
  <2> SUFFICES ASSUME flip.sess = "active", board.st = "authenticated", flip.sid = board.sid
               PROVE  LET out == inbox \o toF
                      IN /\ Rising(out, flip.in, board.seq)
                         /\ link = "up" /\ ~ closing
                               => {out[i].seq : i \in Numbered(out)} = flip.in .. board.seq - 1
                         /\ Rising(toB, 1, flip.out)
    BY DEF StreamsInStep
  <2>1. PICK up \in BOOLEAN, live \in BOOLEAN, o \in Seq(Rec) :
          /\ live = (link = "up" /\ ~ closing) /\ o = inbox \o toF
          /\ \/ AuthOut(board, flip, o, toB, up, live) \/ AuthGone(board, flip, o, toB, live)
    BY <1>3
  <2>2. Joined(board, flip)
    BY DEF Joined
  <2>3. AuthGone(board, flip, o, toB, live)
    BY <2>1, <2>2 DEF AuthOut, Unopened
  <2>4. Count(board) = board.seq
    BY DEF Count
  <2>5. /\ Streams(o, 1) /\ Climbs(o, 1, flip.in, board.seq) /\ Streaming(toB, flip.out)
        /\ live => Whole(board, o, 1, flip.in, board.seq)
    BY <2>2, <2>3, <2>4 DEF AuthGone
  <2>6. flip.in \in Int /\ board.seq \in Int
    BY <1>2, <2>4, FlipCounts, CountIs
  <2>7. /\ Rising(o, flip.in, board.seq)
        /\ live => {o[i].seq : i \in Numbered(o)} = flip.in .. board.seq - 1
    <3>1. PICK low \in Int, high \in Int : low = flip.in /\ high = board.seq
      BY <2>6
    <3>2. PICK b \in BoardState : b = board
      BY <1>2
    <3>3. Streams(o, 1) /\ Climbs(o, 1, low, high) /\ (live => Whole(b, o, 1, low, high))
      BY <2>5, <3>1, <3>2
    <3>4. Between(b, o, low, high)
      BY <3>1, <3>2, <3>3, WholeStream
    <3>5. /\ Rising(o, low, high)
          /\ live => {o[i].seq : i \in Numbered(o)} = low .. high - 1
      BY <3>3, <3>4 DEF Between
    <3> QED BY <3>1, <3>5
  <2>8. Rising(toB, 1, flip.out)
    BY <2>5 DEF Streaming
  <2> QED BY <2>1, <2>7, <2>8
<1> QED BY <1>1, <1>4, <1>5 DEF EndsAgree

(***************************************************************************)
(* The ends of a session agree, whatever is lost, late or interrupted:     *)
(* what the ESP32 takes for authenticated the Flipper does too, under the  *)
(* same key; no number is used twice under a key in either direction; and  *)
(* on a live link the Flipper misses no record (handle_client_auth,        *)
(* start_protected_send, profile_event_handler).  The Flipper's main       *)
(* thread has emptied its queue when the dialogue begins, as it has        *)
(* unless LateReset.                                                       *)
(***************************************************************************)
THEOREM EndsStayInAgreement == ~ LateReset => (Spec => []EndsAgree)
PROOF
<1> SUFFICES ASSUME ~ LateReset  PROVE  Spec => []EndsAgree
  OBVIOUS
<1> DEFINE Inv == SessionInv /\ BooksInv /\ FaultsInv /\ ConnectingInv /\ DialogueInv
<1>1. Init => Inv
  <2>1. Init => FaultsInv
    BY SessionAssumption DEF Init, FaultsInv
  <2> QED BY <2>1, InitInv, InitBooks, InitDialogue
<1>2. Inv /\ [Next]_vars => Inv'
  BY StepKeeps, StepKeepsBooks, StepKeepsFaults, StepKeepsConnecting, StepKeepsDialogue
<1>3. Inv => EndsAgree
  BY EndsHold
<1> HIDE DEF Inv
<1> QED BY <1>1, <1>2, <1>3, PTL DEF Spec

-----------------------------------------------------------------------------
(* What the Flipper takes of a session that goes on.                       *)

\* Over a link that is up a record of a session is under way only within a dialogue.
SentInv ==
  link = "up" /\ (\E m \in InFlight : m.type \in Sent) => board.mode = "runtime" /\ board.conn = "up"

\* Where nothing is added, and the ESP32 stays as it is, it goes on.
LEMMA SentStays ==
  ASSUME SentInv, InFlight' \subseteq InFlight, link' = "up" => link = "up",
         board'.mode = board.mode, board'.conn = board.conn
  PROVE  SentInv'
PROOF BY DEF SentInv

\* No link, or nothing in flight.
LEMMA NothingSent ==
  ASSUME link' = "down" \/ (toF' = << >> /\ inbox' = << >>)
  PROVE  SentInv'
PROOF
<1>1. Range(<< >>) = {}
  BY DEF Range
<1>2. toF' = << >> /\ inbox' = << >> => InFlight' = {}
  BY <1>1 DEF InFlight
<1> QED BY <1>2 DEF SentInv

\* What the ESP32 does.
LEMMA ServesKeepsSent ==
  ASSUME SessionInv, SessionInv', SentInv, BoardServes
  PROVE  SentInv'
PROOF
<1>1. link \in {"up", "down"} /\ toF \in Seq(Rec)
  BY DEF SessionInv, TypeInv
<1>2. UNCHANGED <<flip, link, inbox>>
  BY DEF BoardServes, BoardPairs, BoardCarries, BoardCloses, BoardOpens, BoardBegins
<1>3. board'.st # "idle" => board'.conn = "up"
  BY DEF SessionInv, LinkInv
<1>4. board'.st \in {"hello_sent", "authenticated"} => board'.mode = "runtime"
  BY DEF BoardServes, BooksInv, SessionInv, StepInv
<1>5. CASE BoardPairs
  <2>1. NoNewSent(toF, toF') /\ board.mode = "pairing"
    BY <1>5 DEF BoardPairs
  <2>2. link' = "up" => ~ \E m \in InFlight' : m.type \in Sent
    BY <1>2, <2>1 DEF SentInv, InFlight, NoNewSent
  <2> QED BY <2>2 DEF SentInv
<1>6. CASE BoardCarries
  <2>1. toF' = toF \/ board'.st = "authenticated"
    BY <1>6 DEF BoardCarries
  <2>2. CASE toF' = toF
    <3>1. InFlight' = InFlight
      BY <1>2, <2>2 DEF InFlight
    <3> QED BY <1>2, <1>6, <3>1, SentStays DEF BoardCarries
  <2>3. CASE board'.st = "authenticated"
    BY <1>3, <1>4, <2>3 DEF SentInv
  <2> QED BY <2>1, <2>2, <2>3
<1>7. CASE BoardCloses
  <2>1. Range(toF') \subseteq Range(toF)
    BY <1>1, <1>7, TailIs DEF BoardCloses
  <2>2. InFlight' \subseteq InFlight
    BY <1>2, <2>1 DEF InFlight
  <2> QED BY <1>2, <1>7, <2>2, SentStays DEF BoardCloses
<1>8. CASE BoardOpens \/ BoardBegins
  <2>1. board'.st \in {"hello_sent", "authenticated"}
    BY <1>8 DEF BoardOpens, BoardBegins
  <2> QED BY <1>3, <1>4, <2>1 DEF SentInv
<1> QED BY <1>5, <1>6, <1>7, <1>8 DEF BoardServes

\* Every step.
LEMMA StepKeepsSent ==
  ASSUME SessionInv, SessionInv', BooksInv, DialogueInv, ConnectingInv, SentInv, [Next]_vars
  PROVE  SentInv'
PROOF
<1>1. toF \in Seq(Rec) /\ inbox \in Seq(Rec)
  BY DEF SessionInv, TypeInv
<1>2. CASE Connect
  <2>1. toF' = << >> /\ inbox' = << >>
    BY <1>2 DEF Connect, SessionInv, LinkInv
  <2> QED BY <2>1, NothingSent
<1>3. CASE Subscribed
  <2>1. ~ closing
    BY <1>3 DEF Subscribed, ConnectingInv
  <2> QED BY <1>3, <2>1, SubscribedServes, ServesKeepsSent
<1>4. CASE BoardReceives \/ WriteError \/ HelloTimeout \/ IdleTimeout \/ Capture
  BY <1>4, BoardReceivesServes, WriteErrorServes, HelloTimeoutServes, IdleTimeoutServes, CaptureServes,
     ServesKeepsSent
<1>5. CASE PairReplyTimeout
  <2>1. CASE board.mode = "pairing"
    BY <1>5, <2>1, PairReplyTimeoutServes, ServesKeepsSent
  <2>2. CASE board.mode # "pairing"
    <3>1. board.mode = "runtime" /\ board.conn = "up" /\ board.st = "init_sent"
      BY <1>5, <2>2 DEF PairReplyTimeout, Overdue, SessionInv, TypeInv, BoardState
    <3>2. PICK up \in BOOLEAN, live \in BOOLEAN : Dialogue(board, flip, inbox \o toF, toB, up, live)
      BY <3>1, DialogueHere
    <3> QED BY <3>1, <3>2 DEF Dialogue
  <2> QED BY <2>1, <2>2
<1>6. CASE Delivered
  <2>1. /\ toF # << >> /\ toF' = Tail(toF) /\ inbox' = Append(inbox, Head(toF))
        /\ UNCHANGED <<board, link>>
    BY <1>6 DEF Delivered
  <2>2. InFlight' \subseteq InFlight
    BY <1>1, <2>1, TailIs, AppendIs DEF InFlight
  <2> QED BY <2>1, <2>2, SentStays
<1>7. CASE FlipperHandles
  <2>1. inbox # << >> /\ inbox' = Tail(inbox) /\ UNCHANGED <<board, link, toF>>
    BY <1>7 DEF FlipperHandles
  <2>2. InFlight' \subseteq InFlight
    BY <1>1, <2>1, TailIs DEF InFlight
  <2> QED BY <2>1, <2>2, SentStays
<1>8. CASE UserCommand \/ FlipperDisconnect \/ MainHandles \/ FlipperStart \/ RecordRemoved \/ UNCHANGED vars
  <2>1. UNCHANGED <<board, link, toF, inbox>>
    BY <1>8 DEF UserCommand, FlipperDisconnect, MainHandles, FlipperStart, RecordRemoved, vars, system
  <2>2. InFlight' = InFlight
    BY <2>1 DEF InFlight
  <2> QED BY <2>1, <2>2, SentStays
<1>9. CASE LinkCloses \/ LinkLost \/ FlipperStops \/ Restart \/ FactoryReset
  BY <1>9, NothingSent DEF LinkCloses, LinkLost, FlipperStops, Restart, FactoryReset, LinkDown
<1>10. CASE BoardDisconnect
  BY <1>10, NothingSent DEF BoardDisconnect
<1>11. CASE WindowExpires
  <2>1. board.mode = "pairing" /\ UNCHANGED <<link, toF, inbox>>
    BY <1>11 DEF WindowExpires
  <2>2. InFlight' = InFlight
    BY <2>1 DEF InFlight
  <2> QED BY <2>1, <2>2 DEF SentInv
<1> QED BY <1>2, <1>3, <1>4, <1>5, <1>6, <1>7, <1>8, <1>9, <1>10, <1>11 DEF Next

\* A record of the session that is handled while the session goes on is the next one.
LEMMA HandledIsNext ==
  ASSUME SessionInv, DialogueInv, SentInv, FlipperHandles, Head(inbox).type = "batch",
         link = "up", ~ closing
  PROVE  flip'.in = flip.in + 1
PROOF
<1>1. /\ board \in BoardState /\ flip \in FlipState
      /\ inbox \in Seq(Rec) /\ toF \in Seq(Rec) /\ toB \in Seq(Rec)
  BY DEF SessionInv, TypeInv
<1>2. inbox # << >>
  BY DEF FlipperHandles
<1>3. PICK m \in Rec : m = Head(inbox)
  BY <1>1, <1>2, TailIs
<1>4. m.type = "batch" /\ m.type \in Sent /\ m \in InFlight
  BY <1>1, <1>2, <1>3, TailIs DEF Sent, InFlight
<1>5. board.mode = "runtime" /\ board.conn = "up"
  BY <1>4 DEF SentInv
<1>6. PICK up \in BOOLEAN, live \in BOOLEAN :
        /\ live = (link = "up" /\ ~ closing)
        /\ Dialogue(board, flip, inbox \o toF, toB, up, live)
  BY <1>5, DialogueHere
<1>7. PICK o \in Seq(Rec) : o = inbox \o toF
  BY <1>1, BehindAt
<1>8. o # << >> /\ o[1] = m
  BY <1>1, <1>2, <1>3, <1>7, QueuesTake
<1>9. Dialogue(board, flip, o, toB, up, live)
  BY <1>6, <1>7
<1>10. AuthGone(board, flip, o, toB, live) /\ Len(o) >= 1 /\ Len(o) \in Nat
  <2>1. m.type # "hello" /\ m.type # "client_auth"
    BY <1>4
  <2> QED BY <1>1, <1>8, <1>9, <2>1, HeadSays
<1>11. flip.sess = "active" /\ flip.sid = board.sid /\ flip.key = board.key
       /\ Whole(board, o, 1, flip.in, Count(board))
  BY <1>6, <1>10 DEF AuthGone, Joined
<1>12. flip.in \in Int
  BY <1>1, FlipCounts
<1>13. m.seq = flip.in /\ m.id = flip.sid /\ m.secret = flip.key
  <2>1. 1 \in 1 .. Len(o)
    BY <1>10
  <2>2. o[1].seq = flip.in + 1 - 1 /\ o[1].id = board.sid /\ o[1].secret = board.key
    BY <1>11, <2>1 DEF Whole
  <2> QED BY <1>8, <1>11, <1>12, <2>2
<1>14. m.seq < SequenceMax
  <2>1. m.seq \in Nums
    BY DEF Rec
  <2> QED BY <2>1, SessionAssumption DEF Nums
<1>15. PICK failure : flip' = Handled(OnFlipper(failure = "notification"), m, failure).f
  BY <1>3 DEF FlipperHandles
<1> DEFINE h == OnFlipper(failure = "notification")
<1>16. h \in FlipRun /\ h.f = flip
  BY RunOfFlipper DEF SessionInv
<1>17. flip' = HandleProtected(h, m).f
  BY <1>4, <1>15, HandledIs
<1> HIDE DEF h
<1>18. Authentic(m, h.f.sid, h.f.key, h.f.in)
  BY <1>13, <1>14, <1>16 DEF Authentic
<1>19. HandleProtected(h, m) = [h EXCEPT !.f.in = @ + 1]
  BY <1>4, <1>11, <1>16, <1>18 DEF HandleProtected
<1>20. flip' = [flip EXCEPT !.in = flip.in + 1]
  BY <1>16, <1>17, <1>19 DEF FlipRun
<1> QED BY <1>1, <1>20 DEF FlipState

\* The step of DrainedIsAccepted.
DrainStep == FlipperHandles /\ Head(inbox).type = "batch" /\ link = "up" /\ ~ closing => flip'.in = flip.in + 1

(***************************************************************************)
(* What the link has confirmed the application takes: as long as no side   *)
(* has given the connection up, a batch the ESP32 may remove from its log  *)
(* is the record the Flipper expects, under the session and the key it has *)
(* (wardriving_send_next_batch, profile_event_handler).  Without LateReset *)
(* as above.                                                               *)
(***************************************************************************)
THEOREM WhatIsDrainedIsAccepted == ~ LateReset => (Spec => DrainedIsAccepted)
PROOF
<1> SUFFICES ASSUME ~ LateReset  PROVE  Spec => DrainedIsAccepted
  OBVIOUS
<1> DEFINE Inv == SessionInv /\ BooksInv /\ ConnectingInv /\ DialogueInv /\ SentInv
<1>1. Init => Inv
  <2>1. Init => SentInv
    BY DEF Init, SentInv
  <2> QED BY <2>1, InitInv, InitBooks, InitDialogue
<1>2. Inv /\ [Next]_vars => Inv'
  BY StepKeeps, StepKeepsBooks, StepKeepsConnecting, StepKeepsDialogue, StepKeepsSent
<1>3. Inv /\ [Next]_vars => [DrainStep]_vars
  BY HandledIsNext DEF DrainStep
<1> HIDE DEF Inv
<1>4. Spec => [][DrainStep]_vars
  BY <1>1, <1>2, <1>3, PTL DEF Spec
<1> QED BY <1>4 DEF DrainedIsAccepted, DrainStep
=============================================================================

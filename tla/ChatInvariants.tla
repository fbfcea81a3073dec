---------------------------- MODULE ChatInvariants ----------------------------
(***************************************************************************)
(* Why the mirror agrees with the daemon: the inductive invariant behind   *)
(* AgreesWithDaemon, AcceptedTurnStays and AnswerNotCutShort.              *)
(*                                                                         *)
(* The properties compare the mirror with the daemon as it is now; what    *)
(* lasts is that each update, each answered call and the mirror itself     *)
(* tells the truth about the daemon as it was at some sequence number of   *)
(* its generation.  So the invariant says: there is a history H of the     *)
(* present generation, from sequence numbers to what the daemon streamed   *)
(* and listed then, that all of them follow.  A second part is about the   *)
(* order of rows and updates: the row of an answer that streams is in the  *)
(* transcript, and every update still under way brings a cursor behind it. *)
(***************************************************************************)
EXTENDS ChatSync

(* A controller that is well-formed has a turn whenever it has a phase,    *)
(* and only a turn that is not over is claimed or settled.                 *)
Sound(s) == s \in Controllers /\ (s.active = NoTurn <=> s.phase = "none")
Owned(s) == s.owner \in {"claim", "settling"} => Working(s)

TypeIInv == TypeOK /\ Sound(d) /\ Owned(d)

-------------------------------------------------------------------------------
(* What a daemon streams: never the user's own messages, which are         *)
(* committed before anything is recorded.                                  *)
Streams == {o \in Texts : \A t \in Turns : o[User(t)] = 0}

(* Streams of failure notices, whose length is 1.                          *)
Notices == {o \in Streams : \A i \in Items : o[i] <= 1}

(* What is remembered of a daemon, or told by a projection.                *)
Said(s) == [overlay |-> s.overlay, listed |-> Listed(s)]
Histories == [Nat -> [overlay : Streams, listed : SUBSET Turns]]

(* The calls whose answer is under way.                                    *)
Answers == {task \in {request, hydrate} : task.st = "answered"}

(* The controller has a generation when it has done anything, and lists    *)
(* only turns the composer has sent.                                       *)
DaemonInv ==
    /\ d.gen <= spent.gens
    /\ d.gen = 0 => d = Bare
    /\ d.gen # 0 => d.seq > 0
    /\ d.overlay \in Streams /\ d.delta \in Streams
    /\ \A t \in Listed(d) \cup inbox : sends[t] # "new"

(* An update of a generation that has been in use; the first of one is     *)
(* never compact, and a terminal one streams notices only.                 *)
Proper(u, gens) ==
    /\ u.to.gen <= gens /\ u.to.seq > 0
    /\ u.kind = "compact" => u.to.seq > 1
    /\ u.kind = "terminal" => \A i \in Items : u.to.overlay[i] <= 1

SentInv ==
    /\ \A k \in DOMAIN wire : Proper(wire[k], spent.gens)
    /\ \A task \in Answers : task.p.gen <= spent.gens
    /\ c.p.gen <= spent.gens

(* The mirror's committed items are texts the transcript has or had, and   *)
(* it has read every row up to its cursor.                                 *)
Loading ==
    /\ \A t \in Turns : text[User(t)] <= 1
    /\ \A i \in Items : c.committed[i] <= text[i]
    /\ c.loaded <= Len(rows)
    /\ \A k \in 1..Len(rows) : text[rows[k]] > 0
    /\ \A k \in 1..c.loaded : c.committed[rows[k]] > 0

-------------------------------------------------------------------------------
(* A projection p tells what daemon s, of history H, said at its sequence. *)
Tells(H, s, p) ==
    p.gen = s.gen => p.seq <= s.seq /\ H[p.seq] = Said(p)

(* So does an update; the overlay of a compact one is the difference to    *)
(* the sequence before.                                                    *)
TellsUpdate(H, s, u) ==
    u.to.gen = s.gen =>
        /\ u.to.seq <= s.seq
        /\ H[u.to.seq].listed = Listed(u.to)
        /\ H[u.to.seq].overlay =
              IF u.kind = "compact"
              THEN Merge(H[u.to.seq - 1].overlay, u.to.overlay)
              ELSE u.to.overlay

(* The mirror shows what was streaming at its sequence, and keeps no       *)
(* backup of a turn that was listed then.                                  *)
Holds(H, s, m) ==
    m.known /\ m.p.gen = s.gen =>
        /\ m.p.seq <= s.seq
        /\ \A i \in Items : H[m.p.seq].overlay[i] <= Display(m, i)
        /\ \A t \in H[m.p.seq].listed : m.base[t] = "none"

Follows(H) ==
    d.gen # 0 =>
        /\ H[d.seq] = Said(d)
        /\ \A n \in DOMAIN H : \A t \in H[n].listed : sends[t] # "new"
        /\ \A task \in Answers : Tells(H, d, task.p)
        /\ \A k \in DOMAIN wire : TellsUpdate(H, d, wire[k])
        /\ Holds(H, d, c)

-------------------------------------------------------------------------------
(* The answer of t is among the first n rows.                              *)
InRows(t, rs, n) == \E k \in 1..n : rs[k] = Answer(t)

(* So is every answer that o has a text of.                                *)
Stored(o, rs, n) == \A t \in Turns : o[Answer(t)] > 0 => InRows(t, rs, n)

(* The updates on wire w that projection p may yet take, or that come      *)
(* after it, bring a cursor behind the answer of t.                        *)
StoredFrom(p, t, w, rs) ==
    \A k \in DOMAIN w :
        w[k].to.gen = p.gen /\ w[k].to.seq >= p.seq
            => InRows(t, rs, w[k].to.cursor)

Ordering(H) ==
    /\ Stored(text, rows, Len(rows))
    /\ Stored(d.overlay, rows, Len(rows))
    /\ Stored(d.delta, rows, Len(rows))
    /\ \A k \in DOMAIN wire :
          /\ wire[k].to.cursor <= Len(rows)
          /\ Stored(wire[k].to.overlay, rows, wire[k].to.cursor)
          /\ d.gen # 0 /\ wire[k].to.gen = d.gen =>
                Stored(H[wire[k].to.seq].overlay, rows, wire[k].to.cursor)
          /\ \A m \in DOMAIN wire :
                k <= m => wire[k].to.cursor <= wire[m].to.cursor
    /\ \A task \in Answers : \A t \in Turns :
          task.p.overlay[Answer(t)] > 0 =>
              /\ task.p.seq > 0 /\ InRows(t, rows, Len(rows))
              /\ StoredFrom(task.p, t, wire, rows)
    /\ \A t \in Turns :
          c.p.overlay[Answer(t)] > 0 /\ c.committed[Answer(t)] = 0 =>
              /\ c.p.seq > 0 /\ InRows(t, rows, Len(rows))
              /\ StoredFrom(c.p, t, wire, rows)

Promises ==
    /\ DaemonInv /\ SentInv
    /\ \E H \in Histories : Follows(H) /\ Ordering(H)

IInv == TypeIInv /\ Loading /\ Promises

-------------------------------------------------------------------------------
(* RecoveryUnderWay needs none of this.  It is almost inductive: what it   *)
(* needs besides is that the retries are counted up to Retries and no      *)
(* further, and that the mirror's record keeps its fields, for             *)
(* [c EXCEPT ...].sync to be c.sync.                                       *)
Fields == {"known", "p", "committed", "loaded", "sync", "base"}

RecoveryIInv ==
    /\ DOMAIN c = Fields
    /\ attempts \in Nat /\ attempts <= Retries
    /\ RecoveryUnderWay
===============================================================================

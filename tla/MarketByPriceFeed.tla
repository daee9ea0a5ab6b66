-------------------------- MODULE MarketByPriceFeed --------------------------
(***************************************************************************)
(* Order books kept from two multicast channels: the binding of the        *)
(* sequencer (src/roq/python/market/mbp/details.cpp) and its use by        *)
(* Instrument, Shared, Incremental and Snapshot in                         *)
(* samples/sbe_receiver.py.                                                *)
(*                                                                         *)
(* The incremental channel carries a script of messages; its receiver sees *)
(* them in order, less the lost ones, and may take pieces of several for   *)
(* one (module MarketData derives this from the datagrams).  The snapshot  *)
(* channel carries, over and over, the book of an instrument as of some    *)
(* position of the script: older or newer than what the incremental        *)
(* receiver has reached, but never going back.  A callback may raise       *)
(* before or after the book has changed.                                   *)
(***************************************************************************)
EXTENDS Naturals, Sequences, FiniteSets

CONSTANTS
    Instruments,  \* keys (exchange, symbol) of Shared.instruments
    Scripts       \* what a publisher may send on the incremental channel

(* A message is "chained" when the instrument's next update names it as    *)
(* its predecessor: an update is, a snapshot is not, of STALE and          *)
(* UNDEFINED the code does not tell.  "OTHER" is what takes a number on    *)
(* the channel and has no effect on a book: other messages, fragments      *)
(* before the last.                                                        *)
Other == [update_type |-> "OTHER"]

Message ==
    [update_type : {"INCREMENTAL"}, instrument : Instruments, chained : {TRUE}] \cup
    [update_type : {"SNAPSHOT"}, instrument : Instruments, chained : {FALSE}] \cup
    [update_type : {"STALE", "UNDEFINED"}, instrument : Instruments, chained : BOOLEAN] \cup
    {Other}

ASSUME FeedAssumption == Scripts \subseteq Seq(Message)

VARIABLES
    script,       \* the messages of the incremental channel: never changes
    position,     \* the next of them to reach, or miss, the receiver
    snapped,      \* position of the newest snapshot seen on the snapshot channel
    lost,         \* history: the messages of the script that were not handed on
    sequencer,    \* Instrument.sequencer, for each instrument
    book,         \* Instrument.market_by_price
    health        \* history: what raising callbacks and torn messages did to it

vars == <<script, position, snapped, lost, sequencer, book, health>>

Sequencer == INSTANCE MbpSequencer

Init ==
    /\ script \in Scripts
    /\ position = 1
    /\ snapped = 0
    /\ lost = {}
    /\ sequencer = [i \in Instruments |-> Sequencer!Fresh]
    /\ book = [i \in Instruments |-> {}]
    /\ health = [i \in Instruments |-> "sound"]

-----------------------------------------------------------------------------
IsOf(i, n) == script[n] # Other /\ script[n].instrument = i

(* The publisher numbers updates by their place in the script and names in *)
(* last_sequence_number the instrument's previous one; with a snapshot,    *)
(* the one that the instrument's next update will name.                    *)
Chain(i, n) == {p \in 1 .. n : IsOf(i, p) /\ script[p].chained}

LastSequenceNumber(i, n) ==
    LET numbers == Chain(i, n) \cup {0}
    IN  CHOOSE p \in numbers : \A q \in numbers : q <= p

(* The publisher's book of instrument i after the first n messages: the    *)
(* numbers of the updates in it.                                           *)
Published(i, n) == {p \in Chain(i, n) : script[p].update_type = "INCREMENTAL"}

(* What a torn message does to a book: no publisher ever sent it.          *)
Garbage == 0

Torn(i) == Garbage \in book[i]

-----------------------------------------------------------------------------
(* Mutant: Instrument._reset does not clear the book.                      *)
ApplyWithoutClear(b, effect) ==
    CASE effect.kind = "update" -> b \cup effect.book
      [] effect.kind = "snapshot" -> effect.book
      [] OTHER -> b

(* Instrument._apply hands an update or a snapshot to the book;            *)
(* Instrument._reset clears it.                                            *)
Apply(b, effect) ==
    CASE effect.kind = "none" -> b
      [] effect.kind = "update" -> b \cup effect.book
      [] effect.kind = "snapshot" -> effect.book
      [] effect.kind = "reset" -> {}

(* A snapshot or a reset that reaches the book makes good what a raising   *)
(* callback has left undone.                                               *)
Heal(h, effect) ==
    IF h = "damaged" /\ effect.kind \in {"snapshot", "reset"} THEN "healed" ELSE h

Touch(h) == IF h = "sound" THEN "healed" ELSE h

Handle(i, outcomes) ==
    \E o \in outcomes :
        /\ sequencer' = [sequencer EXCEPT ![i] = o.sequencer]
        /\ book' = [book EXCEPT ![i] = Apply(@, o.effect)]
        /\ health' = [health EXCEPT ![i] = Heal(@, o.effect)]

(* The callback raises: before or after the book has changed, and the      *)
(* sequencer has moved on before it made the call or would have after it.  *)
(* One without the other is damage.  If the sequencer makes no call, what  *)
(* raises comes before it was given the message, or after.                 *)
HandleRaising(i, outcomes) ==
    \E o \in outcomes, moved \in BOOLEAN, applied \in BOOLEAN :
        /\ o.effect.kind = "none" => moved = applied
        /\ sequencer' = [sequencer EXCEPT ![i] = IF moved THEN o.sequencer ELSE @]
        /\ book' = [book EXCEPT ![i] = IF applied THEN Apply(@, o.effect) ELSE @]
        /\ health' = [health EXCEPT ![i] =
                         IF moved # applied THEN "damaged"
                         ELSE Touch(IF applied THEN Heal(@, o.effect) ELSE @)]

(* Mutants: a snapshot is always used; only one from the incremental       *)
(* channel is, ready or not.                                               *)
use_snapshot_always(i, incremental) == TRUE

use_snapshot_incremental(i, incremental) == incremental

use_snapshot(i, incremental) == sequencer[i].ready => incremental

NoBook == UNCHANGED <<sequencer, book, health>>

SnapshotOutcomes(i, n, content) ==
    Sequencer!OnSnapshot(sequencer[i], LastSequenceNumber(i, n), content)

SnapshotUpdate(i, n, incremental) ==
    IF use_snapshot(i, incremental)
    THEN Handle(i, SnapshotOutcomes(i, n, Published(i, n)))
    ELSE NoBook

SnapshotRaises(i, n, incremental) ==
    IF use_snapshot(i, incremental)
    THEN HandleRaising(i, SnapshotOutcomes(i, n, Published(i, n)))
    ELSE NoBook

(* Mutants: the number of the next message; the predecessor on the channel *)
(* instead of the instrument's; whichever the sequencer expects.           *)
UpdateOutcomesNumbersNext(i, n, content) ==
    Sequencer!OnUpdate(sequencer[i], [sn |-> n + 1, prev |-> LastSequenceNumber(i, n - 1),
                                      content |-> content])

UpdateOutcomesByChannel(i, n, content) ==
    Sequencer!OnUpdate(sequencer[i], [sn |-> n, prev |-> n - 1, content |-> content])

UpdateOutcomesNoGap(i, n, content) ==
    Sequencer!OnUpdate(sequencer[i], [sn |-> n, prev |-> sequencer[i].last, content |-> content])

UpdateOutcomes(i, n, content) ==
    Sequencer!OnUpdate(sequencer[i], [sn |-> n, prev |-> LastSequenceNumber(i, n - 1),
                                      content |-> content])

(* Mutant: updates are of no interest before there is a snapshot.          *)
UpdateWhenReady(n) ==
    \/ /\ script[n].update_type = "SNAPSHOT"
       /\ SnapshotUpdate(script[n].instrument, n, TRUE)
    \/ /\ script[n].update_type = "INCREMENTAL" /\ sequencer[script[n].instrument].ready
       /\ Handle(script[n].instrument, UpdateOutcomes(script[n].instrument, n, n))
    \/ /\ script[n].update_type = "INCREMENTAL" => ~sequencer[script[n].instrument].ready
       /\ script[n].update_type # "SNAPSHOT"
       /\ NoBook

(* What sequence_helper does nothing about: for UNDEFINED it asserts that  *)
(* there is no such message, which a build may leave out.                  *)
Ignored == {"STALE", "UNDEFINED", "OTHER"}

(* Message n of the incremental channel goes down from                     *)
(* Incremental._callback: Shared.update, Instrument.apply and              *)
(* sequence_helper.                                                        *)
Update(n) ==
    \/ /\ script[n].update_type = "SNAPSHOT"
       /\ SnapshotUpdate(script[n].instrument, n, TRUE)
    \/ /\ script[n].update_type = "INCREMENTAL"
       /\ Handle(script[n].instrument, UpdateOutcomes(script[n].instrument, n, n))
    \/ /\ script[n].update_type \in Ignored
       /\ NoBook

(* The callback can raise whatever the message is.                         *)
UpdateRaises(n) ==
    \/ /\ script[n].update_type = "SNAPSHOT"
       /\ SnapshotRaises(script[n].instrument, n, TRUE)
    \/ /\ script[n].update_type = "INCREMENTAL"
       /\ HandleRaising(script[n].instrument, UpdateOutcomes(script[n].instrument, n, n))
    \/ /\ script[n].update_type \in Ignored
       /\ NoBook

(* Pieces of several messages are taken for a message, which may spell any *)
(* instrument; the header is that of the last piece.                       *)
HandleTorn(i, outcomes) ==
    \/ HandleRaising(i, outcomes)
    \/ \E o \in outcomes :
          /\ sequencer' = [sequencer EXCEPT ![i] = o.sequencer]
          /\ book' = [book EXCEPT ![i] = Apply(@, o.effect)]
          /\ health' = [health EXCEPT ![i] = Touch(Heal(@, o.effect))]

(* last_sequence_number in the header of message n.                        *)
Previous(n) ==
    IF script[n] = Other THEN 0 .. n - 1
    ELSE {LastSequenceNumber(script[n].instrument, n - 1)}

TornUpdate(i, n) ==
    \E prev \in Previous(n) :
        \/ HandleTorn(i, Sequencer!OnUpdate(sequencer[i],
                                           [sn |-> n, prev |-> prev, content |-> Garbage]))
        \/ HandleTorn(i, Sequencer!OnSnapshot(sequencer[i], prev, {Garbage}))

TornSnapshot(i, n) ==
    /\ use_snapshot(i, FALSE)
    /\ \E j \in Instruments :
          HandleTorn(i, Sequencer!OnSnapshot(sequencer[i], LastSequenceNumber(j, n), {Garbage}))

-----------------------------------------------------------------------------
Lost(from, to) == {p \in from .. to : script[p] # Other}

(* The next message of the incremental channel.                            *)
IncrementalReceived ==
    /\ position <= Len(script)
    /\ position' = position + 1
    /\ Update(position)
    /\ UNCHANGED <<script, snapped, lost>>

IncrementalRaises ==
    /\ position <= Len(script)
    /\ position' = position + 1
    /\ UpdateRaises(position)
    /\ UNCHANGED <<script, snapped, lost>>

(* The messages up to n never come: the receiver joined after them, or the *)
(* re-order buffer gave up on them.  Receiver._reset tells nobody.         *)
IncrementalLost(n) ==
    /\ n \in position .. Len(script)
    /\ position' = n + 1
    /\ lost' = lost \cup Lost(position, n)
    /\ NoBook
    /\ UNCHANGED <<script, snapped>>

IncrementalTorn(i) ==
    /\ position <= Len(script)
    /\ position' = position + 1
    /\ lost' = lost \cup Lost(position, position)
    /\ TornUpdate(i, position)
    /\ UNCHANGED <<script, snapped>>

(* A snapshot of instrument i as of position n: Snapshot._callback.        *)
Snapshot(i, n, update) ==
    /\ n \in snapped .. Len(script)
    /\ snapped' = n
    /\ update
    /\ UNCHANGED <<script, position, lost>>

SnapshotReceived(i, n) == Snapshot(i, n, SnapshotUpdate(i, n, FALSE))

SnapshotReceivedRaises(i, n) == Snapshot(i, n, SnapshotRaises(i, n, FALSE))

SnapshotTorn(i, n) == Snapshot(i, n, TornSnapshot(i, n))

(* What goes as intended, or is lost on the way; and what is disturbed.    *)
Ordinary ==
    \/ IncrementalReceived
    \/ \E n \in 1 .. Len(script) : IncrementalLost(n)
    \/ \E i \in Instruments, n \in 0 .. Len(script) : SnapshotReceived(i, n)

Disturbance ==
    \/ IncrementalRaises
    \/ \E i \in Instruments : IncrementalTorn(i)
    \/ \E i \in Instruments, n \in 0 .. Len(script) :
          SnapshotReceivedRaises(i, n) \/ SnapshotTorn(i, n)

Next == Ordinary \/ Disturbance

(* The publisher goes on sending; its snapshots come round again and again *)
(* and the network does not lose all of them.                              *)
Fairness ==
    /\ WF_vars(IncrementalReceived \/ IncrementalLost(position))
    /\ \A i \in Instruments : WF_vars(SnapshotReceived(i, Len(script)))

Spec == Init /\ [][Next]_vars /\ Fairness

-----------------------------------------------------------------------------
(* Every variable has its type.                                            *)
TypeOK ==
    /\ script \in Scripts
    /\ position \in 1 .. Len(script) + 1
    /\ snapped \in 0 .. Len(script)
    /\ lost \subseteq 1 .. Len(script)
    /\ \A i \in Instruments :
          /\ sequencer[i].ready \in BOOLEAN
          /\ sequencer[i].last \in 0 .. Len(script)
          /\ sequencer[i].ready => sequencer[i].cache = <<>>
          /\ book[i] \subseteq 0 .. Len(script)
          /\ health[i] \in {"sound", "damaged", "healed"}

(* No torn message is in the book and no raising callback has left it      *)
(* behind its sequencer, or ahead, since the last snapshot or reset.       *)
Clean(i) == health[i] # "damaged" /\ ~Torn(i)

(* In every interleaving of the two channels, with any losses, a book is   *)
(* empty while its sequencer collects, and otherwise exactly a book that   *)
(* the publisher had: no update is missing from it, applied twice over or  *)
(* taken from another instrument ("sequence_helper" with Instrument._apply *)
(* and Instrument._reset).  A callback that raises half-way harms only its *)
(* own instrument, and only until the next snapshot or reset.              *)
BookIsPublished ==
    \A i \in Instruments : Clean(i) =>
        book[i] = IF sequencer[i].ready THEN Published(i, sequencer[i].last) ELSE {}

(* An update that got through is never forgotten: whatever was lost before *)
(* or since, however old the snapshot that made the book, a book that is   *)
(* there includes it.                                                      *)
NothingForgotten ==
    \A i \in Instruments : (health[i] = "sound" /\ sequencer[i].ready) =>
        \A p \in Published(i, position - 1) : p \in lost \/ p \in book[i]

StartsOver(i) == sequencer[i].ready /\ ~sequencer'[i].ready

OwnLoss(i) ==
    \E p \in Chain(i, position - 1) :
        /\ p > sequencer[i].last
        /\ p \in lost \/ script[p].update_type \in Ignored

(* A sequencer starts over, clearing its book, only when the instrument's  *)
(* own chain has a link, later than anything in the book, that was lost or *)
(* that the code ignores (STALE): losses of the other instruments of the   *)
(* channel do no harm, nor do losses, however many, that a snapshot has    *)
(* made good.                                                              *)
StartsOverByOwnLossOnly ==
    [][\A i \in Instruments :
          StartsOver(i) => health'[i] # "sound" \/ OwnLoss(i)]_vars

GoesBack(i) == book'[i] # {} /\ ~(book[i] \subseteq book'[i])

SnapshotInChannel(i) ==
    position' # position /\ IsOf(i, position) /\ script[position].update_type = "SNAPSHOT"

(* A snapshot channel that lags, or runs ahead, never takes a book back:   *)
(* only a snapshot in the incremental channel itself could ("use_snapshot"). *)
NeverBackwards ==
    [][\A i \in Instruments :
          GoesBack(i) => SnapshotInChannel(i) \/ health'[i] # "sound"]_vars

(* After whatever losses, an instrument whose last incremental update came *)
(* through ends up with the publisher's book.  Of one whose last update    *)
(* was lost nothing is promised: a ready sequencer is shown no snapshot,   *)
(* and a STALE message does not tell it that it missed something.  Nor of  *)
(* one whose callback raised, or that took in a torn message: a ready      *)
(* sequencer does not know what its book is missing.                       *)
LastUpdateReceived(i) ==
    \A p \in Published(i, Len(script)) :
        p \in lost => \E q \in Published(i, Len(script)) : q > p

Recovers ==
    \A i \in Instruments :
        (position > Len(script) /\ LastUpdateReceived(i))
            ~> (book[i] = Published(i, Len(script)) \/ health[i] # "sound")
=============================================================================

----------------------------- MODULE MCExperiment -----------------------------
(***************************************************************************)
(* Instances of Experiment: readings in thirds of a step, five steps to a  *)
(* kWh, days of ten half seconds, local clocks a second ahead; session 6   *)
(* has the normal form of session 5, and session 4 matches the pattern of  *)
(* "lab" although its id has another prefix.                               *)
(***************************************************************************)
EXTENDS Experiment

MCSessions == 1..6
MCNfc == [s \in MCSessions |-> IF s = 6 THEN 5 ELSE s]
MCScope == [lab |-> 1..6, other |-> {4}]

Local(c) == [clock |-> c, zone |-> "local", plain |-> TRUE]
Naive(c) == [clock |-> c, zone |-> "naive", plain |-> TRUE]
Spelled(c) == [clock |-> c, zone |-> "utc", plain |-> FALSE]     \* ".000Z" or ".5Z"

R(ts, import, export) == [ts |-> ts, import |-> import, export |-> export, energy |-> 0]
Priced(from, to, price) == [from |-> from, to |-> to, price |-> price]

Body(type, start, readings, parts) ==
    [type |-> type, start |-> start, end |-> UtcText(Instant(start) + 5),
     meters |-> readings, components |-> parts,
     import_components |-> <<>>, export_components |-> <<>>]

Flat(start) == <<Priced(start, UtcText(Instant(start) + 5), 7)>>

Exact == <<R(UtcText(3), 0, 0), R(UtcText(5), 9, 0), R(UtcText(7), 18, 6)>>
Charge == Body("charge_only", UtcText(3), Exact, Flat(UtcText(3)))

\* Bodies that a client may post: what is accepted and what is not.
Bodies ==
    {Charge,
     [Charge EXCEPT !.type = Missing],
     [Charge EXCEPT !.type = "swap"],
     [Charge EXCEPT !.start = Naive(3)],
     [Charge EXCEPT !.start = Local(5)],
     [Charge EXCEPT !.components =
        <<Priced(UtcText(2), UtcText(5), 4), Priced(UtcText(5), UtcText(9), 8)>>],
     [Charge EXCEPT !.import_components =
        <<Priced(Local(5), UtcText(6), 11), Priced(UtcText(6), UtcText(7), 2)>>],
     [Charge EXCEPT !.components = <<Priced(Naive(3), UtcText(8), 4)>>],
     [Charge EXCEPT !.end = UtcText(3)]}
      \cup {Body("bidirectional", UtcText(3), readings, Flat(UtcText(3))) : readings \in
     {<<R(UtcText(3), 1, 0), R(UtcText(7), 5, 0)>>,
      <<R(UtcText(3), 1, 2), R(UtcText(5), 2, 2), R(UtcText(7), 4, 8)>>,
      <<R(UtcText(3), 0, 1), R(UtcText(7), 3, 5)>>,
      <<R(UtcText(3), 0, 0), R(UtcText(5), 7, 0), R(UtcText(6), 9, 1), R(UtcText(7), 11, 6)>>,
      <<R(UtcText(3), 0, 0), R(UtcText(5), 7, 0), R(UtcText(7), 9, 1), R(UtcText(8), 11, 6)>>,
      <<R(UtcText(4), 0, 0), R(UtcText(6), 9, 3), R(UtcText(7), 9, 3)>>,
      <<R(UtcText(4), 0, 0), R(UtcText(6), 9, 3), R(UtcText(7), 6, 3)>>,
      <<R(Spelled(4), 0, 0), R(UtcText(6), 9, 3)>>,
      <<R(UtcText(4), 0, 0), R(Spelled(7), 9, 3)>>,
      <<R(Spelled(6), 0, 0), R(Spelled(7), 6, 3), R(UtcText(7), 6, 3)>>,
      <<R(UtcText(7), 18, 0), R(UtcText(3), 0, 0), R(UtcText(5), 9, 0)>>,
      <<R(UtcText(3), 0, 0), R(UtcText(3), 3, 0), R(UtcText(6), 6, 3)>>,
      <<R(UtcText(3), 0, 0), R(Local(5), 3, 0), R(UtcText(6), 6, 3)>>,
      <<R(UtcText(3), 0, 0), R(Local(4), 3, 0)>>,
      <<R(Naive(3), 0, 0), R(Naive(5), 9, 0)>>,
      <<R(UtcText(3), 9, 0), R(UtcText(5), 0, 0)>>,
      <<R(UtcText(3), Missing, 0), R(UtcText(5), 9, 0)>>,
      <<R(UtcText(3), 0, 0)>>}}

\* A session that starts at a text, for the closing of days.
At(start) ==
    Body("charge_only", start,
         <<R(UtcText(Instant(start)), 0, 0), R(UtcText(Instant(start) + 5), 9, 0)>>, Flat(start))

NoPosts == [s \in MCSessions |-> {}]
NoWork == [posts |-> NoPosts, closings |-> {}, sweeps |-> {}, tampering |-> {}, matrices |-> {}]

\* One client posts anything.
Posting == [NoWork EXCEPT !.posts = [NoPosts EXCEPT ![1] = Bodies], !.tampering = {1}]

\* Batches of one to five sessions, two of which start together.
Batches == [NoWork EXCEPT !.closings = {<<0, "lab", "v1">>},
              !.posts = [s \in MCSessions |->
                 CASE s = 1 -> {At(UtcText(4))} [] s = 2 -> {At(UtcText(0))}
                   [] s = 3 -> {At(Local(6))}   [] s = 4 -> {At(UtcText(9))}
                   [] s = 5 -> {At(UtcText(2))} [] s = 6 -> {}]]

\* Days that begin earlier on local clocks, and two sessions of one normal
\* form.
Days == [NoWork EXCEPT !.closings = {<<0, "lab", "v1">>}, !.sweeps = {"lab"},
           !.posts = [NoPosts EXCEPT ![1] = {At(UtcText(0)), At(Local(11))},
                                     ![2] = {At(UtcText(10))},
                                     ![5] = {At(UtcText(12))},
                                     ![6] = {At(UtcText(3))}]]

\* The matrix over a batch of one or two, with rows of both profiles.
Tampering == [NoWork EXCEPT !.closings = {<<0, "lab", "v1">>, <<0, "lab", "legacy">>},
                !.tampering = {1},
                !.posts = [NoPosts EXCEPT ![1] = {Charge},
                                          ![2] = {At(UtcText(4))}],
                !.matrices = {[day |-> 0, prefix |-> "lab", session |-> 1, anchor |-> id] :
                                id \in 0..1}]

\* Clients beside a run: they post one of its sessions and a third and tamper
\* with the other; then also close the day, and replace a member.
Beside == [NoWork EXCEPT !.tampering = {2},
             !.posts = [NoPosts EXCEPT ![1] = {At(UtcText(1))}, ![4] = {At(UtcText(2))}]]

Contesting == [Beside EXCEPT !.closings = {<<0, "lab", "v1">>}, !.posts[6] = {At(UtcText(2))}]

Clients == [posting |-> Posting, batches |-> Batches, days |-> Days, tampering |-> Tampering,
            running |-> Beside, contested |-> Contesting,
            empty |-> NoWork, composed |-> NoWork, escaped |-> NoWork]

\* Runs of two sessions, of none, with an id that is not in normal form, and
\* with an id that the pattern of the run does not match.
Charging == [types |-> {"charge_only"}, starts |-> {0}, deltas |-> {<<4, 7>>}]

Runs == [running |-> [prefix |-> "lab", ids |-> <<1, 2>>, made |->
            <<[types |-> SessionTypes, starts |-> {3}, deltas |-> {<<4, 4, 4, 4>>, <<5, 4, 7, 4>>}],
              [Charging EXCEPT !.starts = {0, 10}]>>],
         contested |-> [prefix |-> "lab", ids |-> <<1, 2>>, made |-> <<Charging, Charging>>],
         empty |-> [prefix |-> "lab", ids |-> <<>>, made |-> <<>>],
         composed |-> [prefix |-> "lab", ids |-> <<6>>, made |-> <<Charging>>],
         escaped |-> [prefix |-> "other", ids |-> <<4, 1>>, made |-> <<Charging, Charging>>]]

Made(choice) ==
    UNION {{GeneratedSession(type, start, 2, deltas, discharge, 7) :
              discharge \in DischargeIntervals(type, Len(deltas))} :
             type \in choice.types, start \in choice.starts, deltas \in choice.deltas}

MCRun(r) == [prefix |-> r.prefix, day |-> 0, ids |-> r.ids,
             sessions |-> [s \in Range(r.ids) |-> Made(r.made[CHOOSE k \in DOMAIN r.ids : r.ids[k] = s])]]

MCWork == [w \in DOMAIN Clients |->
             Clients[w] @@ [run |-> IF w \in DOMAIN Runs THEN MCRun(Runs[w]) ELSE Absent]]
=============================================================================

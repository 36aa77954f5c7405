----------------------------- MODULE MCDemoStore -----------------------------
(* One player's journeys against the Demo's store, each with a rival. *)
EXTENDS DemoStore

MCTasks == 1..2

\* The player's second character.
Away == 50

MCSeed ==
    [rows |-> {Binding("player")}
        \cup CreationRows([who |-> "player", key |-> "home", body |-> "brave"], Home)
        \cup CreationRows([who |-> "player", key |-> "away", body |-> "bold"], Away),
     sess |-> <<>>, snap |-> <<>>, position |-> <<>>, jobs |-> {}, progress |-> <<>>]

Ask(op, key) ==
    [op |-> op, who |-> "player", key |-> key, offer |-> None, char |-> Home, rev |-> 1,
     world |-> "death_certificate", body |-> "brave", kind |-> "RETIRE", confirmed |-> TRUE,
     pick |-> "open", run |-> None, version |-> None, session |-> None, seen |-> None]

In(world, q) == [q EXCEPT !.world = world]
Admit(world) == In(world, Ask("admit", "in"))
Turn1(key) == Ask("turn", key)
End(key, pick) == [Ask("turn", key) EXCEPT !.pick = pick]
By(x, q) == [q EXCEPT !.char = x]
Newcomer(q) == [q EXCEPT !.who = "newcomer"]
Outer(q) == [q EXCEPT !.world = "outside"]
Do(op) == Ask(op, op)
Confirm(pick) == [Ask("confirm", "none") EXCEPT !.offer = 1, !.pick = pick]

\* To the end of the journey through the second world.
Onwards == <<Admit("death_certificate"), End("a", "onward"), Do("continue"), End("b", "onward"),
             Do("revisit"), End("c", "onward"), Do("complete")>>
Patrol == <<Admit("fog_station"), End("a", "onward"), Do("continue"), Turn1("b"), Turn1("c"),
            Turn1("d"), Do("exit")>>
Job(key) == <<Ask("prepare_job", key), Ask("claim", key), Ask("propose", key), Ask("finish", key)>>

MCScripts == {
    [t \in MCTasks |-> IF t = 1 THEN Onwards ELSE rival] : rival \in {
        <<Do("continue")>>, <<Do("revisit")>>, <<Do("complete")>>, <<Do("exit")>>, <<Turn1("z")>>,
        <<End("b", "final"), Do("exit")>>, <<Do("mutate")>>, <<Admit("death_certificate")>>,
        <<Ask("prepare_job", "z"), Ask("claim", "z"), Ask("expire", "z")>>}
} \cup {
    [t \in MCTasks |-> IF t = 1 THEN Patrol ELSE rival] : rival \in {
        <<Do("exit")>>, <<Do("continue")>>, <<Turn1("b")>>, Job("z")}
} \cup {
    <<<<Admit("station"), Turn1("a"), Do("continue"), End("b", "final"), Do("exit"), Admit("station")>>,
      <<Ask("enter", "in"), Do("mutate")>>>>,
    <<<<Outer(Ask("create_session", "k"))>> \o [i \in 1..4 |-> Outer(Job("j")[i])],
      <<Outer(Ask("create_session", "k")), Outer(Turn1("a")), Outer(End("b", "final"))>>>>,
    <<<<Outer(Ask("create_session", "k"))>> \o [i \in 1..4 |-> Outer(Job("j")[i])],
      [i \in 1..4 |-> Outer(Job("j")[i])]>>,
    <<<<Outer(Ask("create_session", "k"))>> \o [i \in 1..4 |-> Outer(Job("j")[i])],
      <<Outer(Ask("expire", "j")), Outer(Ask("prepare_job", "j")), Outer([Turn1("a") EXCEPT !.pick = "look"])>>>>,
    <<<<Do("prepare"), Confirm("first"), End("a", "final"), Do("exit")>>,
      <<Do("prepare"), Confirm("second"), Admit("station")>>>>,
    <<<<Admit("station"), Turn1("a"), By(Away, Admit("fog_station"))>>,
      <<By(Away, Admit("station")), By(Away, Do("mutate"))>>>>,
    <<<<Ask("enter", "in")>>, <<By(Away, Ask("enter", "in")), By(Away, Do("mutate"))>>>>,
    <<<<Do("prepare"), Confirm("first"), Confirm("first")>>, <<Confirm("first"), Admit("station")>>>>,
    <<<<Ask("create", "k"), Do("mutate")>>, <<Ask("create", "k"), Do("mutate"), Ask("enter", "in")>>>>,
    <<<<Do("prepare"), Confirm("first")>>, <<By(Away, Do("prepare")), By(Away, Do("prepare"))>>>>,
    <<<<Newcomer(Ask("create", "k"))>>, <<Newcomer(Ask("create", "k")), Newcomer(Ask("create", "l"))>>>>
}
=============================================================================

---------------------------- MODULE MCCharacterEntry ----------------------------
(* Mixes of four calls against one player's character, and a newcomer. *)
EXTENDS CharacterEntry

MCCalls == 1..4
MCSeed == {Binding("player")} \cup
    CreationRows([who |-> "player", key |-> "home", body |-> "brave"], Home)

Ask(op, key) ==
    [op |-> op, who |-> "player", key |-> key, offer |-> None, char |-> Home, rev |-> 1,
     world |-> "station", body |-> "brave", kind |-> "RETIRE", confirmed |-> TRUE,
     pick |-> "first", run |-> None, version |-> None, session |-> None]
Newcomer(q) == [q EXCEPT !.who = "newcomer"]
Create(key, body) == [Ask("create", key) EXCEPT !.body = body]
Mutate(key, kind, rev) == [Ask("mutate", key) EXCEPT !.kind = kind, !.rev = rev]
Enter(key) == Ask("enter", key)
Admit(key) == Ask("admit", key)
Prepare(key) == Ask("prepare", key)
Confirm(offer, pick) == [Ask("confirm", "none") EXCEPT !.offer = offer, !.pick = pick]
Exit(run) == [Ask("exit", "out") EXCEPT !.run = run]
Bind(run, version) == [Ask("bind", "bind") EXCEPT !.run = run, !.version = version]
Attach(run, session, version) ==
    [Ask("attach", "attach") EXCEPT !.run = run, !.session = session, !.version = version]
CreateSession(body) == [Ask("create_session", "k") EXCEPT !.body = body]
Elsewhere(q) == [q EXCEPT !.world = "nowhere"]
Second(q) == [q EXCEPT !.rev = 2]
Forged(q, offer) == [q EXCEPT !.key = "opening", !.offer = offer]

MCScripts == {
    <<Newcomer(Create("k", "brave")), Newcomer(Create("k", "brave")),
      Newcomer(Create("k", "shy")), Newcomer(Create("l", "shy"))>>,
    <<Create("home", "brave"), Create("k", "shy"), Create("k", "brave"),
      Mutate("m", "RETIRE", 1)>>,
    <<[Mutate("m", "RETIRE", 1) EXCEPT !.char = 2], Create("k", "shy"),
      [Admit("n") EXCEPT !.char = 2], [Enter("n") EXCEPT !.char = 2]>>,
    <<Mutate("m", "RETIRE", 1), Mutate("m", "RETIRE", 1), Mutate("n", "FINAL_DEATH", 2),
      Mutate("m", "FINAL_DEATH", 1)>>,
    <<Mutate("m", "REACTIVATE", 1), Newcomer(Mutate("n", "RETIRE", 1)),
      Mutate("n", "FINAL_DEATH", 4), [Mutate("m", "RETIRE", 1) EXCEPT !.confirmed = FALSE]>>,
    <<Admit("k"), Enter("k"), Mutate("m", "RETIRE", 1), Enter("k")>>,
    <<Mutate("m", "RETIRE", 1), Second(Admit("k")), Second(Enter("k")), Second(Prepare("k"))>>,
    <<Admit("k"), Admit("k"), Exit(1), Elsewhere(Admit("k"))>>,
    <<Admit("k"), Exit(1), Admit("l"), Mutate("m", "FINAL_DEATH", 1)>>,
    <<Prepare("k"), Prepare("l"), Enter("k"), Admit("l")>>,
    <<Prepare("k"), Confirm(1, "first"), Confirm(1, "first"), Confirm(1, "second")>>,
    <<Prepare("k"), Confirm(1, "first"), Exit(2), Confirm(1, "first")>>,
    <<Prepare("k"), Confirm(1, "first"), Exit(2), Prepare("l")>>,
    <<Prepare("k"), Confirm(1, "neither"), Mutate("m", "RETIRE", 1), Enter("l")>>,
    <<Prepare("k"), Confirm(1, "second"), Forged(Admit("k"), 1), Mutate("m", "FINAL_DEATH", 1)>>,
    <<Elsewhere(Prepare("k")), Elsewhere(Enter("k")), Prepare("k"), Newcomer(Confirm(3, "first"))>>,
    <<Ask("create_run", "k"), Bind(1, 1), CreateSession("brave"), Attach(1, 3, 2)>>,
    <<Ask("create_run", "k"), Bind(1, 1), Admit("k"), Mutate("m", "RETIRE", 1)>>,
    <<Ask("create_run", "k"), Bind(1, 1), Prepare("k"), Confirm(3, "first")>>,
    <<Ask("create_run", "k"), Ask("create_run", "k"), CreateSession("brave"), Attach(1, 3, 1)>>,
    <<CreateSession("brave"), CreateSession("brave"), CreateSession("shy"), Enter("k")>>,
    <<Admit("k"), CreateSession("brave"), Attach(1, 2, 3), Attach(1, 1, 3)>>
}
=============================================================================

---------------------------- MODULE MCStoryDirector ----------------------------
(* The scenarios of config/scenarios/ and drafts of our own, each played in *)
(* every way: every choice, every outcome, every beat.                      *)
EXTENDS StoryDirector, ScenarioDrafts

MCDrafts ==
    [death_certificate |-> DeathCertificate, receipt_archive |-> ReceiptArchive,
     undelivered_receipt |-> UndeliveredReceipt, fog_patrol |-> FogPatrol,
     fog_station |-> FogStation, wind_gate |-> WindGate, annex |-> Annex,
     spinning |-> Spinning, stranded |-> Stranded, gated |-> Gated]

\* No step reads what the last request was told, and of the narrated outcomes only
\* which rules they took and who acknowledged: the other differences are left out.
MCView ==
    <<scenario, tags, [runtime EXCEPT !.outcomes = {o.rule : o \in @}],
      Acknowledged(D, runtime), answer \cap EngineReasons>>

MCDeathCertificate == [death_certificate |-> DeathCertificate]
=============================================================================

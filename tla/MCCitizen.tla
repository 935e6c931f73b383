----------------------------- MODULE MCCitizen -----------------------------
(* Instances of Citizen for TLC: one citizen "cit" working on "ctx". *)
EXTENDS CitizenTelemetry, TLC

MCToken == {"cit", "ctx", "other", "mesh"}

MCLineEnd == {<<"event, newline", "event">>}

(* What a payload may try: another citizen's subject, one of no pattern,   *)
(* its own with a newline behind it.                                       *)
MCAsked == {<<"acta", "other", "ctx", "event">>, <<"no", "such">>,
            <<"acta", "cit", "ctx", "event, newline">>}

Granted == transport_grant("cit", "ctx")
NothingGranted == {}
GrantedUpper == transport_grant("cit", "CTX")

(* Socket connections are interchangeable. *)
Peers == Permutations(Client)
=============================================================================

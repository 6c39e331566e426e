-------------------------- MODULE MC_SettingsApply --------------------------
(***************************************************************************)
(* Two provider keys, the master key, two values; every kind of body: one  *)
(* variable, two, none, an unprintable value, a variable the page may not  *)
(* write.                                                                  *)
(***************************************************************************)
EXTENDS SettingsApply, TLC

CONSTANTS KeyA, KeyB, Set, Empty, Bad, Master

Bodies ==
  {NoUpdate, KeyA :> Set, KeyA :> Empty, KeyA :> Set @@ KeyB :> Set,
   KeyB :> Bad, Master :> Empty}

=============================================================================

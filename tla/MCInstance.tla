------------------------------ MODULE MCInstance ------------------------------
(* The accounts of an instance, what it says about itself, and its handlers as the  *)
(* conformance suite walks through them, for TLC.  The three share no state, so a    *)
(* run is about one of them: `part` says which, and the variables of the others      *)
(* stay as they are.                                                             *)
EXTENDS InstanceAccounts, TLC

CONSTANTS MaxChanges, MaxTroubles

VARIABLES
  part,
  env, policySaved, database, homeserver, cached, expired, probe, run, settled, changes,
  inst, args, mem, step, failed, steady, troubles

Public == INSTANCE Discovery WITH saved <- policySaved, steady <- settled
Surface == INSTANCE SurfaceConformance

ASSUME PartsAssumption ==
  /\ Public!DiscoveryAssumption
  /\ Surface!SurfaceAssumption

publicVars ==
  <<env, policySaved, database, homeserver, cached, expired, probe, run, settled, changes>>
surfaceVars == <<inst, args, mem, step, failed, steady, troubles>>

Off == "off"
PublicOff ==
  /\ env = Off /\ policySaved = Off /\ database = Off /\ homeserver = Off /\ cached = Off
  /\ expired = Off /\ probe = Off /\ run = Off /\ settled = Off /\ changes = Off
SurfaceOff ==
  /\ inst = Off /\ args = Off /\ mem = Off /\ step = Off /\ failed = Off /\ steady = Off
  /\ troubles = Off

InstanceInit ==
  /\ part \in {"accounts", "public", "surface"} /\ Init
  /\ IF part = "public" THEN Public!Init ELSE PublicOff
  /\ IF part = "surface" THEN Surface!Init ELSE SurfaceOff

InstanceNext ==
  /\ UNCHANGED part
  /\ \/ part = "accounts" /\ Next /\ UNCHANGED <<publicVars, surfaceVars>>
     \/ part = "public" /\ Public!Next /\ UNCHANGED <<vars, surfaceVars>>
     \/ part = "surface" /\ Surface!Next /\ UNCHANGED <<vars, publicVars>>

InstanceSpec ==
  InstanceInit /\ [][InstanceNext]_<<part, vars, publicVars, surfaceVars>>

(* Discovery: a settled instance claims nothing it cannot keep, and its endpoints   *)
(* agree, while verdicts expire and probes land.                                 *)
HonestInstanceConforms == part = "public" => Public!HonestInstanceConforms

(* SurfaceConformance: the handlers refuse as the suite expects, in every order of   *)
(* the walk but for two checks.                                                   *)
WalksThrough == part = "surface" => Surface!WalksThrough

Symmetry == Permutations(Requests) \union Permutations(Subjects)
===============================================================================

------------------------------- MODULE Deploy -------------------------------
(***************************************************************************)
(* The deployer (packages/deployer/src): a script that deploys the         *)
(* contracts in order, each with the addresses of earlier ones, writes a   *)
(* checkpoint after each, then wires them together.  It may stop anywhere, *)
(* in the middle of writing the checkpoint too, and is run again.          *)
(***************************************************************************)
EXTENDS Naturals, Sequences, SequencesExt

CONSTANTS
    Axelar,      \* is the Axelar gateway configured for the network?
    Markets,     \* number of markets in environments.toml
    MaxCrashes   \* bound on the runs that stop by themselves

ASSUME DeployConstants == Axelar \in BOOLEAN /\ Markets \in Nat /\ MaxCrashes \in Nat

Order == <<"usdc", "governor", "oracle", "treasury", "vault", "funding", "risk",
           "perp", "structured", "bridge">>
Targets == Range(Order)

\* The addresses a contract is given when it is built; "admin" is the
\* deployer's own, put where the contract is still to come.
Built(c) ==
    CASE c = "vault" -> [oracle |-> "oracle", risk |-> "admin", treasury |-> "treasury",
                         insurance |-> "treasury"]
      [] c = "funding" -> [oracle |-> "oracle", perp |-> "admin"]
      [] c = "risk" -> [vault |-> "vault", perp |-> "admin", funding |-> "funding",
                        oracle |-> "oracle", insurance |-> "treasury",
                        treasury |-> "treasury", token |-> "usdc"]
      [] c = "perp" -> [oracle |-> "oracle", vault |-> "vault", funding |-> "funding",
                        risk |-> "risk", treasury |-> "treasury", token |-> "usdc"]
      [] c = "bridge" -> [vault |-> "vault", treasury |-> "treasury"]
      [] OTHER -> [owner |-> "admin"]

\* Those that are built by a call of their own, after the checkpoint.
Initialised == {"governor", "treasury"} \cup (IF Axelar THEN {"bridge"} ELSE {})

\* What the wiring puts in the places of the placeholders.
Wired(c) ==
    CASE c = "vault" -> [Built(c) EXCEPT !.risk = "risk"]
      [] c \in {"funding", "risk"} -> [Built(c) EXCEPT !.perp = "perp"]
      [] OTHER -> Built(c)

Call(contract, op, who) == [to |-> contract, op |-> op, who |-> who]

Grants ==
    <<Call("vault", "grant", "perp"), Call("vault", "grant", "risk"),
      Call("treasury", "grant", "perp"), Call("treasury", "grant", "risk")>>

Wiring ==
    <<Call("vault", "rewire", "admin"), Call("funding", "rewire", "admin"),
      Call("risk", "rewire", "admin")>> \o Grants
    \o [i \in 1 .. Markets |-> Call("perp", "register", "admin")]
    \o IF Axelar THEN <<Call("bridge", "trust", "admin")>> ELSE <<>>

\* The command line names these arguments of register_market; the contract has others.
MarketArgs == {"market", "min_position_size", "price_impact_factor", "base_reserve",
               "quote_reserve"}
MarketTakes == {"market", "min_position_size", "skew_scale", "maker_rebate_bps"}

-----------------------------------------------------------------------------
VARIABLES
    net,      \* the instances of each contract: what each knows, or Blank
    granted,  \* pairs <<contract, caller>> of instances
    listed,   \* markets: pairs of an instance of perp and a place in the wiring
    disk,     \* the checkpoint on disk: None, or a record
    mem,      \* the record of the running script
    at,       \* where the script is
    place,    \* which contract, or which call of the wiring
    crashes

deployVars == <<net, granted, listed, disk, mem, at, place, crashes>>

None == [ids |-> [c \in Targets |-> 0], wired |-> FALSE, readable |-> FALSE]
Fresh == [None EXCEPT !.readable = TRUE]
Blank == [blank |-> TRUE]
Admin == <<"admin", 0>>

Id(r, c) == IF c = "admin" THEN Admin ELSE <<c, r.ids[c]>>
Knows(fields, r) == [role \in DOMAIN fields |-> Id(r, fields[role])]
At(id) == net[id[1]][id[2]]

DeployTypeOK ==
    /\ DOMAIN net = Targets /\ DOMAIN mem.ids = Targets
    /\ at \in {"off", "deploy", "save", "init", "wire", "mark", "finish", "done"}
    /\ crashes \in 0 .. MaxCrashes

DeployInit ==
    /\ net = [c \in Targets |-> <<>>] /\ granted = {} /\ listed = {}
    /\ disk = None /\ mem = Fresh
    /\ at = "off" /\ place = 1 /\ crashes = 0

-----------------------------------------------------------------------------
\* Mutant: what is built by a call of its own is deployed anew, to make sure.
LoadedAnew(d) ==
    IF d.readable THEN [d EXCEPT !.ids = [c \in Targets |->
                            IF c \in Initialised THEN 0 ELSE d.ids[c]]]
                  ELSE Fresh

\* A file that cannot be read or parsed is no checkpoint.
Loaded(d) == IF d.readable THEN d ELSE Fresh

Start ==
    /\ at \in {"off", "done"}
    /\ mem' = Loaded(disk) /\ at' = "deploy" /\ place' = 1
    /\ UNCHANGED <<net, granted, listed, disk, crashes>>

\* After the last contract comes the wiring, unless the record says it is done.
GoOn ==
    IF place < Len(Order)
        THEN at' = "deploy" /\ place' = place + 1
        ELSE at' = (IF mem.wired THEN "finish" ELSE "wire") /\ place' = 1

Cached ==
    /\ at = "deploy" /\ mem.ids[Order[place]] # 0
    /\ GoOn
    /\ UNCHANGED <<net, granted, listed, disk, mem, crashes>>

\* The token's contract has one address, whoever deploys it and how often.
Instance(c) == IF c = "usdc" THEN 1 ELSE Len(net[c]) + 1

DeployContract ==
    /\ at = "deploy"
    /\ LET c == Order[place]
           new == IF c \in Initialised \cup {"bridge", "structured"}
                      THEN Blank ELSE Knows(Built(c), mem)
       IN  /\ mem.ids[c] = 0
           /\ net' = [net EXCEPT ![c] =
                  IF Instance(c) > Len(@) THEN Append(@, new) ELSE @]
           /\ mem' = [mem EXCEPT !.ids[c] = Instance(c)]
    /\ at' = "save"
    /\ UNCHANGED <<granted, listed, disk, place, crashes>>

Save ==
    /\ at = "save" /\ disk' = mem
    /\ IF Order[place] \in Initialised THEN at' = "init" /\ UNCHANGED place ELSE GoOn
    /\ UNCHANGED <<net, granted, listed, mem, crashes>>

Initialise ==
    /\ at = "init"
    /\ LET c == Order[place]
       IN  net' = [net EXCEPT ![c][mem.ids[c]] = Knows(Built(c), mem)]
    /\ GoOn
    /\ UNCHANGED <<granted, listed, disk, mem, crashes>>

-----------------------------------------------------------------------------
\* A contract that was never initialised refuses every call, and perp a market
\* with other arguments or one that it has.
Accepts(call) ==
    /\ At(Id(mem, call.to)) # Blank
    /\ call.op = "register" =>
          MarketArgs = MarketTakes /\ <<Id(mem, call.to), place>> \notin listed

Effect(call) ==
    LET to == Id(mem, call.to)
    IN  /\ net' = IF call.op = "rewire"
                      THEN [net EXCEPT ![to[1]][to[2]] = Knows(Wired(call.to), mem)]
                      ELSE net
        /\ granted' = IF call.op = "grant"
                          THEN granted \cup {<<to, Id(mem, call.who)>>} ELSE granted
        /\ listed' = IF call.op = "register" THEN listed \cup {<<to, place>>} ELSE listed

Wire ==
    /\ at = "wire" /\ Accepts(Wiring[place])
    /\ Effect(Wiring[place])
    /\ IF place < Len(Wiring) THEN place' = place + 1 /\ UNCHANGED at
                             ELSE at' = "mark" /\ UNCHANGED place
    /\ UNCHANGED <<disk, mem, crashes>>

\* A refused call ends the script.
Refused ==
    /\ at = "wire" /\ ~Accepts(Wiring[place])
    /\ at' = "off"
    /\ UNCHANGED <<net, granted, listed, disk, mem, place, crashes>>

Mark ==
    /\ at = "mark" /\ at' = "finish"
    /\ mem' = [mem EXCEPT !.wired = TRUE] /\ disk' = mem'
    /\ UNCHANGED <<net, granted, listed, place, crashes>>

\* The deployment files are written once more.
WriteFiles ==
    /\ at = "finish" /\ at' = "done" /\ disk' = mem
    /\ UNCHANGED <<net, granted, listed, mem, place, crashes>>

\* The script stops: interrupted, or by a call that fails or whose answer is
\* lost.  While it writes, the file is cut short.
Crash ==
    /\ at \notin {"off", "done"} /\ crashes < MaxCrashes
    /\ crashes' = crashes + 1 /\ at' = "off"
    /\ \/ UNCHANGED disk
       \/ at \in {"save", "mark", "finish"} /\ disk' = None
    /\ UNCHANGED <<net, granted, listed, mem, place>>

-----------------------------------------------------------------------------
ScriptStep ==
    Cached \/ DeployContract \/ Save \/ Initialise \/ Wire \/ Refused \/ Mark \/ WriteFiles

DeployNext == Start \/ ScriptStep \/ Crash

\* A script that runs goes on, and is run again when it has stopped.
DeployFairness == WF_deployVars(Start) /\ WF_deployVars(ScriptStep)

DeploySpec == DeployInit /\ [][DeployNext]_deployVars /\ DeployFairness

-----------------------------------------------------------------------------
(* Properties *)

Recorded(r, c) == r.ids[c] # 0 /\ At(Id(r, c)) # Blank

\* Contracts recorded together know each other: whatever was deployed twice, none
\* of them holds the address of an instance the record has not, or no longer.
KnowTheRecorded ==
    \A r \in {mem, disk} : \A c \in Targets : Recorded(r, c) =>
        Range(At(Id(r, c))) \subseteq {Admin} \cup {Id(r, d) : d \in Targets}

\* No placeholder is left, the callers are allowed, and the treasury and the
\* bridge have been initialised.
Working ==
    /\ disk.wired
    /\ \A c \in {"vault", "funding", "risk", "perp", "treasury"} :
           At(Id(disk, c)) = Knows(Wired(c), disk)
    /\ \A c \in {"vault", "treasury"}, d \in {"perp", "risk"} :
           <<Id(disk, c), Id(disk, d)>> \in granted
    /\ Axelar => Recorded(disk, "bridge")

\* Run again after every stop, the script ends with the contracts wired, and what
\* the checkpoint says is wired works; unless it once stopped between the
\* checkpoint of the treasury, or of the bridge, and the call that initialises
\* it, which no later run makes.
WorksOrStaysBlank ==
    \/ <>[]Working
    \/ <>[](\E c \in {"treasury", "bridge"} : disk.ids[c] # 0 /\ ~Recorded(disk, c))
=============================================================================

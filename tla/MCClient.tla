------------------------------ MODULE MCClient ------------------------------
(***************************************************************************)
(* The programs that call the contracts, for TLC: the order form, the view *)
(* of the positions, another form and a value of its page, the deployer.   *)
(* Each runs by itself; a behaviour is one of them, and the others are at  *)
(* rest in it.  The three modules of the web client share the variables of *)
(* WalletTx.                                                               *)
(***************************************************************************)
EXTENDS OrderForm, Positions, Console, Deploy, Terminal, Charts

CONSTANTS alice, bob, p1, s1, s2

AllCalls ==
    {"open", "openWithUpdate", "place", "stop", "entry", "tp", "sl", "link", p1}

OneOwner == [p \in Positions |-> alice]
Losses == {-1}

AllForms ==
    TradingAccountCard \cup CollateralVaultCard \cup DepositPage \cup SubAccountMoves
    \cup SubAccountTransfer \cup SpotSwapPanel \cup StructuredVaultCard
    \cup SlpVaultCard \cup SlpAdminPage \cup StakingPage \cup TreasuryPanel
    \cup LendingCard \cup OpenOrdersTable \cup ProtocolStatus \cup NewProposalForm
    \cup ProposalLookup \cup BridgeLockForm

VARIABLE program

positionsOwn == <<eventVars, indexed, tabVars>>
consoleOwn == <<facts, amountVars, ledger, replica, cacheVars>>
clientVars == <<program, txVars, formVars, effectVars, positionsOwn, consoleOwn, deployVars>>

\* Another form at rest: the page shows what is on the ledger.
FormAtRest ==
    /\ facts \in {Facts(f, "vaultBalance", "none") : f \in DepositPage}
    /\ shown = "before"

ClientInit ==
    /\ program \in {"order", "positions", "console", "deploy"}
    /\ OrderInit /\ (program # "order" => nextNonce = 0)
    /\ PositionsInit
    /\ ConsoleInit /\ (program # "console" => FormAtRest)
    /\ DeployInit

\* What the other programs have is left alone.
ButOrder == UNCHANGED <<program, positionsOwn, consoleOwn, deployVars>>
ButPositions == UNCHANGED <<program, formVars, effectVars, consoleOwn, deployVars>>
ButConsole == UNCHANGED <<program, formVars, effectVars, positionsOwn, deployVars>>
ButDeploy == UNCHANGED <<program, txVars, formVars, effectVars, positionsOwn, consoleOwn>>

ClientNext ==
    \/ program = "order" /\ OrderNext /\ ButOrder
    \/ program = "positions" /\ PositionsNext /\ ButPositions
    \/ program = "console" /\ ConsoleNext /\ ButConsole
    \/ program = "deploy" /\ DeployNext /\ ButDeploy

\* PositionsFairness and ConsoleFairness, of the program that runs.
Indexing == program = "positions" /\ IndexNext /\ ButPositions
Fetching(t) == program = "positions" /\ (\E g \in BOOLEAN : Fetch(t, g)) /\ ButPositions
Delivering(t, a) == program = "positions" /\ Deliver(t, a) /\ ButPositions
ClientFairness ==
    /\ WF_clientVars(Indexing)
    /\ \A t \in Tabs :
          /\ WF_clientVars(Fetching(t))
          /\ \A a \in RowsAnswer : WF_clientVars(Delivering(t, a))
    /\ WF_clientVars(program = "console" /\ RunStep /\ ButConsole)
    /\ WF_clientVars(program = "console" /\ Sweep /\ ButConsole)
    /\ WF_clientVars(program = "console" /\ Poll /\ ButConsole)
    /\ WF_clientVars(program = "console" /\ Read /\ ButConsole)
    /\ SF_clientVars(program = "console" /\ Answer /\ ButConsole)
    /\ WF_clientVars(program = "console" /\ Replicate /\ ButConsole)

ClientSpec == ClientInit /\ [][ClientNext]_clientVars /\ ClientFairness
=============================================================================

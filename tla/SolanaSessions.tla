---------------------------- MODULE SolanaSessions ----------------------------
(***************************************************************************)
(* Concurrent stake transactions of one Solana wallet: what the package    *)
(* reads to build a message (packages/solana/src/solana-chain/tx/          *)
(* tx-builder.ts), how the message is signed in process or by an external  *)
(* signer (services/sign-service.ts), and the broadcast with the retry     *)
(* that its errors ask for (rpc/solana-rpc-client.ts, README.md:625),      *)
(* against a chain whose blockhashes expire and which other transactions   *)
(* change between two reads.                                               *)
(*                                                                         *)
(* A blockhash is the block height it was issued at; a message is what it  *)
(* does, to which account, with which lamports, under which blockhash, so  *)
(* that two equal messages are one transaction, as on the chain.           *)
(***************************************************************************)
EXTENDS Integers, FiniteSets

CONSTANTS
  Session,      \* callers that each want one transaction
  Amount,       \* amounts a caller may ask to delegate
  SeedScanMax,  \* seedScanMax
  MinDelegation, Rent, BaseFee, PriorityFee, WalletMin, \* the chain's
  Cushion,      \* DELEGATE_BASE_FEE_CUSHION_LAMPORTS
  Validity,     \* blocks for which a blockhash is valid
  EpochBlocks,  \* blocks of an epoch
  MaxAttempts,  \* the caller's maxAttempts
  MaxHeight, MaxDeposits  \* bounds

ASSUME SessionsAssumption ==
  /\ Amount \subseteq Nat \ {0}
  /\ {SeedScanMax, MinDelegation, Rent, BaseFee, PriorityFee, WalletMin,
      Validity, MaxAttempts, MaxHeight, MaxDeposits} \subseteq Nat
  /\ Cushion \in Nat /\ Cushion >= BaseFee
  /\ EpochBlocks \in Nat \ {0}

VARIABLES
  height,    \* block height of the chain
  account,   \* the stake accounts at the seeds of the wallet
  wallet,    \* lamports of the wallet
  pool,      \* transactions a node has accepted and not yet executed
  landed,    \* messages executed
  refused,   \* transactions a node or the chain refused to execute
  deposits,  \* how many deposits there have been
  skipPreflight, \* broadcastOptions.skipPreflight, fixed
  session

vars == <<height, account, wallet, pool, landed, refused, deposits, skipPreflight, session>>
chainVars == <<height, account, wallet, pool, landed, refused, deposits, skipPreflight>>

Seed == 0 .. SeedScanMax
Type == {"Delegate", "Undelegate", "ClaimDelegate"}
Never == -1   \* U64_MAX, the deactivation epoch of stake not deactivated
Key == {"wallet", "other"}

\* "Foreign" belongs to another program, "Alien" to another authority,
\* "Unreadable" does not decode, and "Uninitialized", which stands for a
\* RewardsPool too, names no authority and no lockup.
Kind == {"None", "Foreign", "Alien", "Unreadable", "Uninitialized", "Initialized", "Stake"}
Stored == [kind : Kind, lamports : Nat, deact : Nat \cup {Never}, lockup : Nat]
NoAccount == [kind |-> "None", lamports |-> 0, deact |-> Never, lockup |-> 0]

Message == [type : Type, seed : Seed, lamports : Nat, hash : Nat]
Transaction == [msg : Message, sig : [key : Key, over : Message]]
NoMessage == [type |-> "Delegate", seed |-> 0, lamports |-> 0, hash |-> 0]
SignedBy(key, m) == [msg |-> m, sig |-> [key |-> key, over |-> m]]

\* What estimateFee returns, or a total the caller made up.
Quoted == BaseFee + PriorityFee
Intent ==
  [type : {"Delegate"}, seed : {0}, amount : Amount, fee : {0, Quoted}]
    \cup [type : {"Undelegate", "ClaimDelegate"}, seed : Seed, amount : {0}, fee : {0}]

SessionRec ==
  [pc : {"idle", "reading", "built", "signed", "expired", "error", "sent", "threw"},
   intent : Intent, attempt : Nat, need : SUBSET {"hash", "balance", "account", "clock"},
   hash : Nat, balance : Nat, account : Stored,
   msg : Message, tx : Transaction, posted : SUBSET Transaction, warned : BOOLEAN]

TypeOK ==
  /\ {height, wallet, deposits} \subseteq Nat
  /\ account \in [Seed -> Stored]
  /\ pool \subseteq Transaction /\ refused \subseteq Transaction
  /\ landed \subseteq Message
  /\ skipPreflight \in BOOLEAN
  /\ session \in [Session -> SessionRec]

Idle ==
  [pc |-> "idle", intent |-> [type |-> "Undelegate", seed |-> 0, amount |-> 0, fee |-> 0],
   attempt |-> 0, need |-> {}, hash |-> 0, balance |-> 0, account |-> NoAccount,
   msg |-> NoMessage, tx |-> SignedBy("wallet", NoMessage), posted |-> {}, warned |-> FALSE]

Init ==
  /\ height = 0
  /\ account \in [Seed -> Stored]
  /\ wallet \in Nat
  /\ pool = {} /\ landed = {} /\ refused = {}
  /\ deposits = 0
  /\ skipPreflight \in BOOLEAN
  /\ session = [s \in Session |-> Idle]

-----------------------------------------------------------------------------
(* The chain.  These are the rules the builder's own checks anticipate,    *)
(* and two it leaves to the chain: the rest of a cooldown, and that a      *)
(* payer is left with nothing or with its own rent minimum.                *)

Epoch == height \div EpochBlocks
Fee == Quoted
Expired(m) == height > m.hash + Validity
InForce(a, epoch) == a.lockup > epoch
Cooling(a) == a.deact # Never /\ a.deact >= Epoch
RentPaid(left) == left = 0 \/ left >= WalletMin

Accepts(m) ==
  LET a == account[m.seed] IN
  /\ wallet >= Fee
  /\ \/ /\ m.type = "Delegate"
        /\ a.kind = "None"
        /\ wallet >= Fee + m.lamports
        /\ RentPaid(wallet - Fee - m.lamports)
     \/ /\ m.type = "Undelegate"
        /\ a.kind = "Stake" /\ a.deact = Never
        /\ RentPaid(wallet - Fee)
     \/ /\ m.type = "ClaimDelegate"
        /\ \/ a.kind = "Initialized"
           \/ a.kind = "Stake" /\ a.deact # Never /\ ~Cooling(a)
        /\ ~InForce(a, Epoch)
        /\ (a.lamports = m.lamports \/ a.lamports >= m.lamports + Rent)
        /\ RentPaid(wallet - Fee + m.lamports)

Verifies(t) == t.sig = [key |-> "wallet", over |-> t.msg]

After(m) ==
  LET a == account[m.seed] IN
  CASE m.type = "Delegate" ->
         [kind |-> "Stake", lamports |-> m.lamports, deact |-> Never, lockup |-> 0]
    [] m.type = "Undelegate" -> [a EXCEPT !.deact = Epoch]
    [] m.type = "ClaimDelegate" ->
         IF a.lamports = m.lamports THEN NoAccount ELSE [a EXCEPT !.lamports = @ - m.lamports]

Paid(m) ==
  CASE m.type = "Delegate" -> -m.lamports
    [] m.type = "Undelegate" -> 0
    [] m.type = "ClaimDelegate" -> m.lamports

Land(t) ==
  /\ t \in pool /\ t.msg \notin landed
  /\ Verifies(t) /\ Accepts(t.msg) /\ ~Expired(t.msg)
  /\ pool' = pool \ {t}
  /\ landed' = landed \cup {t.msg}
  /\ account' = [account EXCEPT ![t.msg.seed] = After(t.msg)]
  /\ wallet' = wallet - Fee + Paid(t.msg)
  /\ UNCHANGED <<height, refused, deposits, skipPreflight, session>>

\* Refused: a bad signature costs nothing, an instruction that fails the fee.
Refuse(t) ==
  /\ t \in pool /\ t.msg \notin landed /\ ~Expired(t.msg)
  /\ ~(Verifies(t) /\ Accepts(t.msg))
  /\ pool' = pool \ {t}
  /\ refused' = refused \cup {t}
  /\ wallet' = IF Verifies(t) /\ wallet >= Fee THEN wallet - Fee ELSE wallet
  /\ UNCHANGED <<height, account, landed, deposits, skipPreflight, session>>

\* A reward or a transfer; one to an unused address makes it an account.
Deposit(a) ==
  /\ deposits < MaxDeposits
  /\ deposits' = deposits + 1
  /\ account' = [account EXCEPT
       ![a].lamports = @ + 1,
       ![a].kind = IF @ = "None" THEN "Foreign" ELSE @]
  /\ UNCHANGED <<height, wallet, pool, landed, refused, skipPreflight, session>>

\* A block; what has expired is dropped.
NextBlock ==
  /\ height < MaxHeight
  /\ height' = height + 1
  /\ pool' = {t \in pool : height + 1 <= t.msg.hash + Validity}
  /\ UNCHANGED <<account, wallet, landed, refused, deposits, skipPreflight, session>>

-----------------------------------------------------------------------------
(* buildUnsignedTx *)

Reads(type) ==
  CASE type = "Delegate" -> {"hash", "balance"}
    [] type = "Undelegate" -> {"hash", "account"}
    [] type = "ClaimDelegate" -> {"hash", "account"}

Reading(s, i, attempt) ==
  [session[s] EXCEPT !.pc = "reading", !.intent = i, !.attempt = attempt,
                     !.need = Reads(i.type)]

Throw(s) == session' = [session EXCEPT ![s].pc = "threw", ![s].need = {}]

\* A caller wants something done that passes the checks of the arguments.
Start(s) ==
  /\ session[s].pc = "idle"
  /\ \E i \in Intent : session' = [session EXCEPT ![s] = Reading(s, i, 1)]
  /\ UNCHANGED chainVars

ReadHash(s) ==
  /\ "hash" \in session[s].need
  /\ session' = [session EXCEPT ![s].need = @ \ {"hash"}, ![s].hash = height]
  /\ UNCHANGED chainVars

ReadBalance(s) ==
  /\ "balance" \in session[s].need
  /\ session' = [session EXCEPT ![s].need = @ \ {"balance"}, ![s].balance = wallet]
  /\ UNCHANGED chainVars

\* loadAndAssertStakeAccount, up to getClock for a claim.  What does not
\* decode passes no gate but those of existence and owner.
Passes(type, a) ==
  \/ a.kind = "Unreadable"
  \/ /\ a.kind \in {"Uninitialized", "Initialized", "Stake"}
     /\ type = "Undelegate" => a.kind = "Stake" /\ a.deact = Never
     /\ type = "ClaimDelegate" => ~(a.kind = "Stake" /\ a.deact = Never)

HasLockup(a) == a.kind \in {"Initialized", "Stake"}

ReadAccount(s) ==
  LET a == account[session[s].intent.seed]
      type == session[s].intent.type IN
  /\ "account" \in session[s].need
  /\ IF Passes(type, a)
     THEN session' = [session EXCEPT
            ![s].account = a,
            ![s].need = (@ \ {"account"})
              \cup (IF type = "ClaimDelegate" /\ HasLockup(a) THEN {"clock"} ELSE {})]
     ELSE Throw(s)
  /\ UNCHANGED chainVars

ReadClock(s) ==
  /\ "clock" \in session[s].need
  /\ IF InForce(session[s].account, Epoch)
     THEN Throw(s)
     ELSE session' = [session EXCEPT ![s].need = @ \ {"clock"}]
  /\ UNCHANGED chainVars

ReadFails(s) ==
  /\ session[s].pc = "reading"
  /\ Throw(s)
  /\ UNCHANGED chainVars

Built(s, m) ==
  session' = [session EXCEPT ![s].pc = "built", ![s].msg = m,
                             ![s].account = account[m.seed]]

\* findNextFreeSeed
Free == {i \in Seed : account[i].kind = "None"}
NextFreeSeed == CHOOSE i \in Free : \A j \in Free : i <= j

MaxOf(a, b) == IF a >= b THEN a ELSE b

\* The funding gate; a total the caller made up cannot lower it.
Funded(s) ==
  session[s].balance >= session[s].intent.amount + Rent
                        + MaxOf(session[s].intent.fee, PriorityFee + Cushion)

BuildDelegate(s) ==
  LET i == session[s].intent IN
  /\ session[s].pc = "reading" /\ i.type = "Delegate" /\ session[s].need = {}
  /\ IF i.amount >= MinDelegation /\ Free # {} /\ Funded(s)
     THEN Built(s, [type |-> "Delegate", seed |-> NextFreeSeed,
                    lamports |-> i.amount + Rent, hash |-> session[s].hash])
     ELSE Throw(s)
  /\ UNCHANGED chainVars

\* buildUndelegate, buildClaimDelegate: the account is the one read before.
BuildOnAccount(s) ==
  LET i == session[s].intent
      m == [type |-> i.type, seed |-> i.seed, hash |-> session[s].hash,
            lamports |-> IF i.type = "Undelegate" THEN 0 ELSE session[s].account.lamports] IN
  /\ session[s].pc = "reading" /\ i.type # "Delegate" /\ session[s].need = {}
  /\ IF i.type = "ClaimDelegate" /\ m.lamports = 0
     THEN Throw(s)
     ELSE session' = [session EXCEPT ![s].pc = "built", ![s].msg = m]
  /\ UNCHANGED chainVars

-----------------------------------------------------------------------------
(* sign, or prehash, an external signer, and compile *)

Signed(s, t) ==
  session' = [session EXCEPT ![s].pc = "signed", ![s].msg = NoMessage, ![s].tx = t]

Sign(s) ==
  /\ session[s].pc = "built"
  /\ Signed(s, SignedBy("wallet", session[s].msg))
  /\ UNCHANGED chainVars

Prehashed == {session[s].msg : s \in {r \in Session : session[r].pc = "built"}}

\* Mutant of Compiles: the signature is not verified.
CompilesUnverified(bytes, wire, sig) == wire = bytes

\* compile checks the wire transaction against _messageBytes, and verifies
\* the signature over these for the fee payer.
Compiles(bytes, wire, sig) ==
  /\ wire = bytes
  /\ sig.key = "wallet" /\ sig.over = bytes

\* The caller threads the arguments itself, and may confuse two prehashes.
Compile(s) ==
  /\ session[s].pc = "built"
  /\ \E wire \in Prehashed, sig \in [key : Key, over : Prehashed] :
       /\ Compiles(session[s].msg, wire, sig)
       /\ Signed(s, [msg |-> wire, sig |-> sig])
  /\ UNCHANGED chainVars

-----------------------------------------------------------------------------
(* broadcast, and what the caller does about its answer *)

Told(s, outcome, posted) ==
  session' = [session EXCEPT ![s].pc = outcome, ![s].warned = @ \/ outcome = "error",
                             ![s].posted = @ \cup posted]

\* Mutant of ErrorFor: every failure taken for an expired blockhash.
ErrorAlwaysExpired(cause) == "expired"

\* Mutant of ErrorFor: the error rethrown as it came.
ErrorUnmapped(cause) == cause

\* mapRpcError: what the caller is told when sendTransaction throws.
ErrorFor(cause) == IF cause = "expired" THEN "expired" ELSE "error"

\* The node has it, and its answer arrives or is lost.
Accepted(s) ==
  LET t == session[s].tx IN
  /\ session[s].pc = "signed"
  /\ ~skipPreflight =>
       ~Expired(t.msg) /\ t.msg \notin landed /\ Verifies(t) /\ Accepts(t.msg)
  /\ pool' = IF Expired(t.msg) \/ t.msg \in landed THEN pool ELSE pool \cup {t}
  /\ \/ Told(s, "sent", {t})
     \/ Told(s, ErrorFor("lost"), {t})
  /\ UNCHANGED <<height, account, wallet, landed, refused, deposits, skipPreflight>>

\* Preflight refuses it, or the request does not arrive: not forwarded.
NotAccepted(s) ==
  LET t == session[s].tx IN
  /\ session[s].pc = "signed"
  /\ \/ /\ ~skipPreflight /\ Expired(t.msg)
        /\ Told(s, ErrorFor("expired"), {})
        /\ UNCHANGED refused
     \/ /\ ~skipPreflight /\ ~Expired(t.msg)
        /\ ~(t.msg \notin landed /\ Verifies(t) /\ Accepts(t.msg))
        /\ Told(s, ErrorFor("simulation"), {})
        /\ refused' = IF t.msg \in landed THEN refused ELSE refused \cup {t}
     \/ /\ Told(s, ErrorFor("unreachable"), {})
        /\ UNCHANGED refused
  /\ UNCHANGED <<height, account, wallet, pool, landed, deposits, skipPreflight>>

\* submitWithBlockhashRetry: sign anew only if told that the blockhash expired.
Resign(s) ==
  /\ session[s].pc = "expired" /\ session[s].attempt < MaxAttempts
  /\ session' = [session EXCEPT ![s] = Reading(s, @.intent, @.attempt + 1)]
  /\ UNCHANGED chainVars

\* After any other error a caller may send the same transaction again.
Rebroadcast(s) ==
  /\ session[s].pc = "error"
  /\ session' = [session EXCEPT ![s].pc = "signed"]
  /\ UNCHANGED chainVars

ChainStep ==
  \/ \E t \in pool : Land(t) \/ Refuse(t)
  \/ \E a \in Seed : Deposit(a)
  \/ NextBlock

SessionStep(s) ==
  \/ Start(s) \/ ReadHash(s) \/ ReadBalance(s) \/ ReadAccount(s) \/ ReadClock(s)
  \/ ReadFails(s) \/ BuildDelegate(s) \/ BuildOnAccount(s)
  \/ Sign(s) \/ Compile(s)
  \/ Accepted(s) \/ NotAccepted(s) \/ Resign(s) \/ Rebroadcast(s)

Next == ChainStep \/ \E s \in Session : SessionStep(s)

Spec == Init /\ [][Next]_vars

-----------------------------------------------------------------------------
(* Properties *)

\* One intent stakes at most once, however often it is signed anew, unless
\* the caller was told of an error other than BLOCKHASH_EXPIRED and sent the
\* transaction again: the code's promise that this error, and it alone, means
\* that nothing was sent (broadcast-service.ts, README.md:617).
StakedOnceUnlessWarned ==
  \A s \in Session :
    session[s].intent.type = "Delegate" /\ ~session[s].warned =>
      Cardinality({t \in session[s].posted : t.msg \in landed}) <= 1

\* What has changed since session s read it, and what it leaves to the chain:
\* among it an account that the gates could not read or that has no authority.
Excused(s, m) ==
  \/ account[m.seed] # session[s].account
  \/ m.type = "Delegate" /\ wallet < session[s].balance
  \/ m.type = "Delegate" /\ ~RentPaid(wallet - Fee - m.lamports)
  \/ m.type # "Delegate" /\ (wallet < Fee \/ ~RentPaid(wallet - Fee + Paid(m)))
  \/ m.type = "ClaimDelegate" /\ Cooling(account[m.seed])
  \/ m.type # "Delegate" /\ account[m.seed].kind \in {"Unreadable", "Uninitialized"}

\* A transaction the package built is refused only for something that
\* changed after it was read, or that the code leaves to the chain on
\* purpose: the builder's gates, the lowest free seed and compile's checks
\* are together as strict as the chain.
RefusedOnlyIfChanged ==
  [][\A s \in Session :
       session[s].tx \in refused' \ refused => Excused(s, session[s].tx.msg)]_vars

=============================================================================

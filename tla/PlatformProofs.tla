---------------------------- MODULE PlatformProofs ----------------------------
(***************************************************************************)
(* Proofs about what every request meets on its way in and every change of *)
(* state on its way out: who may act (Access), which request is a retry    *)
(* (Idempotency), and the events that tell the workers (Outbox); for any   *)
(* number of wallets, challenges, accounts, commands, attempts, events and *)
(* dispatchers.  The three share no state.                                 *)
(*                                                                         *)
(* Access: nothing locks, a decision and an account are computed from a    *)
(* row read earlier.  What saves both is that the row read is a past       *)
(* version of the organization, and the organization itself while the      *)
(* versions are equal.                                                     *)
(*                                                                         *)
(* Idempotency: the claim is tied to the one attempt that holds it: while  *)
(* an attempt runs, the row is its claim, not complete, and nothing has    *)
(* been done under it that was not an unknown commit.                      *)
(*                                                                         *)
(* Outbox: a dispatcher that has asked the handler works on an event the   *)
(* handler is done with, and every copy is of a row of the table, which    *)
(* never loses one.                                                        *)
(***************************************************************************)
EXTENDS Access, Idempotency, Outbox, FiniteSetTheorems, SequenceTheorems,
        WellFoundedInduction, TLAPS

\* An organization, and the last word on it.
OrgInv(w) ==
    /\ org[w].version = 0 <=> org[w].type = "NONE"
    /\ org[w].type = "NONE" => org[w] = NoOrg
    /\ org[w].eligibility = decided[w]

\* A copy: the past, and the present while the versions are equal.
CopyInv(w, row) ==
    /\ w \in Wallets /\ 0 < row.version
    /\ row.version <= org[w].version
    /\ row.version = org[w].version => row = org[w]

\* What a challenge was exchanged for.
ChallengeInv(c) ==
    /\ challenge[c].state # "NONE" => challenge[c].wallet \in Wallets
    /\ challenge[c].state = "NONE" => challenge[c] = NoChallenge
    /\ exchanged[c] = IF challenge[c].state = "CONSUMED" THEN 1 ELSE 0
    /\ session[c] # "NONE" => challenge[c].state = "CONSUMED" /\ org[challenge[c].wallet] # NoOrg

\* What a request read, and still may build on.
CallInv(c) ==
    /\ c.step \in {"register", "verify"} =>
          c.challenge \in Challenges /\ challenge[c.challenge].state # "NONE"
    /\ c.step = "register" => c.asks \in {"ISSUER", "INVESTOR"} /\ c.wallet \in Wallets
    /\ c.step = "verify" => org[challenge[c.challenge].wallet] # NoOrg
    /\ c.step = "actor" => c.wallet \in Wallets
    /\ c.step = "decide" => c.asks \in {"ELIGIBLE", "REJECTED"} /\ CopyInv(c.wallet, c.row)

\* An investor that lacked an account when it was read.
LackingInv(w, row) == CopyInv(w, row) /\ row.type = "INVESTOR" /\ row.account = Nobody

CommandInv(c) ==
    /\ \A entry \in c.list : LackingInv(entry.wallet, entry.row)
    /\ c.step = "opened" => LackingInv(c.at, c.row) /\ c.account \in Accounts /\ opened[c.account] = c.at

OrgsInv == \A w \in Wallets : OrgInv(w)
ChallengesInv == \A c \in Challenges : ChallengeInv(c)
CallsInv == \A r \in Requests : CallInv(call[r])
CommandsInv == \A p \in Commands : CommandInv(command[p])

IInv == TypeOK /\ OrgsInv /\ ChallengesInv /\ CallsInv /\ CommandsInv

-----------------------------------------------------------------------------
(* What no step takes back *)

\* An organization changes with its version.
OrgsGrow ==
    \A w \in Wallets :
        /\ org[w].version <= org'[w].version
        /\ org'[w].version = org[w].version => org'[w] = org[w]

\* A challenge is issued for one wallet.
ChallengesGrow ==
    \A c \in Challenges : challenge[c].state # "NONE" =>
        challenge'[c].state # "NONE" /\ challenge'[c].wallet = challenge[c].wallet

\* An account is opened for one wallet.
OpenedGrows == \A a \in Accounts : opened[a] # Nobody => opened'[a] = opened[a]

ChallengeRow == [state : {"NONE", "OPEN", "EXPIRED", "CONSUMED"}, wallet : Wallets \cup {Nobody}]
Calls == [step : {"idle", "register", "verify", "actor", "decide"},
          challenge : Challenges \cup {Nobody}, wallet : Wallets \cup {Nobody},
          asks : {"none", "ISSUER", "INVESTOR", "OPERATOR", "ELIGIBLE", "REJECTED"},
          eligible : BOOLEAN, operator : BOOLEAN, row : Organization]
Entries == [wallet : Wallets, row : Organization]
CommandRow == [step : {"idle", "listed", "opened"}, list : SUBSET Entries,
               at : Wallets \cup {Nobody}, row : Organization, account : Accounts \cup {Nobody}]

LEMMA Apart == Nobody \notin Wallets /\ Nobody \notin Challenges /\ Nobody \notin Accounts
PROOF BY AccessAssumption

LEMMA NothingIsTyped ==
    NoOrg \in Organization /\ NoChallenge \in ChallengeRow /\ Idle \in Calls /\ NoCommand \in CommandRow
<1>1. NoOrg \in Organization
  BY DEF NoOrg, Organization
<1> QED
  BY <1>1 DEF NoChallenge, ChallengeRow, Idle, Calls, NoCommand, CommandRow

LEMMA Types ==
    ASSUME TypeOK
    PROVE  /\ challenge \in [Challenges -> ChallengeRow] /\ session \in [Challenges -> {"NONE", "ACTIVE", "ENDED"}]
           /\ org \in [Wallets -> Organization] /\ call \in [Requests -> Calls]
           /\ command \in [Commands -> CommandRow] /\ opened \in [Accounts -> Wallets \cup {Nobody}]
           /\ exchanged \in [Challenges -> Nat] /\ decided \in [Wallets -> {"PENDING", "ELIGIBLE", "REJECTED"}]
           /\ bids \subseteq Wallets /\ bought \subseteq Wallets
           /\ \A w \in Wallets : org[w].account # Nobody => org[w].type = "INVESTOR"
PROOF BY DEF TypeOK, ChallengeRow, Calls, CommandRow, Entries

LEMMA OrgFields ==
    ASSUME NEW row \in Organization
    PROVE  row.version \in Nat /\ row.account \in Accounts \cup {Nobody}
PROOF BY DEF Organization

\* A copy stays a copy, and an organization that is there stays there.
LEMMA CopyKept ==
    ASSUME TypeOK, TypeOK', OrgsGrow, NEW w, NEW row \in Organization, CopyInv(w, row)
    PROVE  CopyInv(w, row)'
<1>1. /\ w \in Wallets /\ org[w].version \in Nat /\ org'[w].version \in Nat /\ row.version \in Nat
      /\ org[w].version <= org'[w].version
      /\ org'[w].version = org[w].version => org'[w] = org[w]
  BY Types, OrgFields DEF CopyInv, OrgsGrow, TypeOK
<1> QED
  BY <1>1 DEF CopyInv

LEMMA OrgStays ==
    ASSUME TypeOK, TypeOK', OrgsInv, OrgsGrow, NEW w \in Wallets, org[w] # NoOrg
    PROVE  org'[w] # NoOrg
<1>1. org[w].version \in Nat /\ org'[w].version \in Nat /\ org[w].version # 0
  BY Types, OrgFields DEF TypeOK, OrgsInv, OrgInv
<1>2. org'[w].version # 0
  BY <1>1 DEF OrgsGrow
<1> QED
  BY <1>2 DEF NoOrg

-----------------------------------------------------------------------------
(* Who does not step *)

LEMMA ChallengeKept ==
    ASSUME IInv, TypeOK', OrgsGrow, NEW c \in Challenges,
           challenge'[c] = challenge[c], session'[c] = session[c], exchanged'[c] = exchanged[c]
    PROVE  ChallengeInv(c)'
<1>1. ChallengeInv(c)
  BY DEF IInv, ChallengesInv
<1>2. session[c] # "NONE" => org'[challenge[c].wallet] # NoOrg
  BY <1>1, OrgStays DEF ChallengeInv, IInv
<1> QED
  BY <1>1, <1>2 DEF ChallengeInv

LEMMA CallKept ==
    ASSUME IInv, TypeOK', OrgsGrow, ChallengesGrow, NEW c \in Calls, CallInv(c)
    PROVE  CallInv(c)'
<1>1. c.row \in Organization
  BY DEF Calls
<1>2. c.step = "decide" => CopyInv(c.wallet, c.row)'
  BY <1>1, CopyKept DEF CallInv, IInv
<1>3. c.step \in {"register", "verify"} =>
        /\ c.challenge \in Challenges /\ challenge[c.challenge].state # "NONE"
        /\ challenge'[c.challenge].state # "NONE"
        /\ challenge'[c.challenge].wallet = challenge[c.challenge].wallet
        /\ challenge[c.challenge].wallet \in Wallets
  BY DEF CallInv, ChallengesGrow, IInv, ChallengesInv, ChallengeInv
<1>4. c.step = "verify" => org'[challenge'[c.challenge].wallet] # NoOrg
  BY <1>3, OrgStays DEF CallInv, IInv
<1> QED
  BY <1>2, <1>3, <1>4 DEF CallInv

LEMMA LackingKept ==
    ASSUME IInv, TypeOK', OrgsGrow, NEW w, NEW row \in Organization, LackingInv(w, row)
    PROVE  LackingInv(w, row)'
PROOF BY CopyKept DEF LackingInv, IInv

LEMMA CommandKept ==
    ASSUME IInv, TypeOK', OrgsGrow, OpenedGrows, NEW c \in CommandRow, CommandInv(c)
    PROVE  CommandInv(c)'
<1>1. c.row \in Organization /\ \A entry \in c.list : entry.row \in Organization
  BY DEF CommandRow, Entries
<1>2. \A entry \in c.list : LackingInv(entry.wallet, entry.row)'
  BY <1>1, LackingKept DEF CommandInv
<1>3. c.step = "opened" => LackingInv(c.at, c.row)'
  BY <1>1, LackingKept DEF CommandInv
<1>4. c.step = "opened" => c.account \in Accounts /\ opened'[c.account] = c.at
  BY Apart DEF CommandInv, OpenedGrows, LackingInv, CopyInv
<1> QED
  BY <1>2, <1>3, <1>4 DEF CommandInv

\* A step keeps the invariant when it keeps the rows it writes, and its own copy.
LEMMA StepKeeps ==
    ASSUME IInv, TypeOK', OrgsGrow, ChallengesGrow, OpenedGrows,
           \A w \in Wallets : org'[w] # org[w] \/ decided'[w] # decided[w] => OrgInv(w)',
           \A c \in Challenges :
              challenge'[c] # challenge[c] \/ session'[c] # session[c] \/ exchanged'[c] # exchanged[c]
                => ChallengeInv(c)',
           \A r \in Requests : call'[r] # call[r] => CallInv(call[r])',
           \A p \in Commands : command'[p] # command[p] => CommandInv(command[p])'
    PROVE  IInv'
<1>1. OrgsInv'
  BY DEF OrgsInv, IInv, OrgInv
<1>2. ChallengesInv'
  BY ChallengeKept DEF ChallengesInv
<1>3. CallsInv'
  <2> SUFFICES ASSUME NEW r \in Requests, NEW c, c = call[r], call'[r] = c PROVE CallInv(call[r])'
    BY DEF CallsInv
  <2>1. c \in Calls /\ CallInv(c)
    BY Types DEF IInv, CallsInv
  <2>2. CallInv(c)'
    BY <2>1, CallKept
  <2> QED
    BY <2>2
<1>4. CommandsInv'
  <2> SUFFICES ASSUME NEW p \in Commands, NEW c, c = command[p], command'[p] = c PROVE CommandInv(command[p])'
    BY DEF CommandsInv
  <2>1. c \in CommandRow /\ CommandInv(c)
    BY Types DEF IInv, CommandsInv
  <2>2. CommandInv(c)'
    BY <2>1, CommandKept
  <2> QED
    BY <2>2
<1> QED
  BY <1>1, <1>2, <1>3, <1>4 DEF IInv

LEMMA InitIInv == Init => IInv
<1> SUFFICES ASSUME Init PROVE IInv
  OBVIOUS
<1>1. TypeOK
  <2>1. \A w \in Wallets : org[w].account = Nobody
    BY DEF Init, NoOrg
  <2> QED
    BY <2>1, NothingIsTyped DEF Init, TypeOK, ChallengeRow, Calls, CommandRow, Entries
<1>2. OrgsInv
  BY DEF Init, OrgsInv, OrgInv, NoOrg
<1>3. ChallengesInv
  BY DEF Init, ChallengesInv, ChallengeInv, NoChallenge
<1>4. CallsInv /\ CommandsInv
  BY DEF Init, CallsInv, CallInv, Idle, CommandsInv, CommandInv, NoCommand
<1> QED
  BY <1>1, <1>2, <1>3, <1>4 DEF IInv

-----------------------------------------------------------------------------
(* Requests *)

\* An account is attached once, and it is one that was opened for that wallet.
AccountOnce ==
    \A w \in Wallets : org'[w].account # org[w].account =>
        org[w].account = Nobody /\ opened[org'[w].account] = w

\* A request that reads, or ends, and writes nothing of what others read.
LEMMA CallMoves ==
    ASSUME IInv, NEW r \in Requests, NEW d \in Calls, CallInv(d), call' = [call EXCEPT ![r] = d],
           UNCHANGED <<challenge, session, org, command, opened, exchanged, decided>>,
           bids' \subseteq Wallets, bought' \subseteq Wallets
    PROVE  IInv' /\ AccountOnce
<1>1. call \in [Requests -> Calls] /\ TypeOK
  BY Types DEF IInv
<1>2. TypeOK'
  BY <1>1, Types DEF TypeOK, ChallengeRow, Calls, CommandRow, Entries
<1>3. OrgsGrow /\ ChallengesGrow /\ OpenedGrows
  BY <1>1, Types, OrgFields DEF OrgsGrow, ChallengesGrow, OpenedGrows
<1>4. CallInv(d)'
  BY <1>1, <1>2, <1>3, CallKept
<1>5. \A x \in Requests : call'[x] # call[x] => CallInv(call[x])'
  BY <1>1, <1>4
<1> QED
  BY <1>2, <1>3, <1>5, StepKeeps DEF AccountOnce

LEMMA IdleIsFree == Idle \in Calls /\ CallInv(Idle) /\ CallInv(Idle)'
PROOF BY NothingIsTyped DEF CallInv, Idle

LEMMA ReadToRegisterKeeps ==
    ASSUME IInv, NEW r \in Requests, NEW c \in Challenges, NEW type \in {"ISSUER", "INVESTOR", "OPERATOR"},
           NEW w, w = challenge[c].wallet, ReadToRegister(r, c, type)
    PROVE  IInv' /\ AccountOnce
<1> DEFINE d == [Idle EXCEPT !.step = "register", !.challenge = c, !.wallet = w, !.asks = type]
<1>1. type \in {"ISSUER", "INVESTOR"} /\ challenge[c].state # "NONE" /\ w \in Wallets
  BY DEF ReadToRegister, MayRegister, IsOpen, IInv, ChallengesInv, ChallengeInv
<1>2. /\ d \in Calls /\ d.step = "register" /\ d.challenge = c /\ d.wallet = w /\ d.asks = type
  BY <1>1, NothingIsTyped DEF Calls, Idle
<1>3. call' = [call EXCEPT ![r] = d]
  BY DEF ReadToRegister
<1> HIDE DEF d
<1>4. CallInv(d)
  BY <1>1, <1>2 DEF CallInv
<1>5. bids' \subseteq Wallets /\ bought' \subseteq Wallets
  BY Types DEF ReadToRegister, Market, IInv
<1> QED
  BY <1>2, <1>3, <1>4, <1>5, CallMoves DEF ReadToRegister, Network

\* A session is promised only to a wallet that acts for somebody.
LEMMA ReadToVerifyKeeps ==
    ASSUME IInv, NEW r \in Requests, NEW c \in Challenges, NEW w, w = challenge[c].wallet, ReadToVerify(r, c)
    PROVE  IInv' /\ AccountOnce
<1> DEFINE d == [Idle EXCEPT !.step = "verify", !.challenge = c, !.wallet = w]
<1>1. challenge[c].state # "NONE" /\ w \in Wallets /\ org[w] # NoOrg
  BY DEF ReadToVerify, WalletIsFree, IsOpen, IInv, ChallengesInv, ChallengeInv
<1>2. /\ d \in Calls /\ d.step = "verify" /\ d.challenge = c /\ d.wallet = w
  BY <1>1, NothingIsTyped DEF Calls, Idle
<1>3. call' = [call EXCEPT ![r] = d]
  BY DEF ReadToVerify
<1> HIDE DEF d
<1>4. CallInv(d)
  BY <1>1, <1>2 DEF CallInv
<1>5. bids' \subseteq Wallets /\ bought' \subseteq Wallets
  BY Types DEF ReadToVerify, Market, IInv
<1> QED
  BY <1>2, <1>3, <1>4, <1>5, CallMoves DEF ReadToVerify, Network

LEMMA ResolveKeeps ==
    ASSUME IInv, NEW r \in Requests, NEW c \in Challenges, NEW w, w = challenge[c].wallet,
           NEW d, d = ActorFor(w), Resolve(r, c)
    PROVE  IInv' /\ AccountOnce
<1>1. w \in Wallets
  BY DEF Resolve, GetSession, IInv, ChallengesInv, ChallengeInv
<1>2. d \in Calls /\ d.step = "actor" /\ d.wallet = w
  BY <1>1, NothingIsTyped DEF Calls, ActorFor, Idle
<1>3. call' = [call EXCEPT ![r] = d]
  BY DEF Resolve
<1>4. CallInv(d)
  BY <1>1, <1>2 DEF CallInv
<1>5. bids' \subseteq Wallets /\ bought' \subseteq Wallets
  BY Types DEF Resolve, Market, IInv
<1> QED
  BY <1>2, <1>3, <1>4, <1>5, CallMoves DEF Resolve, Network

LEMMA GiveUpKeeps ==
    ASSUME IInv, NEW r \in Requests, GiveUp(r)
    PROVE  IInv' /\ AccountOnce
<1>1. bids' \subseteq Wallets /\ bought' \subseteq Wallets
  BY Types DEF GiveUp, Market, IInv
<1> QED
  BY <1>1, IdleIsFree, CallMoves DEF GiveUp, EndCall, Network

LEMMA BidKeeps ==
    ASSUME IInv, NEW r \in Requests, Bid(r)
    PROVE  IInv' /\ AccountOnce
<1>1. CallInv(call[r])
  BY DEF IInv, CallsInv
<1>2. bids' \subseteq Wallets /\ bought' \subseteq Wallets
  BY <1>1, Types DEF Bid, CallInv, IInv
<1> QED
  BY <1>2, IdleIsFree, CallMoves DEF Bid, EndCall, Network

\* A decision is about the organization as it was read.
LEMMA ReadToDecideKeeps ==
    ASSUME IInv, NEW r \in Requests, NEW w \in Wallets, NEW verdict \in {"ELIGIBLE", "REJECTED"},
           NEW row, row = org[w], NEW c, c = call[r], ReadToDecide(r, w, verdict)
    PROVE  IInv' /\ AccountOnce
<1> DEFINE d == [c EXCEPT !.step = "decide", !.wallet = w, !.asks = verdict, !.row = row]
<1>1. row # NoOrg /\ row \in Organization /\ c \in Calls /\ call \in [Requests -> Calls]
  BY Types DEF ReadToDecide, Decidable, IInv
<1>2. /\ d \in Calls /\ d.step = "decide" /\ d.wallet = w /\ d.asks = verdict /\ d.row = row
  BY <1>1 DEF Calls
<1>3. call' = [call EXCEPT ![r] = d]
  BY <1>1 DEF ReadToDecide
<1> HIDE DEF d
<1>4. CopyInv(w, row)
  BY <1>1, OrgFields DEF CopyInv, IInv, OrgsInv, OrgInv
<1>5. CallInv(d)
  BY <1>2, <1>4 DEF CallInv
<1>6. bids' \subseteq Wallets /\ bought' \subseteq Wallets
  BY Types DEF ReadToDecide, Market, IInv
<1> QED
  BY <1>2, <1>3, <1>5, <1>6, CallMoves DEF ReadToDecide, Network

-----------------------------------------------------------------------------
(* Challenges and sessions *)

\* The steps that leave organizations and the network alone.
LEMMA ChallengeMoves ==
    ASSUME IInv, UNCHANGED <<org, call, command, opened, decided, bids, bought>>,
           challenge' \in [Challenges -> ChallengeRow], session' \in [Challenges -> {"NONE", "ACTIVE", "ENDED"}],
           exchanged' = exchanged, ChallengesGrow, NEW c \in Challenges,
           \A x \in Challenges : x # c => challenge'[x] = challenge[x] /\ session'[x] = session[x],
           ChallengeInv(c)'
    PROVE  IInv' /\ AccountOnce
<1>1. TypeOK
  BY DEF IInv
<1>2. TypeOK'
  BY <1>1, Types DEF TypeOK, ChallengeRow, Calls, CommandRow, Entries
<1>3. OrgsGrow /\ OpenedGrows
  BY <1>1, Types, OrgFields DEF OrgsGrow, OpenedGrows
<1>4. \A x \in Challenges :
         challenge'[x] # challenge[x] \/ session'[x] # session[x] \/ exchanged'[x] # exchanged[x]
           => ChallengeInv(x)'
  OBVIOUS
<1> QED
  BY <1>2, <1>3, <1>4, StepKeeps DEF AccountOnce

LEMMA IssueChallengeKeeps ==
    ASSUME IInv, NEW c \in Challenges, NEW w \in Wallets, IssueChallenge(c, w)
    PROVE  IInv' /\ AccountOnce
<1>1. challenge \in [Challenges -> ChallengeRow] /\ ChallengeInv(c) /\ session' = session
  BY Types DEF IInv, ChallengesInv, IssueChallenge
<1>2. /\ challenge[c] = NoChallenge /\ challenge' \in [Challenges -> ChallengeRow]
      /\ \A x \in Challenges : challenge'[x] = IF x = c THEN [state |-> "OPEN", wallet |-> w] ELSE challenge[x]
  BY <1>1 DEF IssueChallenge, ChallengeRow
<1>3. ChallengesGrow
  BY <1>2 DEF ChallengesGrow, NoChallenge
<1>4. ChallengeInv(c)'
  BY <1>1, <1>2 DEF ChallengeInv, IssueChallenge, NoChallenge
<1>5. session' \in [Challenges -> {"NONE", "ACTIVE", "ENDED"}]
  BY <1>1, Types DEF IInv
<1> QED
  BY <1>1, <1>2, <1>3, <1>4, <1>5, ChallengeMoves DEF IssueChallenge, Network, Market

LEMMA ExpireChallengeKeeps ==
    ASSUME IInv, NEW c \in Challenges, NEW row, row = challenge[c], ExpireChallenge(c)
    PROVE  IInv' /\ AccountOnce
<1>1. challenge \in [Challenges -> ChallengeRow] /\ ChallengeInv(c) /\ session' = session
  BY Types DEF IInv, ChallengesInv, ExpireChallenge
<1>2. /\ row.state = "OPEN" /\ challenge' \in [Challenges -> ChallengeRow]
      /\ \A x \in Challenges : challenge'[x] = IF x = c THEN [row EXCEPT !.state = "EXPIRED"] ELSE challenge[x]
  BY <1>1 DEF ExpireChallenge, ChallengeRow, IsOpen
<1>3. challenge'[c].state = "EXPIRED" /\ challenge'[c].wallet = row.wallet
  BY <1>1, <1>2 DEF ChallengeRow
<1>4. ChallengesGrow
  BY <1>2, <1>3 DEF ChallengesGrow
<1>5. ChallengeInv(c)'
  BY <1>1, <1>2, <1>3 DEF ChallengeInv, ExpireChallenge
<1>6. session' \in [Challenges -> {"NONE", "ACTIVE", "ENDED"}]
  BY <1>1, Types DEF IInv
<1> QED
  BY <1>1, <1>2, <1>4, <1>5, <1>6, ChallengeMoves DEF ExpireChallenge, Network, Market

LEMMA EndSessionKeeps ==
    ASSUME IInv, NEW c \in Challenges, EndSession(c)
    PROVE  IInv' /\ AccountOnce
<1>1. /\ challenge \in [Challenges -> ChallengeRow] /\ ChallengeInv(c) /\ challenge' = challenge
      /\ session \in [Challenges -> {"NONE", "ACTIVE", "ENDED"}] /\ session[c] = "ACTIVE"
  BY Types DEF IInv, ChallengesInv, EndSession, GetSession
<1>2. /\ session' \in [Challenges -> {"NONE", "ACTIVE", "ENDED"}]
      /\ \A x \in Challenges : session'[x] = IF x = c THEN "ENDED" ELSE session[x]
  BY <1>1 DEF EndSession
<1>3. ChallengeInv(c)' /\ ChallengesGrow
  BY <1>1, <1>2 DEF ChallengeInv, ChallengesGrow, EndSession
<1> QED
  BY <1>1, <1>2, <1>3, ChallengeMoves DEF EndSession, Network, Market

\* A challenge that is consumed has bought nothing before.
LEMMA ConsumeMoves ==
    ASSUME IInv, NEW c \in Challenges, challenge[c].state # "NONE", Consume(c)
    PROVE  /\ challenge' \in [Challenges -> ChallengeRow] /\ exchanged' \in [Challenges -> Nat]
           /\ \A x \in Challenges : x # c => challenge'[x] = challenge[x] /\ exchanged'[x] = exchanged[x]
           /\ challenge'[c].state = "CONSUMED" /\ challenge'[c].wallet = challenge[c].wallet
           /\ challenge[c].wallet \in Wallets /\ exchanged'[c] = 1 /\ session[c] = "NONE" /\ ChallengesGrow
<1>1. /\ challenge \in [Challenges -> ChallengeRow] /\ exchanged \in [Challenges -> Nat] /\ ChallengeInv(c)
      /\ session[c] \in {"NONE", "ACTIVE", "ENDED"}
  BY Types DEF IInv, ChallengesInv
<1>2. /\ challenge' = [challenge EXCEPT ![c].state = "CONSUMED"] /\ exchanged' = [exchanged EXCEPT ![c] = @ + 1]
      /\ challenge[c].state # "CONSUMED"
  BY DEF Consume, NotConsumed
<1>3. exchanged[c] = 0 /\ session[c] = "NONE" /\ challenge[c].wallet \in Wallets
  BY <1>1, <1>2 DEF ChallengeInv
<1>4. /\ challenge' \in [Challenges -> ChallengeRow]
      /\ \A x \in Challenges : x # c => challenge'[x] = challenge[x]
      /\ challenge'[c].state = "CONSUMED" /\ challenge'[c].wallet = challenge[c].wallet
  BY <1>1, <1>2 DEF ChallengeRow
<1>5. /\ exchanged' \in [Challenges -> Nat] /\ exchanged'[c] = 1
      /\ \A x \in Challenges : x # c => exchanged'[x] = exchanged[x]
  BY <1>1, <1>2, <1>3
<1> QED
  BY <1>3, <1>4, <1>5 DEF ChallengesGrow

LEMMA VerifyKeeps ==
    ASSUME IInv, NEW r \in Requests, NEW c, c = call[r].challenge, Verify(r)
    PROVE  IInv' /\ AccountOnce
<1>1. CallInv(call[r]) /\ call[r].step = "verify" /\ TypeOK
  BY DEF IInv, CallsInv, Verify
<1>2. c \in Challenges /\ challenge[c].state # "NONE" /\ org[challenge[c].wallet] # NoOrg
  BY <1>1 DEF CallInv
<1>3. /\ challenge' \in [Challenges -> ChallengeRow] /\ exchanged' \in [Challenges -> Nat]
      /\ \A x \in Challenges : x # c => challenge'[x] = challenge[x] /\ exchanged'[x] = exchanged[x]
      /\ challenge'[c].state = "CONSUMED" /\ challenge'[c].wallet = challenge[c].wallet
      /\ challenge[c].wallet \in Wallets /\ exchanged'[c] = 1 /\ ChallengesGrow
  BY <1>2, ConsumeMoves DEF Verify
<1>4. /\ session' \in [Challenges -> {"NONE", "ACTIVE", "ENDED"}]
      /\ \A x \in Challenges : x # c => session'[x] = session[x]
  BY <1>1, <1>2, Types DEF Verify, NewSession
<1>5. call' \in [Requests -> Calls] /\ \A x \in Requests : call'[x] # call[x] => call'[x] = Idle
  BY <1>1, Types, IdleIsFree DEF Verify, EndCall
<1>6. UNCHANGED <<org, command, opened, decided, bids, bought>>
  BY DEF Verify, Network, Market
<1>7. TypeOK'
  BY <1>1, <1>3, <1>4, <1>5, <1>6, Types DEF TypeOK, ChallengeRow, Calls, CommandRow, Entries
<1>8. OrgsGrow /\ OpenedGrows /\ AccountOnce
  BY <1>1, <1>6, Types, OrgFields DEF OrgsGrow, OpenedGrows, AccountOnce
<1>9. ChallengeInv(c)'
  BY <1>2, <1>3, <1>6 DEF ChallengeInv
<1>10. \A x \in Challenges :
          challenge'[x] # challenge[x] \/ session'[x] # session[x] \/ exchanged'[x] # exchanged[x]
            => ChallengeInv(x)'
  BY <1>3, <1>4, <1>9
<1>11. \A x \in Requests : call'[x] # call[x] => CallInv(call[x])'
  BY <1>5, IdleIsFree
<1> QED
  BY <1>3, <1>6, <1>7, <1>8, <1>10, <1>11, StepKeeps

LEMMA AllocateKeeps ==
    ASSUME IInv, NEW w \in Wallets, Allocate(w)
    PROVE  IInv' /\ AccountOnce
<1>1. TypeOK /\ UNCHANGED <<challenge, session, org, call, command, opened, exchanged, decided>>
  BY DEF IInv, Allocate, Network
<1>2. TypeOK'
  BY <1>1 DEF TypeOK, Allocate
<1>3. OrgsGrow /\ ChallengesGrow /\ OpenedGrows /\ AccountOnce
  BY <1>1, Types, OrgFields DEF OrgsGrow, ChallengesGrow, OpenedGrows, AccountOnce
<1> QED
  BY <1>1, <1>2, <1>3, StepKeeps

-----------------------------------------------------------------------------
(* Organizations *)

LEMMA OrgMoves ==
    ASSUME IInv, NEW w \in Wallets, NEW row \in Organization, org[w].version < row.version,
           row.account # Nobody => row.type = "INVESTOR", org' = [org EXCEPT ![w] = row]
    PROVE  /\ org' \in [Wallets -> Organization] /\ org'[w] = row
           /\ \A x \in Wallets : x # w => org'[x] = org[x]
           /\ \A x \in Wallets : org'[x].account # Nobody => org'[x].type = "INVESTOR"
           /\ OrgsGrow
<1>1. org \in [Wallets -> Organization] /\ \A x \in Wallets : org[x].account # Nobody => org[x].type = "INVESTOR"
  BY Types DEF IInv
<1>2. /\ org' \in [Wallets -> Organization] /\ org'[w] = row
      /\ \A x \in Wallets : x # w => org'[x] = org[x]
  BY <1>1
<1>3. \A x \in Wallets : org[x].version \in Nat /\ row.version \in Nat
  BY <1>1, OrgFields
<1> QED
  BY <1>1, <1>2, <1>3 DEF OrgsGrow

LEMMA NewOrganizationFields ==
    ASSUME NEW type \in {"ISSUER", "INVESTOR", "OPERATOR"}, NEW eligible \in BOOLEAN
    PROVE  /\ NewOrganization(type, eligible) \in Organization
           /\ NewOrganization(type, eligible).version > 0 /\ NewOrganization(type, eligible).type # "NONE"
           /\ NewOrganization(type, eligible).account = Nobody
PROOF BY DEF NewOrganization, Organization

\* A wallet that acted for nobody acts for an organization from now on.
LEMMA Created ==
    ASSUME IInv, NEW w \in Wallets, WalletIsFree(w), NEW new \in Organization,
           new.version > 0, new.type # "NONE", new.account = Nobody,
           org' = [org EXCEPT ![w] = new], decided' = [decided EXCEPT ![w] = new.eligibility]
    PROVE  /\ org' \in [Wallets -> Organization] /\ OrgsGrow /\ AccountOnce
           /\ decided' \in [Wallets -> {"PENDING", "ELIGIBLE", "REJECTED"}]
           /\ \A x \in Wallets : org'[x].account # Nobody => org'[x].type = "INVESTOR"
           /\ \A x \in Wallets : org'[x] # org[x] \/ decided'[x] # decided[x] => OrgInv(x)'
<1>1. org[w].version = 0 /\ org[w].account = Nobody
  BY DEF WalletIsFree, NoOrg
<1>2. /\ org' \in [Wallets -> Organization] /\ org'[w] = new
      /\ \A x \in Wallets : x # w => org'[x] = org[x]
      /\ \A x \in Wallets : org'[x].account # Nobody => org'[x].type = "INVESTOR"
      /\ OrgsGrow
  BY <1>1, OrgFields, OrgMoves
<1>3. new.eligibility \in {"PENDING", "ELIGIBLE", "REJECTED"}
  BY DEF Organization
<1>4. /\ decided' \in [Wallets -> {"PENDING", "ELIGIBLE", "REJECTED"}] /\ decided'[w] = new.eligibility
      /\ \A x \in Wallets : x # w => decided'[x] = decided[x]
  BY <1>3, Types DEF IInv
<1>5. AccountOnce
  BY <1>1, <1>2 DEF AccountOnce
<1>6. OrgInv(w)'
  BY <1>2, <1>4 DEF OrgInv
<1> QED
  BY <1>2, <1>4, <1>5, <1>6

\* One challenge registers one organization, under a wallet that had none.
LEMMA RegisterKeeps ==
    ASSUME IInv, NEW r \in Requests, NEW c, c = call[r].challenge, NEW w, w = call[r].wallet,
           NEW new, new = NewOrganization(call[r].asks, AutoApprove), Register(r)
    PROVE  IInv' /\ AccountOnce
<1>1. CallInv(call[r]) /\ call[r].step = "register" /\ TypeOK
  BY DEF IInv, CallsInv, Register
<1>2. c \in Challenges /\ challenge[c].state # "NONE" /\ w \in Wallets /\ call[r].asks \in {"ISSUER", "INVESTOR"}
  BY <1>1 DEF CallInv
<1>3. /\ challenge' \in [Challenges -> ChallengeRow] /\ exchanged' \in [Challenges -> Nat]
      /\ \A x \in Challenges : x # c => challenge'[x] = challenge[x] /\ exchanged'[x] = exchanged[x]
      /\ challenge'[c].state = "CONSUMED" /\ challenge'[c].wallet = challenge[c].wallet
      /\ challenge[c].wallet \in Wallets /\ exchanged'[c] = 1 /\ session[c] = "NONE" /\ ChallengesGrow
  BY <1>2, ConsumeMoves DEF Register
<1>4. new \in Organization /\ new.version > 0 /\ new.type # "NONE" /\ new.account = Nobody
  BY <1>2, NewOrganizationFields, AccessAssumption
<1>5. WalletIsFree(w) /\ org' = [org EXCEPT ![w] = new] /\ decided' = [decided EXCEPT ![w] = new.eligibility]
  BY DEF Register
<1>6. /\ org' \in [Wallets -> Organization] /\ OrgsGrow /\ AccountOnce
      /\ decided' \in [Wallets -> {"PENDING", "ELIGIBLE", "REJECTED"}]
      /\ \A x \in Wallets : org'[x].account # Nobody => org'[x].type = "INVESTOR"
      /\ \A x \in Wallets : org'[x] # org[x] \/ decided'[x] # decided[x] => OrgInv(x)'
  BY <1>2, <1>4, <1>5, Created
<1>7. call' \in [Requests -> Calls] /\ \A x \in Requests : call'[x] # call[x] => call'[x] = Idle
  BY <1>1, Types, IdleIsFree DEF Register, EndCall
<1>8. UNCHANGED <<session, command, opened, bids, bought>>
  BY DEF Register, Network, Market
<1>9. TypeOK'
  BY <1>1, <1>3, <1>6, <1>7, <1>8, Types DEF TypeOK, ChallengeRow, Calls, CommandRow, Entries
<1>10. ChallengeInv(c)'
  BY <1>3, <1>8 DEF ChallengeInv
<1>11. \A x \in Challenges :
          challenge'[x] # challenge[x] \/ session'[x] # session[x] \/ exchanged'[x] # exchanged[x]
            => ChallengeInv(x)'
  BY <1>3, <1>8, <1>10
<1>12. OpenedGrows /\ \A x \in Requests : call'[x] # call[x] => CallInv(call[x])'
  BY <1>7, <1>8, IdleIsFree DEF OpenedGrows
<1> QED
  BY <1>3, <1>6, <1>8, <1>9, <1>11, <1>12, StepKeeps

LEMMA MakeOperatorKeeps ==
    ASSUME IInv, NEW w \in Wallets, NEW new, new = NewOrganization("OPERATOR", TRUE), MakeOperator(w)
    PROVE  IInv' /\ AccountOnce
<1>1. TypeOK /\ UNCHANGED <<challenge, session, call, exchanged, command, opened, bids, bought>>
  BY DEF IInv, MakeOperator, Network, Market
<1>2. new \in Organization /\ new.version > 0 /\ new.type # "NONE" /\ new.account = Nobody
  BY NewOrganizationFields
<1>3. WalletIsFree(w) /\ org' = [org EXCEPT ![w] = new] /\ decided' = [decided EXCEPT ![w] = new.eligibility]
  BY DEF MakeOperator
<1>4. /\ org' \in [Wallets -> Organization] /\ OrgsGrow /\ AccountOnce
      /\ decided' \in [Wallets -> {"PENDING", "ELIGIBLE", "REJECTED"}]
      /\ \A x \in Wallets : org'[x].account # Nobody => org'[x].type = "INVESTOR"
      /\ \A x \in Wallets : org'[x] # org[x] \/ decided'[x] # decided[x] => OrgInv(x)'
  BY <1>2, <1>3, Created
<1>5. TypeOK'
  BY <1>1, <1>4, Types DEF TypeOK, ChallengeRow, Calls, CommandRow, Entries
<1>6. ChallengesGrow /\ OpenedGrows
  BY <1>1 DEF ChallengesGrow, OpenedGrows
<1> QED
  BY <1>1, <1>4, <1>5, <1>6, StepKeeps

LEMMA AfterDecisionFields ==
    ASSUME NEW row \in Organization, NEW verdict \in {"ELIGIBLE", "REJECTED"}
    PROVE  /\ AfterDecision(row, verdict) \in Organization
           /\ AfterDecision(row, verdict).version = row.version + 1
           /\ AfterDecision(row, verdict).type = row.type
           /\ AfterDecision(row, verdict).account = row.account
           /\ AfterDecision(row, verdict).eligibility = verdict
<1> DEFINE mid == [row EXCEPT !.eligibility = verdict]
<1>1. mid \in Organization /\ mid.version = row.version /\ mid.type = row.type
      /\ mid.account = row.account /\ mid.eligibility = verdict
  BY DEF Organization
<1>2. AfterDecision(row, verdict) = [mid EXCEPT !.version = row.version + 1]
  BY DEF AfterDecision
<1>3. row.version + 1 \in Nat
  BY OrgFields
<1> HIDE DEF mid
<1> QED
  BY <1>1, <1>2, <1>3 DEF Organization

LEMMA WithAccountFields ==
    ASSUME NEW row \in Organization, NEW a \in Accounts
    PROVE  /\ WithAccount(row, a) \in Organization
           /\ WithAccount(row, a).version = row.version + 1
           /\ WithAccount(row, a).type = row.type
           /\ WithAccount(row, a).account = a
           /\ WithAccount(row, a).eligibility = row.eligibility
<1> DEFINE mid == [row EXCEPT !.account = a]
<1>1. mid \in Organization /\ mid.version = row.version /\ mid.type = row.type
      /\ mid.account = a /\ mid.eligibility = row.eligibility
  BY DEF Organization
<1>2. WithAccount(row, a) = [mid EXCEPT !.version = row.version + 1]
  BY DEF WithAccount
<1>3. row.version + 1 \in Nat
  BY OrgFields
<1> HIDE DEF mid
<1> QED
  BY <1>1, <1>2, <1>3 DEF Organization

\* A decision is written over the organization it was made about.
LEMMA DecideKeeps ==
    ASSUME IInv, NEW r \in Requests, NEW c, c = call[r], NEW new, new = AfterDecision(c.row, c.asks), Decide(r)
    PROVE  IInv' /\ AccountOnce
<1> DEFINE w == c.wallet
<1>1. CallInv(c) /\ c \in Calls /\ c.step = "decide" /\ TypeOK /\ OrgUnmoved(w, c.row)
  BY Types DEF IInv, CallsInv, Decide
<1>2. /\ w \in Wallets /\ c.asks \in {"ELIGIBLE", "REJECTED"} /\ org[w] = c.row
      /\ c.row.version > 0 /\ c.row \in Organization
  BY <1>1 DEF CallInv, CopyInv, OrgUnmoved, Calls
<1>3. /\ new \in Organization /\ new.version = c.row.version + 1 /\ new.type = c.row.type
      /\ new.account = c.row.account /\ new.eligibility = c.asks
  BY <1>2, AfterDecisionFields
<1>4. org' = [org EXCEPT ![w] = new] /\ decided' = [decided EXCEPT ![w] = c.asks]
  BY DEF Decide
<1>5. new.account # Nobody => new.type = "INVESTOR"
  BY <1>1, <1>2, <1>3, Types
<1>6. /\ org' \in [Wallets -> Organization] /\ org'[w] = new /\ OrgsGrow
      /\ \A x \in Wallets : x # w => org'[x] = org[x]
      /\ \A x \in Wallets : org'[x].account # Nobody => org'[x].type = "INVESTOR"
  <2>1. org[w].version < new.version
    BY <1>2, <1>3, OrgFields
  <2> QED
    BY <1>2, <1>3, <1>4, <1>5, <2>1, OrgMoves
<1>7. /\ decided' \in [Wallets -> {"PENDING", "ELIGIBLE", "REJECTED"}] /\ decided'[w] = c.asks
      /\ \A x \in Wallets : x # w => decided'[x] = decided[x]
  BY <1>1, <1>2, <1>4, Types
<1>8. call' \in [Requests -> Calls] /\ \A x \in Requests : call'[x] # call[x] => call'[x] = Idle
  BY <1>1, Types, IdleIsFree DEF Decide, EndCall
<1>9. UNCHANGED <<challenge, session, exchanged, command, opened, bids, bought>>
  BY DEF Decide, Network, Market
<1>10. TypeOK'
  BY <1>1, <1>6, <1>7, <1>8, <1>9, Types DEF TypeOK, ChallengeRow, Calls, CommandRow, Entries
<1>11. ChallengesGrow /\ OpenedGrows /\ AccountOnce
  BY <1>2, <1>3, <1>6, <1>9 DEF ChallengesGrow, OpenedGrows, AccountOnce
<1>12. OrgInv(w)'
  <2>1. OrgInv(w) /\ new.version # 0
    BY <1>2, <1>3, OrgFields DEF IInv, OrgsInv
  <2> QED
    BY <1>2, <1>3, <1>6, <1>7, <2>1 DEF OrgInv
<1>13. \A x \in Wallets : org'[x] # org[x] \/ decided'[x] # decided[x] => OrgInv(x)'
  BY <1>6, <1>7, <1>12
<1>14. \A x \in Requests : call'[x] # call[x] => CallInv(call[x])'
  BY <1>8, IdleIsFree
<1> QED
  BY <1>6, <1>9, <1>10, <1>11, <1>13, <1>14, StepKeeps

-----------------------------------------------------------------------------
(* Commands *)

\* A command that reads, ends or opens an account.
LEMMA CommandMoves ==
    ASSUME IInv, NEW p \in Commands, NEW d \in CommandRow, command' = [command EXCEPT ![p] = d],
           UNCHANGED <<challenge, session, org, call, exchanged, decided, bids, bought>>,
           opened' \in [Accounts -> Wallets \cup {Nobody}], OpenedGrows, CommandInv(d)'
    PROVE  IInv' /\ AccountOnce
<1>1. command \in [Commands -> CommandRow] /\ TypeOK
  BY Types DEF IInv
<1>2. command' \in [Commands -> CommandRow] /\ \A x \in Commands : command'[x] # command[x] => command'[x] = d
  BY <1>1
<1>3. TypeOK'
  BY <1>1, <1>2, Types DEF TypeOK, ChallengeRow, Calls, CommandRow, Entries
<1>4. OrgsGrow /\ ChallengesGrow /\ AccountOnce
  BY <1>1, Types, OrgFields DEF OrgsGrow, ChallengesGrow, AccountOnce
<1>5. \A x \in Commands : command'[x] # command[x] => CommandInv(command[x])'
  BY <1>2
<1> QED
  BY <1>3, <1>4, <1>5, StepKeeps

LEMMA StopCommandKeeps ==
    ASSUME IInv, NEW p \in Commands, StopCommand(p)
    PROVE  IInv' /\ AccountOnce
<1>1. CommandInv(NoCommand)' /\ NoCommand \in CommandRow
  BY NothingIsTyped DEF CommandInv, NoCommand
<1>2. opened' \in [Accounts -> Wallets \cup {Nobody}] /\ OpenedGrows
  BY Types DEF StopCommand, OpenedGrows, IInv
<1> QED
  BY <1>1, <1>2, CommandMoves DEF StopCommand, Market

LEMMA ListInvestorsKeeps ==
    ASSUME IInv, NEW p \in Commands, NEW list, list = {[wallet |-> w, row |-> org[w]] : w \in Lacking},
           ListInvestors(p)
    PROVE  IInv' /\ AccountOnce
<1> DEFINE d == [NoCommand EXCEPT !.step = "listed", !.list = list]
<1>1. \A entry \in list : /\ entry \in Entries /\ LackingInv(entry.wallet, entry.row)
  <2> SUFFICES ASSUME NEW w \in Lacking
               PROVE  [wallet |-> w, row |-> org[w]] \in Entries /\ LackingInv(w, org[w])
    OBVIOUS
  <2>1. w \in Wallets /\ org[w].type = "INVESTOR" /\ org[w].account = Nobody
    BY DEF Lacking
  <2>2. org[w] \in Organization /\ OrgInv(w)
    BY <2>1, Types DEF IInv, OrgsInv
  <2> QED
    BY <2>1, <2>2, OrgFields DEF LackingInv, CopyInv, OrgInv, Entries
<1>2. d \in CommandRow /\ d.list = list /\ d.step = "listed"
  BY <1>1, NothingIsTyped DEF CommandRow, NoCommand
<1>3. command' = [command EXCEPT ![p] = d]
  BY DEF ListInvestors
<1> HIDE DEF d
<1>4. CommandInv(d)'
  BY <1>1, <1>2 DEF CommandInv, LackingInv, CopyInv, ListInvestors
<1>5. opened' \in [Accounts -> Wallets \cup {Nobody}] /\ OpenedGrows
  BY Types DEF ListInvestors, OpenedGrows, IInv
<1> QED
  BY <1>2, <1>3, <1>4, <1>5, CommandMoves DEF ListInvestors, Market

LEMMA OpenAccountKeeps ==
    ASSUME IInv, NEW p \in Commands, NEW c, c = command[p], NEW entry \in c.list, NEW a \in Accounts,
           OpenAccount(p, entry, a)
    PROVE  IInv' /\ AccountOnce
<1> DEFINE d == [step |-> "opened", list |-> c.list \ {entry},
                 at |-> entry.wallet, row |-> entry.row, account |-> a]
<1>1. c \in CommandRow /\ CommandInv(c) /\ command \in [Commands -> CommandRow]
  BY Types DEF IInv, CommandsInv
<1>2. entry \in Entries /\ LackingInv(entry.wallet, entry.row)
  BY <1>1 DEF CommandInv, CommandRow
<1>3. d \in CommandRow
  BY <1>1, <1>2 DEF CommandRow, Entries
<1>4. d.list \subseteq c.list /\ d.step = "opened" /\ d.at = entry.wallet /\ d.row = entry.row /\ d.account = a
  OBVIOUS
<1>5. command' = [command EXCEPT ![p] = d]
  BY <1>1 DEF OpenAccount
<1> HIDE DEF d
<1>6. /\ opened' \in [Accounts -> Wallets \cup {Nobody}] /\ opened'[a] = entry.wallet /\ OpenedGrows
  BY <1>2, Types DEF OpenAccount, OpenedGrows, IInv, Entries
<1>7. CommandInv(d)'
  BY <1>1, <1>2, <1>4, <1>6 DEF CommandInv, LackingInv, CopyInv, OpenAccount
<1> QED
  BY <1>3, <1>5, <1>6, <1>7, CommandMoves DEF OpenAccount, Market

\* An account is recorded with an organization that still has none, and it is that wallet's.
LEMMA RecordAccountKeeps ==
    ASSUME IInv, NEW p \in Commands, NEW c, c = command[p], NEW new, new = WithAccount(c.row, c.account),
           RecordAccount(p)
    PROVE  IInv' /\ AccountOnce
<1> DEFINE w == c.at
           d == IF c.list = {} THEN NoCommand ELSE [NoCommand EXCEPT !.step = "listed", !.list = c.list]
<1>1. /\ CommandInv(c) /\ c \in CommandRow /\ c.step = "opened" /\ TypeOK /\ OrgUnmoved(w, c.row)
      /\ command \in [Commands -> CommandRow]
  BY Types DEF IInv, CommandsInv, RecordAccount
<1>2. /\ w \in Wallets /\ org[w] = c.row /\ c.row.version > 0 /\ c.row \in Organization
      /\ c.row.type = "INVESTOR" /\ c.row.account = Nobody
      /\ c.account \in Accounts /\ opened[c.account] = w
  BY <1>1 DEF CommandInv, LackingInv, CopyInv, OrgUnmoved, CommandRow
<1>3. /\ new \in Organization /\ new.version = c.row.version + 1 /\ new.type = "INVESTOR"
      /\ new.account = c.account /\ new.eligibility = c.row.eligibility
  BY <1>2, WithAccountFields
<1>4. org' = [org EXCEPT ![w] = new] /\ command' = [command EXCEPT ![p] = d]
  BY DEF RecordAccount
<1>5. /\ org' \in [Wallets -> Organization] /\ org'[w] = new /\ OrgsGrow
      /\ \A x \in Wallets : x # w => org'[x] = org[x]
      /\ \A x \in Wallets : org'[x].account # Nobody => org'[x].type = "INVESTOR"
  <2>1. org[w].version < new.version
    BY <1>2, <1>3, OrgFields
  <2> QED
    BY <1>2, <1>3, <1>4, <2>1, OrgMoves
<1>6. d \in CommandRow /\ d.list \subseteq c.list /\ d.step # "opened"
  BY <1>1, NothingIsTyped DEF CommandRow, NoCommand
<1> HIDE DEF d
<1>7. command' \in [Commands -> CommandRow] /\ \A x \in Commands : command'[x] # command[x] => command'[x] = d
  BY <1>1, <1>4, <1>6
<1>8. UNCHANGED <<challenge, session, call, opened, exchanged, decided, bids, bought>>
  BY DEF RecordAccount, Market
<1>9. TypeOK'
  BY <1>1, <1>5, <1>7, <1>8, Types DEF TypeOK, ChallengeRow, Calls, CommandRow, Entries
<1>10. ChallengesGrow /\ OpenedGrows
  BY <1>8 DEF ChallengesGrow, OpenedGrows
<1>11. AccountOnce
  BY <1>2, <1>3, <1>5 DEF AccountOnce
<1>12. OrgInv(w)'
  <2>1. OrgInv(w) /\ new.version # 0
    BY <1>2, <1>3, OrgFields DEF IInv, OrgsInv
  <2> QED
    BY <1>2, <1>3, <1>5, <1>8, <2>1 DEF OrgInv
<1>13. CommandInv(d)'
  <2>1. \A entry \in c.list : entry.row \in Organization /\ LackingInv(entry.wallet, entry.row)
    BY <1>1 DEF CommandInv, CommandRow, Entries
  <2>2. \A entry \in c.list : LackingInv(entry.wallet, entry.row)'
    BY <1>5, <1>9, <2>1, LackingKept
  <2> QED
    BY <1>6, <2>2 DEF CommandInv
<1>14. \A x \in Wallets : org'[x] # org[x] \/ decided'[x] # decided[x] => OrgInv(x)'
  BY <1>5, <1>8, <1>12
<1>15. \A x \in Commands : command'[x] # command[x] => CommandInv(command[x])'
  BY <1>7, <1>13
<1> QED
  BY <1>5, <1>8, <1>9, <1>10, <1>11, <1>14, <1>15, StepKeeps

-----------------------------------------------------------------------------
(* Every step *)

LEMMA NextIInv == IInv /\ [Next]_vars => IInv' /\ AccountOnce
<1> SUFFICES ASSUME IInv, [Next]_vars PROVE IInv' /\ AccountOnce
  OBVIOUS
<1>1. CASE UNCHANGED vars
  BY <1>1 DEF vars, IInv, TypeOK, OrgsInv, OrgInv, ChallengesInv, ChallengeInv, CallsInv, CallInv,
              CommandsInv, CommandInv, LackingInv, CopyInv, AccountOnce
<1>2. ASSUME NEW c \in Challenges, ExpireChallenge(c) \/ EndSession(c)
      PROVE  IInv' /\ AccountOnce
  BY <1>2, ExpireChallengeKeeps, EndSessionKeeps
<1>3. ASSUME NEW c \in Challenges, NEW w \in Wallets, IssueChallenge(c, w)
      PROVE  IInv' /\ AccountOnce
  BY <1>3, IssueChallengeKeeps
<1>4. ASSUME NEW c \in Challenges, NEW r \in Requests, ReadToVerify(r, c) \/ Resolve(r, c)
      PROVE  IInv' /\ AccountOnce
  BY <1>4, ReadToVerifyKeeps, ResolveKeeps
<1>5. ASSUME NEW c \in Challenges, NEW r \in Requests, NEW type \in {"ISSUER", "INVESTOR", "OPERATOR"},
             ReadToRegister(r, c, type)
      PROVE  IInv' /\ AccountOnce
  BY <1>5, ReadToRegisterKeeps
<1>6. ASSUME NEW r \in Requests, Register(r) \/ Verify(r) \/ Decide(r) \/ Bid(r) \/ GiveUp(r)
      PROVE  IInv' /\ AccountOnce
  BY <1>6, RegisterKeeps, VerifyKeeps, DecideKeeps, BidKeeps, GiveUpKeeps
<1>7. ASSUME NEW r \in Requests, NEW w \in Wallets, NEW verdict \in {"ELIGIBLE", "REJECTED"},
             ReadToDecide(r, w, verdict)
      PROVE  IInv' /\ AccountOnce
  BY <1>7, ReadToDecideKeeps
<1>8. ASSUME NEW w \in Wallets, MakeOperator(w) \/ Allocate(w)
      PROVE  IInv' /\ AccountOnce
  BY <1>8, MakeOperatorKeeps, AllocateKeeps
<1>9. ASSUME NEW p \in Commands, ListInvestors(p) \/ RecordAccount(p) \/ StopCommand(p)
      PROVE  IInv' /\ AccountOnce
  BY <1>9, ListInvestorsKeeps, RecordAccountKeeps, StopCommandKeeps
<1>10. ASSUME NEW p \in Commands, NEW entry \in command[p].list, NEW a \in Accounts, OpenAccount(p, entry, a)
       PROVE  IInv' /\ AccountOnce
  BY <1>10, OpenAccountKeeps
<1> QED
  BY <1>1, <1>2, <1>3, <1>4, <1>5, <1>6, <1>7, <1>8, <1>9, <1>10 DEF Next

-----------------------------------------------------------------------------
(* What the run checks, for every value of the constants *)

\* The inductive invariant: every decision and every account under way was computed from a past
\* version of the organization, and from the organization itself while it can still be written.
THEOREM AccessInvariant == Spec => []IInv
<1>1. IInv /\ [Next]_vars => IInv'
  BY NextIInv
<1> QED
  BY <1>1, InitIInv, PTL DEF Spec

\* Rows, requests and commands keep their types, and only investors have accounts.
THEOREM TypeCorrect == Spec => []TypeOK
<1>1. IInv => TypeOK
  BY DEF IInv
<1> QED
  BY <1>1, AccessInvariant, PTL

\* ConsumeChallenge lets one request through: one signature buys one session or one registration,
\* and a session always speaks for a wallet that acts for somebody.
THEOREM OneChallengeOneResult == Spec => []ChallengeBuysOnce
<1>1. IInv => ChallengeBuysOnce
  BY DEF IInv, ChallengesInv, ChallengeInv, ChallengeBuysOnce
<1> QED
  BY <1>1, AccessInvariant, PTL

\* Every write to an organization names the version it was computed from, so no operator and no
\* chain-accounts command takes back a decision it did not see.
THEOREM LastDecisionStands == Spec => []EligibilityIsAsDecided
<1>1. IInv => EligibilityIsAsDecided
  BY DEF IInv, OrgsInv, OrgInv, EligibilityIsAsDecided
<1> QED
  BY <1>1, AccessInvariant, PTL

\* Of the accounts racing commands open for one wallet the first that is recorded is kept.
THEOREM FirstAccountStays == Spec => AccountIsForGood
<1>1. IInv /\ [Next]_vars =>
        [\A w \in Wallets : org'[w].account # org[w].account =>
            org[w].account = Nobody /\ opened[org'[w].account] = w]_vars
  BY NextIInv DEF AccountOnce
<1> QED
  BY <1>1, AccessInvariant, PTL DEF Spec, AccountIsForGood

-----------------------------------------------------------------------------
(* Idempotency: the claim of a key *)


Active == {"running", "performed", "refused"}

\* The attempt that runs holds the claim, and nobody else runs.
ClaimInv ==
    \A a \in Running :
        /\ record = [request_hash |-> BodyOf[a], response |-> NoOne]
        /\ \A b \in Running : a = b

\* Nothing was done under this claim yet, nor will a finished claim be given up.
Unspent == ~Exists \/ \E a \in Attempts : at[a] \in {"running", "refused"}

EffectInv ==
    /\ IsFiniteSet(effects)
    /\ Cardinality(effects) <= 1 + unknown
    /\ Unspent => Cardinality(effects) <= unknown

\* Responses, told or stored, are of work that was done for the same content.
ReplyInv ==
    /\ \A a \in Attempts : at[a] = "performed" => a \in effects
    /\ IsComplete => record.response \in effects /\ BodyOf[record.response] = record.request_hash
    /\ RepliesAreTrue

KeyIInv == KeyTypeOK /\ ClaimInv /\ EffectInv /\ ReplyInv

-------------------------------------------------------------------------------

\* A row is absent or bound to a content.
LEMMA RowShape ==
    ASSUME KeyTypeOK
    PROVE  /\ Exists <=> record \in Records
           /\ IsComplete <=> Exists /\ record.response \in Attempts
  BY IdempotencyAssumption DEF KeyTypeOK, Exists, IsComplete, Records, NoRecord

\* No attempt has been sent and nothing was done.
LEMMA KeyInitIInv == KeyInit => KeyIInv
  <1> SUFFICES ASSUME KeyInit PROVE KeyIInv
    OBVIOUS
  <1>1. KeyTypeOK
    BY IdempotencyAssumption DEF KeyInit, KeyTypeOK, Places, Answers
  <1>2. ClaimInv
    BY DEF KeyInit, ClaimInv, Running
  <1>3. EffectInv
    BY IdempotencyAssumption, FS_EmptySet DEF KeyInit, EffectInv
  <1>4. ReplyInv
    BY IdempotencyAssumption DEF KeyInit, ReplyInv, RepliesAreTrue, IsComplete, Exists
  <1> QED
    BY <1>1, <1>2, <1>3, <1>4 DEF KeyIInv

\* Telling an attempt something, and sending it somewhere, keeps answers and places typed.
LEMMA GotoType ==
    ASSUME KeyTypeOK, NEW a \in Attempts, NEW label \in Places, Goto(a, label)
    PROVE  at' \in [Attempts -> Places]
  BY DEF KeyTypeOK, Goto

LEMMA TellType ==
    ASSUME KeyTypeOK, NEW a \in Attempts, NEW what \in Answers, Tell(a, what)
    PROVE  answer' \in [Attempts -> Answers]
  BY DEF KeyTypeOK, Tell

\* Types are kept by every step.
LEMMA TypeStep == KeyTypeOK /\ [KeyNext]_keyVars => KeyTypeOK'
  <1> SUFFICES ASSUME KeyTypeOK, [KeyNext]_keyVars PROVE KeyTypeOK'
    OBVIOUS
  <1>a. /\ \A a \in Attempts : a \in Answers
        /\ {"not found", "key reused", "in progress", "refused", "nothing"} \subseteq Answers
    BY DEF Answers, Refusals
  <1>p. {"running", "looking", "performed", "refused", "done"} \subseteq Places
    BY DEF Places
  <1>1. CASE UNCHANGED keyVars
    BY <1>1 DEF keyVars, KeyTypeOK
  <1>2. ASSUME NEW a \in Attempts, Reserve(a) PROVE KeyTypeOK'
    <2>1. at' \in [Attempts -> Places]
      BY <1>2, <1>p, GotoType DEF Reserve
    <2>2. record' \in Records \cup {NoRecord}
      BY <1>2, IdempotencyAssumption DEF Reserve, Records, KeyTypeOK
    <2> QED
      BY <1>2, <2>1, <2>2 DEF Reserve, KeyTypeOK
  <1>3. ASSUME NEW a \in Attempts, Look(a) PROVE KeyTypeOK'
    <2>1. at' \in [Attempts -> Places]
      BY <1>3, <1>p, GotoType DEF Look
    <2>2. IsComplete => record.response \in Answers
      BY <1>a, RowShape
    <2>3. answer' \in [Attempts -> Answers]
      BY <1>3, <1>a, <2>2, TellType DEF Look
    <2> QED
      BY <1>3, <2>1, <2>3 DEF Look, KeyTypeOK
  <1>4. ASSUME NEW a \in Attempts, Perform(a) \/ Refuse(a) \/ CommitUnknown(a) PROVE KeyTypeOK'
    <2>1. at' \in [Attempts -> Places]
      BY <1>4, <1>p, GotoType DEF Perform, Refuse, CommitUnknown
    <2>2. answer' \in [Attempts -> Answers]
      BY <1>4, <1>a, TellType DEF Perform, Refuse, CommitUnknown
    <2>3. effects' \subseteq Attempts /\ unknown' \in 0..MaxUnknown
      BY <1>4, IdempotencyAssumption DEF Perform, Refuse, CommitUnknown, KeyTypeOK
    <2> QED
      BY <1>4, <2>1, <2>2, <2>3 DEF Perform, Refuse, CommitUnknown, KeyTypeOK
  <1>5. ASSUME NEW a \in Attempts, Complete(a) \/ Release(a) PROVE KeyTypeOK'
    <2>1. at' \in [Attempts -> Places]
      BY <1>5, <1>p, GotoType DEF Complete, Release
    <2>2. record' \in Records \cup {NoRecord}
      BY <1>5, RowShape DEF Complete, Completed, Release, Records, KeyTypeOK
    <2> QED
      BY <1>5, <2>1, <2>2 DEF Complete, Release, KeyTypeOK
  <1>6. ASSUME NEW a \in Attempts, FinishFails(a) \/ Abort(a) PROVE KeyTypeOK'
    <2>1. at' \in [Attempts -> Places]
      BY <1>6, <1>p, GotoType DEF FinishFails, Abort
    <2>2. answer' \in [Attempts -> Answers]
      BY <1>6, <1>a, TellType DEF FinishFails, Abort, KeyTypeOK
    <2>3. faults' \in 0..MaxFaults
      BY <1>6, IdempotencyAssumption DEF FinishFails, Abort, KeyTypeOK
    <2> QED
      BY <1>6, <2>1, <2>2, <2>3 DEF FinishFails, Abort, KeyTypeOK
  <1> QED
    BY <1>1, <1>2, <1>3, <1>4, <1>5, <1>6 DEF KeyNext

-------------------------------------------------------------------------------

\* A step of one attempt leaves the places of the others.
LEMMA OthersStay ==
    ASSUME KeyTypeOK, NEW a \in Attempts, NEW label, Goto(a, label)
    PROVE  at'[a] = label /\ \A b \in Attempts \ {a} : at'[b] = at[b]
  BY DEF KeyTypeOK, Goto

\* While an attempt runs the row is there, as its claim.
LEMMA ClaimExists ==
    ASSUME ClaimInv, Running # {}
    PROVE  Exists /\ ~IsComplete
  BY IdempotencyAssumption DEF ClaimInv, Running, Exists, IsComplete, NoRecord

\* A claim is made when nobody runs, kept by the one who runs and given up by it.
LEMMA ClaimStep == KeyIInv /\ [KeyNext]_keyVars => ClaimInv'
  <1> SUFFICES ASSUME KeyIInv, [KeyNext]_keyVars PROVE ClaimInv'
    OBVIOUS
  <1> USE DEF KeyIInv
  <1>1. CASE UNCHANGED keyVars
    BY <1>1 DEF keyVars, ClaimInv, Running
  <1>2. ASSUME NEW a \in Attempts, Reserve(a) PROVE ClaimInv'
    <2>1. CASE Free
      <3>1. Running = {}
        BY <2>1, ClaimExists DEF Free
      <3>2. Running' = {a}
        BY <1>2, <2>1, <3>1, OthersStay DEF Reserve, Running
      <3> QED
        BY <1>2, <2>1, <3>2 DEF Reserve, ClaimInv
    <2>2. CASE ~Free
      <3>1. Running' = Running
        BY <1>2, <2>2, OthersStay DEF Reserve, Running
      <3> QED
        BY <1>2, <2>2, <3>1 DEF Reserve, ClaimInv
    <2> QED
      BY <2>1, <2>2
  <1>3. ASSUME NEW a \in Attempts, Look(a) \/ Perform(a) \/ Refuse(a) \/ CommitUnknown(a)
        PROVE  ClaimInv'
    <2>1. PICK label \in Places : Goto(a, label) /\ (a \in Running <=> label \in Active)
      BY <1>3 DEF Look, Perform, Refuse, CommitUnknown, Running, Places, Active
    <2>2. Running' = Running
      BY <2>1, OthersStay DEF Running, Active
    <2>3. record' = record
      BY <1>3 DEF Look, Perform, Refuse, CommitUnknown
    <2> QED
      BY <2>2, <2>3 DEF ClaimInv
  <1>4. ASSUME NEW a \in Attempts, Complete(a) \/ Release(a) \/ FinishFails(a)
        PROVE  ClaimInv'
    <2>1. a \in Running /\ Running' = Running \ {a}
      BY <1>4, OthersStay DEF Complete, Release, MayRelease, FinishFails, Running
    <2> QED
      BY <2>1 DEF ClaimInv
  <1>5. ASSUME NEW a \in Attempts, Abort(a) PROVE ClaimInv'
    <2>1. Running' = Running \ {a} /\ record' = record
      BY <1>5, OthersStay DEF Abort, Running
    <2> QED
      BY <2>1 DEF ClaimInv
  <1> QED
    BY <1>1, <1>2, <1>3, <1>4, <1>5 DEF KeyNext

\* A row bound to a request stays a row when its response is stored.
LEMMA CompletedExists ==
    ASSUME KeyTypeOK, Exists, NEW a \in Attempts
    PROVE  /\ Completed(a) # NoRecord
           /\ Completed(a).request_hash = record.request_hash
           /\ ~IsComplete => Completed(a).response = a
           /\ IsComplete => Completed(a) = record
  BY RowShape, IdempotencyAssumption DEF Completed, Exists, IsComplete, Records, NoRecord

\* One more element is at most one more to count.
LEMMA OneMore ==
    ASSUME NEW S, IsFiniteSet(S), NEW e
    PROVE  /\ IsFiniteSet(S \cup {e})
           /\ Cardinality(S \cup {e}) \in 0..(Cardinality(S) + 1)
  <1>1. /\ IsFiniteSet(S \cup {e})
        /\ Cardinality(S \cup {e}) = IF e \in S THEN Cardinality(S) ELSE Cardinality(S) + 1
    BY FS_AddElement
  <1>2. Cardinality(S) \in Nat
    BY FS_CardinalityType
  <1> QED
    BY <1>1, <1>2

\* Work is done once under a claim, and a claim under which it was done is not given up.
LEMMA EffectStep == KeyIInv /\ [KeyNext]_keyVars => EffectInv'
  <1> SUFFICES ASSUME KeyIInv, [KeyNext]_keyVars PROVE EffectInv'
    OBVIOUS
  <1> USE DEF KeyIInv, EffectInv
  <1>t. unknown \in Nat /\ Cardinality(effects) \in Nat
    BY IdempotencyAssumption, FS_CardinalityType DEF KeyTypeOK
  <1>1. CASE UNCHANGED keyVars
    BY <1>1 DEF keyVars, Unspent, Exists
  <1>2. ASSUME NEW a \in Attempts, Reserve(a) PROVE EffectInv'
    <2>1. Unspent' => Unspent
      BY <1>2, OthersStay DEF Reserve, Unspent, Free, Exists
    <2> QED
      BY <1>2, <2>1 DEF Reserve
  <1>3. ASSUME NEW a \in Attempts, Look(a) \/ FinishFails(a) \/ Abort(a) \/ Refuse(a)
        PROVE  EffectInv'
    <2>1. Unspent' => Unspent
      BY <1>3, OthersStay DEF Look, FinishFails, Abort, Refuse, Unspent, Exists
    <2> QED
      BY <1>3, <2>1 DEF Look, FinishFails, Abort, Refuse
  <1>4. ASSUME NEW a \in Attempts, Perform(a) PROVE EffectInv'
    <2>1. a \in Running /\ Unspent
      BY <1>4 DEF Perform, Running, Unspent
    <2>2. ~ Unspent'
      <3>1. Exists'
        BY <1>4, <2>1, ClaimExists DEF Perform, Exists
      <3>2. \A b \in Attempts \ {a} : at'[b] \notin {"running", "refused"}
        BY <1>4, <2>1, OthersStay DEF Perform, ClaimInv, Running
      <3> QED
        BY <1>4, <3>1, <3>2, OthersStay DEF Perform, Unspent
    <2>3. /\ IsFiniteSet(effects')
          /\ Cardinality(effects') \in 0..(Cardinality(effects) + 1)
      BY <1>4, OneMore DEF Perform
    <2> QED
      BY <1>4, <1>t, <2>1, <2>2, <2>3 DEF Perform
  <1>5. ASSUME NEW a \in Attempts, CommitUnknown(a) PROVE EffectInv'
    <2>1. Unspent
      BY <1>5 DEF CommitUnknown, Unspent
    <2>2. /\ IsFiniteSet(effects')
          /\ Cardinality(effects') \in 0..(Cardinality(effects) + 1)
      BY <1>5, OneMore DEF CommitUnknown
    <2> QED
      BY <1>5, <1>t, <2>1, <2>2 DEF CommitUnknown
  <1>6. ASSUME NEW a \in Attempts, Complete(a) PROVE EffectInv'
    <2>1. a \in Running
      BY <1>6 DEF Complete, Running
    <2>2. Exists'
      BY <1>6, <2>1, ClaimExists, CompletedExists DEF Complete, Exists
    <2>3. \A b \in Attempts : at'[b] \notin {"running", "refused"}
      BY <1>6, <2>1, OthersStay DEF Complete, ClaimInv, Running
    <2> QED
      BY <1>6, <2>2, <2>3 DEF Complete, Unspent
  <1>7. ASSUME NEW a \in Attempts, Release(a) PROVE EffectInv'
    <2>1. Unspent
      BY <1>7 DEF Release, MayRelease, Unspent
    <2> QED
      BY <1>7, <2>1 DEF Release
  <1> QED
    BY <1>1, <1>2, <1>3, <1>4, <1>5, <1>6, <1>7 DEF KeyNext

\* NoOne is told the response of an attempt except by Perform and by the replay.
LEMMA ToldBefore ==
    ASSUME KeyTypeOK, RepliesAreTrue, effects \subseteq effects',
           NEW a \in Attempts, NEW what \in Answers, Tell(a, what),
           what \in Attempts => what \in effects' /\ BodyOf[what] = BodyOf[a]
    PROVE  RepliesAreTrue'
  <1>1. answer'[a] = what /\ \A b \in Attempts \ {a} : answer'[b] = answer[b]
    BY DEF KeyTypeOK, Tell
  <1> QED
    BY <1>1 DEF RepliesAreTrue

\* Replies stay true: work is never undone and what is stored never changes its content.
LEMMA ReplyStep == KeyIInv /\ [KeyNext]_keyVars => ReplyInv'
  <1> SUFFICES ASSUME KeyIInv, [KeyNext]_keyVars PROVE ReplyInv'
    OBVIOUS
  <1> USE DEF KeyIInv, ReplyInv
  <1>a. /\ \A a \in Attempts : a \in Answers
        /\ Refusals \subseteq Answers /\ Attempts \cap Refusals = {}
    BY IdempotencyAssumption DEF Answers
  <1>1. CASE UNCHANGED keyVars
    BY <1>1 DEF keyVars, RepliesAreTrue, IsComplete, Exists
  <1>2. ASSUME NEW a \in Attempts, Reserve(a) PROVE ReplyInv'
    <2>1. \A b \in Attempts : at'[b] = "performed" => at[b] = "performed"
      BY <1>2, OthersStay DEF Reserve
    <2>2. IsComplete' => IsComplete /\ record' = record
      BY <1>2 DEF Reserve, IsComplete, Exists, Free
    <2> QED
      BY <1>2, <2>1, <2>2 DEF Reserve, RepliesAreTrue
  <1>3. ASSUME NEW a \in Attempts, Look(a) PROVE ReplyInv'
    <2>1. \A b \in Attempts : at'[b] = "performed" => at[b] = "performed"
      BY <1>3, OthersStay DEF Look
    <2>2. RepliesAreTrue'
      <3>1. PICK what \in Answers :
              Tell(a, what) /\ (what \in Attempts => what \in effects /\ BodyOf[what] = BodyOf[a])
        <4>1. CASE IsComplete /\ SameRequest(a) /\ Tell(a, record.response)
          BY <1>a, <4>1, RowShape DEF SameRequest
        <4>2. CASE Tell(a, "not found") \/ Tell(a, "key reused") \/ Tell(a, "in progress")
          BY <1>a, <4>2 DEF Refusals
        <4> QED
          BY <1>3, <4>1, <4>2 DEF Look
      <3> QED
        BY <1>3, <3>1, ToldBefore DEF Look
    <2> QED
      BY <1>3, <2>1, <2>2 DEF Look, IsComplete, Exists
  <1>4. ASSUME NEW a \in Attempts, Perform(a) PROVE ReplyInv'
    <2>1. \A b \in Attempts : at'[b] = "performed" => b = a \/ at[b] = "performed"
      BY <1>4, OthersStay DEF Perform
    <2>2. effects' = effects \cup {a} /\ Tell(a, a)
      BY <1>4 DEF Perform
    <2>3. RepliesAreTrue'
      BY <1>a, <2>2, ToldBefore
    <2> QED
      BY <1>4, <2>1, <2>2, <2>3 DEF Perform, IsComplete, Exists
  <1>5. ASSUME NEW a \in Attempts, Refuse(a) \/ CommitUnknown(a) PROVE ReplyInv'
    <2>1. \A b \in Attempts : at'[b] = "performed" => at[b] = "performed"
      BY <1>5, OthersStay DEF Refuse, CommitUnknown
    <2>2. effects \subseteq effects' /\ Tell(a, "refused") /\ record' = record
      BY <1>5 DEF Refuse, CommitUnknown
    <2>3. "refused" \in Answers \ Attempts
      BY <1>a DEF Refusals
    <2>4. RepliesAreTrue'
      BY <2>2, <2>3, ToldBefore
    <2> QED
      BY <2>1, <2>2, <2>4 DEF IsComplete, Exists
  <1>6. ASSUME NEW a \in Attempts, Complete(a) PROVE ReplyInv'
    <2>1. \A b \in Attempts : at'[b] = "performed" => at[b] = "performed"
      BY <1>6, OthersStay DEF Complete
    <2>2. a \in Running /\ a \in effects
      BY <1>6 DEF Complete, Running
    <2>3. /\ record = [request_hash |-> BodyOf[a], response |-> NoOne]
          /\ Exists /\ ~IsComplete
      BY <2>2, ClaimExists DEF ClaimInv
    <2>4. record'.response = a /\ record'.request_hash = BodyOf[a]
      BY <1>6, <2>3, CompletedExists DEF Complete
    <2> QED
      BY <1>6, <2>1, <2>2, <2>4 DEF Complete, RepliesAreTrue
  <1>7. ASSUME NEW a \in Attempts, Release(a) PROVE ReplyInv'
    <2>1. \A b \in Attempts : at'[b] = "performed" => at[b] = "performed"
      BY <1>7, OthersStay DEF Release
    <2>2. IsComplete' => IsComplete /\ record' = record
      BY <1>7 DEF Release, IsComplete, Exists
    <2> QED
      BY <1>7, <2>1, <2>2 DEF Release, RepliesAreTrue
  <1>8. ASSUME NEW a \in Attempts, FinishFails(a) \/ Abort(a) PROVE ReplyInv'
    <2>1. \A b \in Attempts : at'[b] = "performed" => at[b] = "performed"
      BY <1>8, OthersStay DEF FinishFails, Abort
    <2>2. effects' = effects /\ record' = record
      BY <1>8 DEF FinishFails, Abort
    <2>3. RepliesAreTrue'
      <3>1. CASE answer' = answer
        BY <2>2, <3>1 DEF RepliesAreTrue
      <3>2. CASE Tell(a, "nothing")
        BY <1>a, <2>2, <3>2, ToldBefore DEF Refusals
      <3> QED
        BY <1>8, <3>1, <3>2 DEF FinishFails, Abort
    <2> QED
      BY <2>1, <2>2, <2>3 DEF IsComplete, Exists
  <1> QED
    BY <1>1, <1>2, <1>3, <1>4, <1>5, <1>6, <1>7, <1>8 DEF KeyNext

-------------------------------------------------------------------------------
(* The theorems *)

\* The invariant holds of every reachable state of the middleware.
THEOREM ClaimInvariant == KeySpec => []KeyIInv
  <1>1. KeyIInv /\ [KeyNext]_keyVars => KeyIInv'
    BY TypeStep, ClaimStep, EffectStep, ReplyStep DEF KeyIInv
  <1> QED
    BY <1>1, KeyInitIInv, PTL DEF KeySpec

\* The row of the key, the attempts and their answers keep their types.
THEOREM KeysAreTyped == KeySpec => []KeyTypeOK
  BY ClaimInvariant, PTL DEF KeyIInv

\* However often the request is sent its work is done once, but for commits nobody was told of.
THEOREM WorkIsDoneOnce == KeySpec => []OneEffectPerKey
  <1>1. KeyIInv => OneEffectPerKey
    BY DEF KeyIInv, EffectInv, OneEffectPerKey
  <1> QED
    BY <1>1, ClaimInvariant, PTL

\* Two attempts under one key never run in parallel (Middleware.Handler).
THEOREM AttemptsRunAlone == KeySpec => []OneAttemptRuns
  <1>1. KeyIInv => OneAttemptRuns
    BY DEF KeyIInv, ClaimInv, OneAttemptRuns
  <1> QED
    BY <1>1, ClaimInvariant, PTL

\* A response a client reads, at first hand or replayed, is the one of work that was done for
\* what it sent (Middleware.replay).
THEOREM RepliesTellTheTruth == KeySpec => []RepliesAreTrue
  BY ClaimInvariant, PTL DEF KeyIInv, ReplyInv

-----------------------------------------------------------------------------
(* Outbox: the promise of Delivery *)

\* What a dispatcher holds: copies of rows of the table, and once it has asked
\* the handler, one the handler is done with.
DispatcherInv(w) ==
    /\ doing[w] # "polling" => batch[w] # <<>>
    /\ \A n \in 1..Len(batch[w]) : batch[w][n].id \in published
    /\ doing[w] = "handled" => Event(w).id \in done

QueueInv ==
    /\ QueueTypeOK
    /\ delivered \subseteq done
    /\ \A w \in Workers : DispatcherInv(w)

\* A queue holds an event once.
Queues == {q \in Seq(Events) : IsInjective(q)}

\* The members of a sequence.
LEMMA Members ==
    ASSUME NEW S, NEW q \in Seq(S)
    PROVE  ToSet(q) = {q[n] : n \in 1..Len(q)} /\ ToSet(q) \in SUBSET S
BY DEF ToSet

LEMMA Appended ==
    ASSUME NEW q \in Queues, NEW e \in Events \ ToSet(q)
    PROVE  Append(q, e) \in Queues /\ ToSet(Append(q, e)) = ToSet(q) \cup {e}
<1> DEFINE r == Append(q, e)
<1>1. /\ r \in Seq(Events) /\ Len(r) = Len(q) + 1 /\ Len(q) \in Nat
      /\ \A n \in 1..Len(q) : r[n] = q[n]
      /\ r[Len(q) + 1] = e
      /\ DOMAIN r = 1..(Len(q) + 1) /\ DOMAIN q = 1..Len(q)
  BY DEF Queues
<1> HIDE DEF r
<1>2. \A n \in 1..Len(q) : q[n] # e
  BY Members DEF Queues
<1>3. IsInjective(r)
  BY <1>1, <1>2 DEF IsInjective, Queues
<1>4. ToSet(r) = ToSet(q) \cup {e}
  BY <1>1, Members DEF ToSet
<1> QED
  BY <1>1, <1>3, <1>4 DEF Queues, r

LEMMA TakenOut ==
    ASSUME NEW q \in Queues, NEW e
    PROVE  Without(q, e) \in Queues /\ ToSet(Without(q, e)) = ToSet(q) \ {e}
<1>1. CASE e \notin ToSet(q)
  BY <1>1 DEF Without
<1>2. CASE e \in ToSet(q)
  <2> DEFINE p == CHOOSE n \in DOMAIN q : q[n] = e
  <2>1. p \in 1..Len(q) /\ q[p] = e /\ Len(q) \in Nat /\ DOMAIN q = 1..Len(q)
    BY <1>2 DEF ToSet, Queues
  <2>2. \A n \in 1..Len(q) : q[n] = e => n = p
    BY <2>1 DEF Queues, IsInjective
  <2> HIDE DEF p
  <2> DEFINE a == SubSeq(q, 1, p - 1)
             b == SubSeq(q, p + 1, Len(q))
             r == a \o b
  <2>3. a \in Seq(Events) /\ Len(a) = p - 1 /\ \A n \in 1..(p - 1) : a[n] = q[n]
    BY <2>1 DEF Queues
  <2>4. b \in Seq(Events) /\ Len(b) = Len(q) - p /\ \A n \in 1..(Len(q) - p) : b[n] = q[p + n]
    <3>1. /\ b \in Seq(Events) /\ Len(b) = IF p + 1 <= Len(q) THEN Len(q) - (p + 1) + 1 ELSE 0
          /\ \A n \in 1..(Len(q) - (p + 1) + 1) : b[n] = q[p + 1 + n - 1]
      BY <2>1, SubSeqProperties DEF Queues
    <3>2. Len(b) = Len(q) - p
      <4>1. p \in Int /\ Len(q) \in Int /\ p <= Len(q)
        BY <2>1
      <4>2. Len(b) = IF p + 1 <= Len(q) THEN Len(q) - (p + 1) + 1 ELSE 0
        BY <3>1
      <4> QED
        BY <4>1, <4>2
    <3>3. ASSUME NEW n \in 1..(Len(q) - p) PROVE b[n] = q[p + n]
      <4>1. n \in 1..(Len(q) - (p + 1) + 1) /\ p + 1 + n - 1 = p + n
        BY <2>1
      <4> QED
        BY <3>1, <4>1
    <3> QED
      BY <3>1, <3>2, <3>3
  <2> HIDE DEF a, b
  <2>5. /\ r \in Seq(Events) /\ Len(r) = Len(q) - 1
        /\ \A n \in 1..(Len(q) - 1) : r[n] = IF n < p THEN q[n] ELSE q[n + 1]
    <3>1. /\ r \in Seq(Events) /\ Len(r) = Len(a) + Len(b)
          /\ \A n \in 1..(Len(a) + Len(b)) : r[n] = IF n <= Len(a) THEN a[n] ELSE b[n - Len(a)]
      BY <2>3, <2>4, ConcatProperties
    <3>2. \A n \in 1..(Len(q) - 1) : ~(n < p) => b[n - (p - 1)] = q[n + 1]
      <4> TAKE n \in 1..(Len(q) - 1)
      <4> HAVE ~(n < p)
      <4> DEFINE k == n - (p - 1)
      <4>1. k \in 1..(Len(q) - p) /\ p + k = n + 1
        BY <2>1
      <4> HIDE DEF k
      <4>2. b[k] = q[n + 1]
        BY <2>4, <4>1
      <4> QED
        BY <4>2 DEF k
    <3>3. Len(a) + Len(b) = Len(q) - 1
      BY <2>1, <2>3, <2>4
    <3>4. ASSUME NEW n \in 1..(Len(q) - 1) PROVE r[n] = IF n < p THEN q[n] ELSE q[n + 1]
      <4>1. r[n] = IF n <= Len(a) THEN a[n] ELSE b[n - Len(a)]
        BY <3>1, <3>3
      <4>2. (n <= Len(a) <=> n < p) /\ n - Len(a) = n - (p - 1) /\ n \in Int
        BY <2>1, <2>3
      <4>3. CASE n < p
        BY <2>1, <2>3, <4>1, <4>2, <4>3
      <4>4. CASE ~(n < p)
        BY <3>2, <4>1, <4>2, <4>4
      <4> QED
        BY <4>3, <4>4
    <3> QED
      BY <3>1, <3>3, <3>4
  <2>6. Without(q, e) = r
    BY <1>2 DEF Without, RemoveAt, a, b, p
  <2> HIDE DEF r
  <2>7. DOMAIN r = 1..(Len(q) - 1)
    BY <2>5
  <2>8. IsInjective(r)
    <3> SUFFICES ASSUME NEW m \in 1..(Len(q) - 1), NEW n \in 1..(Len(q) - 1), r[m] = r[n] PROVE m = n
      BY <2>7 DEF IsInjective
    <3> DEFINE At(k) == IF k < p THEN k ELSE k + 1
    <3>1. At(m) \in 1..Len(q) /\ At(n) \in 1..Len(q) /\ (At(m) = At(n) => m = n)
      BY <2>1
    <3>2. r[m] = q[At(m)] /\ r[n] = q[At(n)]
      BY <2>5
    <3> HIDE DEF At
    <3>3. At(m) = At(n)
      BY <2>1, <3>1, <3>2 DEF Queues, IsInjective
    <3> QED
      BY <3>1, <3>3
  <2>9. ToSet(r) \subseteq ToSet(q) \ {e}
    BY <2>1, <2>2, <2>5, <2>7 DEF ToSet
  <2>10. ASSUME NEW x \in ToSet(q) \ {e} PROVE x \in ToSet(r)
    <3>1. PICK n \in 1..Len(q) : q[n] = x /\ n # p
      BY <2>1 DEF ToSet
    <3> DEFINE m == IF n < p THEN n ELSE n - 1
    <3>2. m \in 1..(Len(q) - 1) /\ r[m] = x
      BY <2>1, <2>5, <3>1
    <3> QED
      BY <2>7, <3>2 DEF ToSet
  <2> QED
    BY <2>5, <2>6, <2>8, <2>9, <2>10 DEF Queues
<1> QED
  BY <1>1, <1>2

LEMMA QueueInitInv == QueueInit => QueueInv
<1> SUFFICES ASSUME QueueInit PROVE QueueInv
  OBVIOUS
<1>1. due \in Queues /\ ToSet(due) = {}
  BY DEF QueueInit, Queues, IsInjective, ToSet
<1>2. QueueTypeOK
  BY <1>1, OutboxAssumption DEF QueueInit, QueueTypeOK, Queues
<1> QED
  BY <1>2 DEF QueueInit, QueueInv, DispatcherInv

\* The table, apart from the dispatchers.
TableInv ==
    /\ attempts \in [Events -> 0..MaxAttempts] /\ due \in Queues
    /\ backoff \subseteq Events /\ parked \subseteq Events /\ delivered \subseteq Events
    /\ ToSet(due) \cap (backoff \cup parked \cup delivered) = {}
    /\ backoff \cap parked = {} /\ (backoff \cup parked) \cap delivered = {}

Labels == {"polling", "claiming", "delivering", "handled", "failing"}
PassesInv == doing \in [Workers -> Labels] /\ batch \in [Workers -> Seq(Copies)]
BoundsInv == done \subseteq Events /\ failures \in 0..MaxFailures /\ retries \in 0..MaxRetries

LEMMA QueueTypes == QueueTypeOK <=> TableInv /\ PassesInv /\ BoundsInv
BY DEF QueueTypeOK, TableInv, PassesInv, BoundsInv, Queues, Labels

\* The promise of Delivery for one step.
PromiseStep == [Promise!Next]_<<published, done, delivered>>

LEMMA PublishedIsTyped == ASSUME TableInv PROVE published \subseteq Events
BY Members DEF TableInv, Queues, published

\* A dispatcher that does not step, while nothing is dropped.
LEMMA DispatcherKept ==
    ASSUME QueueInv, NEW w \in Workers, doing'[w] = doing[w], batch'[w] = batch[w],
           published \subseteq published', done \subseteq done'
    PROVE  DispatcherInv(w)'
<1>1. DispatcherInv(w)
  BY DEF QueueInv
<1> QED
  BY <1>1 DEF DispatcherInv, Event

LEMMA HeldCopy ==
    ASSUME QueueInv, NEW w \in Workers, doing[w] # "polling"
    PROVE  /\ Event(w).id \in published \cap Events /\ Len(batch[w]) \in Nat \ {0}
           /\ batch[w] \in Seq(Copies) /\ Event(w) \in Copies
<1>1. /\ batch[w] # <<>> /\ batch[w] \in Seq(Copies) /\ TableInv
      /\ \A n \in 1..Len(batch[w]) : batch[w][n].id \in published
  BY QueueTypes DEF QueueInv, DispatcherInv, PassesInv
<1>2. Head(batch[w]) = batch[w][1] /\ Len(batch[w]) \in Nat \ {0} /\ Head(batch[w]) \in Copies
  BY <1>1
<1> QED
  BY <1>1, <1>2, PublishedIsTyped DEF Event

\* The end of a pass, and the step on to the rest of the batch.
LEMMA PassMoves ==
    ASSUME QueueInv, NEW w \in Workers, doing[w] # "polling", EndPass(w) \/ Proceed(w),
           published \subseteq published', done \subseteq done'
    PROVE  PassesInv' /\ \A v \in Workers : DispatcherInv(v)'
<1>1. /\ doing \in [Workers -> Labels] /\ batch \in [Workers -> Seq(Copies)]
      /\ batch[w] \in Seq(Copies) /\ Len(batch[w]) \in Nat \ {0}
  BY HeldCopy, QueueTypes DEF QueueInv, PassesInv
<1>2. Tail(batch[w]) \in Seq(Copies) /\ Len(Tail(batch[w])) = Len(batch[w]) - 1
      /\ \A n \in 1..(Len(batch[w]) - 1) : Tail(batch[w])[n] = batch[w][n + 1]
  BY <1>1
<1>3. ASSUME NEW v \in Workers, v # w PROVE DispatcherInv(v)'
  <2>1. doing'[v] = doing[v] /\ batch'[v] = batch[v]
    BY <1>1, <1>3 DEF EndPass, Proceed
  <2> QED
    BY <2>1, DispatcherKept
<1>4. CASE EndPass(w)
  <2>1. PassesInv' /\ doing'[w] = "polling" /\ batch'[w] = <<>>
    BY <1>1, <1>4 DEF EndPass, PassesInv, Labels
  <2>2. DispatcherInv(w)'
    BY <2>1 DEF DispatcherInv
  <2> QED
    BY <1>3, <2>1, <2>2
<1>5. CASE Proceed(w)
  <2>1. PassesInv'
    BY <1>1, <1>2, <1>5 DEF Proceed, PassesInv, Labels
  <2>2. /\ doing'[w] = IF Len(batch[w]) = 1 THEN "polling" ELSE "delivering"
        /\ batch'[w] = Tail(batch[w])
    BY <1>1, <1>5 DEF Proceed
  <2>3. \A n \in 1..Len(batch[w]) : batch[w][n].id \in published
    BY DEF QueueInv, DispatcherInv
  <2>4. \A n \in 1..Len(batch'[w]) : batch'[w][n].id \in published'
    <3> TAKE n \in 1..Len(batch'[w])
    <3>1. n \in 1..(Len(batch[w]) - 1) /\ n + 1 \in 1..Len(batch[w])
      BY <1>1, <1>2, <2>2
    <3> QED
      BY <1>2, <2>2, <2>3, <3>1
  <2>5. Len(batch[w]) # 1 => batch'[w] # <<>>
    <3> HAVE Len(batch[w]) # 1
    <3>1. Len(Tail(batch[w])) # 0
      BY <1>1, <1>2
    <3> QED
      BY <1>2, <2>2, <3>1, EmptySeq
  <2>6. DispatcherInv(w)'
    BY <2>2, <2>4, <2>5 DEF DispatcherInv
  <2> QED
    BY <1>3, <2>1, <2>6
<1> QED
  BY <1>4, <1>5

\* What every step keeps.
OutboxKeeps ==
    /\ QueueTypeOK' /\ delivered' \subseteq done'
    /\ published \subseteq published' /\ done \subseteq done' /\ PromiseStep

\* A row of the table gets another place, or a new row its first; what is
\* delivered stays so.
LEMMA RowMoves ==
    ASSUME QueueInv, NEW e \in Events \ delivered, TableInv', PassesInv', BoundsInv',
           delivered' = delivered, done' = done, published' \in {published, published \cup {e}}
    PROVE  OutboxKeeps
<1>1. delivered \subseteq done /\ TableInv /\ PassesInv /\ BoundsInv
  BY QueueTypes DEF QueueInv
<1>2. QueueTypeOK'
  BY QueueTypes, PTL
<1>3. PromiseStep
  <2>1. CASE e \in published \/ published' = published
    BY <2>1 DEF PromiseStep
  <2>2. CASE e \notin published /\ published' = published \cup {e}
    <3>1. Promise!Publish({e})
      BY <2>2 DEF Promise!Publish
    <3> QED
      BY <3>1 DEF PromiseStep, Promise!Next
  <2> QED
    BY <2>1, <2>2
<1> QED
  BY <1>1, <1>2, <1>3 DEF OutboxKeeps

LEMMA PublishKeeps ==
    ASSUME QueueInv, NEW e \in Events, Publish(e)
    PROVE  OutboxKeeps /\ \A w \in Workers : DispatcherInv(w)'
<1>1. TableInv /\ PassesInv /\ BoundsInv /\ due \in Queues /\ e \notin ToSet(due) /\ e \notin delivered
  BY QueueTypes DEF QueueInv, TableInv, Publish, published
<1>2. due' \in Queues /\ ToSet(due') = ToSet(due) \cup {e}
  BY <1>1, Appended DEF Publish
<1>3. TableInv'
  BY <1>1, <1>2 DEF TableInv, Publish, published
<1>4. PassesInv' /\ BoundsInv' /\ delivered' = delivered /\ done' = done
  BY <1>1 DEF PassesInv, BoundsInv, Publish, memory, trouble
<1>5. published' = published \cup {e}
  BY <1>2 DEF published, Publish
<1>6. OutboxKeeps
  BY <1>1, <1>3, <1>4, <1>5, RowMoves
<1> QED
  BY <1>6, DispatcherKept DEF OutboxKeeps, Publish, memory

LEMMA ElapseKeeps ==
    ASSUME QueueInv, NEW e \in Events, Elapse(e)
    PROVE  OutboxKeeps /\ \A w \in Workers : DispatcherInv(w)'
<1>1. TableInv /\ PassesInv /\ BoundsInv /\ due \in Queues /\ e \notin ToSet(due) /\ e \notin delivered
  BY QueueTypes DEF QueueInv, TableInv, Elapse
<1>2. due' \in Queues /\ ToSet(due') = ToSet(due) \cup {e}
  BY <1>1, Appended DEF Elapse
<1>3. TableInv'
  BY <1>1, <1>2 DEF TableInv, Elapse
<1>4. PassesInv' /\ BoundsInv' /\ delivered' = delivered /\ done' = done
  BY <1>1 DEF PassesInv, BoundsInv, Elapse, memory, trouble
<1>5. published' = published
  BY <1>2 DEF published, Elapse
<1>6. OutboxKeeps
  BY <1>1, <1>3, <1>4, <1>5, RowMoves
<1> QED
  BY <1>6, DispatcherKept DEF OutboxKeeps, Elapse, memory

LEMMA RetryKeeps ==
    ASSUME QueueInv, NEW e \in Events, Retry(e)
    PROVE  OutboxKeeps /\ \A w \in Workers : DispatcherInv(w)'
<1>1. TableInv /\ PassesInv /\ BoundsInv /\ due \in Queues /\ e \in published \ delivered
  BY QueueTypes DEF QueueInv, TableInv, Retry
<1>2. Without(due, e) \in Queues /\ ToSet(Without(due, e)) = ToSet(due) \ {e}
  BY <1>1, TakenOut
<1>3. due' \in Queues /\ ToSet(due') = ToSet(due) \cup {e}
  BY <1>2, Appended DEF Retry
<1>4. TableInv'
  BY <1>1, <1>3, OutboxAssumption DEF TableInv, Retry
<1>5. PassesInv' /\ BoundsInv' /\ delivered' = delivered /\ done' = done
  BY <1>1, OutboxAssumption DEF PassesInv, BoundsInv, Retry, memory
<1>6. published' = published
  BY <1>1, <1>3 DEF published, Retry
<1>7. OutboxKeeps
  BY <1>1, <1>4, <1>5, <1>6, RowMoves
<1> QED
  BY <1>7, DispatcherKept DEF OutboxKeeps, Retry, memory

\* A step that writes nothing to the table.
LEMMA TableStays ==
    ASSUME QueueInv, UNCHANGED table, done \subseteq done', done' \subseteq done \cup published,
           PassesInv', BoundsInv'
    PROVE  OutboxKeeps /\ published' = published
<1>1. delivered \subseteq done /\ TableInv
  BY QueueTypes DEF QueueInv
<1>2. TableInv' /\ published' = published /\ delivered' = delivered
  BY <1>1 DEF TableInv, published, table
<1>3. QueueTypeOK'
  BY <1>2, QueueTypes, PTL
<1>4. PromiseStep
  <2> DEFINE new == done' \ done
  <2>1. new \in SUBSET Events /\ new \subseteq published /\ done' = done \cup new
    BY <1>1, PublishedIsTyped
  <2>2. new \subseteq {[x \in Events |-> x][e] : e \in published}
    BY <1>1, <2>1, PublishedIsTyped
  <2>3. Promise!Perform(new)
    BY <1>2, <2>1, <2>2 DEF Promise!Perform
  <2> QED
    BY <2>1, <2>3 DEF PromiseStep, Promise!Next
<1> QED
  BY <1>1, <1>2, <1>3, <1>4 DEF OutboxKeeps

LEMMA ClaimKeeps ==
    ASSUME QueueInv, NEW w \in Workers, Claim(w)
    PROVE  OutboxKeeps /\ \A v \in Workers : DispatcherInv(v)'
<1> DEFINE free == {n \in DOMAIN due : due[n] \notin Locked}
           size == IF Cardinality(free) < BatchSize THEN Cardinality(free) ELSE BatchSize
<1>1. /\ TableInv /\ PassesInv /\ BoundsInv
      /\ due \in Seq(Events) /\ DOMAIN due = 1..Len(due) /\ Len(due) \in Nat
      /\ attempts \in [Events -> 0..MaxAttempts]
  BY QueueTypes DEF QueueInv, TableInv, Queues
<1>2. size \in Nat /\ size > 0
  <2>1. IsFiniteSet(free)
    <3>1. free \in SUBSET (1..Len(due)) /\ IsFiniteSet(1..Len(due))
      BY <1>1, FS_Interval
    <3> QED
      BY <3>1, FS_Subset
  <2> QED
    BY <2>1, FS_CardinalityType, OutboxAssumption DEF Claim
<1>3. PICK row \in [1..size -> free] :
        batch' = [batch EXCEPT ![w] =
                    [n \in 1..size |-> [id |-> due[row[n]], attempts |-> attempts[due[row[n]]]]]]
  BY DEF Claim
<1> DEFINE copies == [n \in 1..size |-> [id |-> due[row[n]], attempts |-> attempts[due[row[n]]]]]
<1>4. \A n \in 1..size : due[row[n]] \in Events /\ due[row[n]] \in ToSet(due)
  <2>1. \A n \in 1..size : row[n] \in DOMAIN due
    BY DEF free
  <2>2. \A m \in DOMAIN due : due[m] \in Events /\ due[m] \in ToSet(due)
    BY <1>1 DEF ToSet
  <2> QED
    BY <2>1, <2>2
<1> HIDE DEF free, size
<1>5. \A n \in 1..size : copies[n] \in Copies /\ copies[n].id \in published
  BY <1>1, <1>4 DEF Copies, published
<1> HIDE DEF copies
<1>6. copies \in Seq(Copies) /\ Len(copies) = size
  <2>1. DOMAIN copies = 1..size /\ copies = [n \in 1..size |-> copies[n]]
    BY DEF copies
  <2> QED
    BY <1>2, <1>5, <2>1, IsASeq
<1>7. /\ UNCHANGED <<table, done, trouble>> /\ doing' = [doing EXCEPT ![w] = "claiming"]
      /\ batch' = [batch EXCEPT ![w] = copies]
  BY <1>3 DEF Claim, copies
<1>8. PassesInv' /\ BoundsInv'
  BY <1>1, <1>6, <1>7 DEF PassesInv, BoundsInv, Labels, trouble
<1>9. OutboxKeeps /\ published' = published
  BY <1>7, <1>8, TableStays
<1>10. doing'[w] = "claiming" /\ batch'[w] = copies
  BY <1>1, <1>7 DEF PassesInv
<1>11. copies # <<>>
  BY <1>2, <1>6, EmptySeq
<1>12. DispatcherInv(w)'
  BY <1>5, <1>6, <1>9, <1>10, <1>11 DEF DispatcherInv
<1>13. ASSUME NEW v \in Workers, v # w PROVE DispatcherInv(v)'
  <2>1. doing'[v] = doing[v] /\ batch'[v] = batch[v]
    BY <1>1, <1>7, <1>13 DEF PassesInv
  <2> QED
    BY <1>9, <2>1, DispatcherKept DEF OutboxKeeps
<1> QED
  BY <1>9, <1>12, <1>13

\* A step after which a dispatcher does something else with what it holds.
LEMMA LabelMoves ==
    ASSUME QueueInv, NEW w \in Workers, doing[w] # "polling", NEW label \in Labels,
           doing' = [doing EXCEPT ![w] = label], UNCHANGED <<table, batch>>, BoundsInv',
           done \subseteq done', done' \subseteq done \cup published,
           label = "handled" => Event(w).id \in done'
    PROVE  OutboxKeeps /\ \A v \in Workers : DispatcherInv(v)'
<1>1. PassesInv
  BY QueueTypes DEF QueueInv
<1>2. PassesInv' /\ doing'[w] = label /\ batch'[w] = batch[w]
  BY <1>1 DEF PassesInv
<1>3. OutboxKeeps /\ published' = published
  BY <1>2, TableStays
<1>4. DispatcherInv(w)'
  BY <1>2, <1>3 DEF QueueInv, DispatcherInv, Event
<1>5. ASSUME NEW v \in Workers, v # w PROVE DispatcherInv(v)'
  <2>1. doing'[v] = doing[v] /\ batch'[v] = batch[v]
    BY <1>1, <1>5 DEF PassesInv
  <2> QED
    BY <1>3, <2>1, DispatcherKept DEF OutboxKeeps
<1> QED
  BY <1>3, <1>4, <1>5

LEMMA HandlerKeeps ==
    ASSUME QueueInv, NEW w \in Workers, CommitClaim(w) \/ HandlerSucceeds(w) \/ HandlerFails(w)
    PROVE  OutboxKeeps /\ \A v \in Workers : DispatcherInv(v)'
<1>1. BoundsInv
  BY QueueTypes DEF QueueInv
<1>2. CASE CommitClaim(w)
  <2>1. BoundsInv' /\ done' = done
    BY <1>1, <1>2 DEF CommitClaim, BoundsInv, trouble
  <2> QED
    BY <1>2, <2>1, LabelMoves DEF CommitClaim, Labels
<1>3. CASE HandlerSucceeds(w)
  <2>1. done' = done \cup {Event(w).id} /\ Event(w).id \in published \cap Events
    BY <1>3, HeldCopy DEF HandlerSucceeds, Handled
  <2>2. BoundsInv'
    BY <1>1, <1>3, <2>1 DEF HandlerSucceeds, BoundsInv, trouble
  <2> QED
    BY <1>3, <2>1, <2>2, LabelMoves DEF HandlerSucceeds, Labels
<1>4. CASE HandlerFails(w)
  <2>1. BoundsInv' /\ done' = done
    BY <1>1, <1>4, OutboxAssumption DEF HandlerFails, BoundsInv
  <2> QED
    BY <1>4, <2>1, LabelMoves DEF HandlerFails, Labels
<1> QED
  BY <1>2, <1>3, <1>4

\* A pass that writes nothing to the table on its way to the next event, or to its end.
LEMMA PassKeeps ==
    ASSUME QueueInv, NEW w \in Workers, doing[w] # "polling", EndPass(w) \/ Proceed(w),
           UNCHANGED <<table, done>>, BoundsInv'
    PROVE  OutboxKeeps /\ \A v \in Workers : DispatcherInv(v)'
<1>1. published' = published
  BY DEF published, table
<1>2. PassesInv' /\ \A v \in Workers : DispatcherInv(v)'
  BY <1>1, PassMoves
<1> QED
  BY <1>2, TableStays

\* One more attempt is counted.
LEMMA AttemptCounted ==
    ASSUME attempts \in [Events -> 0..MaxAttempts], NEW e \in Events,
           attempts' = [attempts EXCEPT ![e] = Bumped(attempts[e])]
    PROVE  attempts' \in [Events -> 0..MaxAttempts]
BY OutboxAssumption DEF Bumped

LEMMA MarkDeliveredKeeps ==
    ASSUME QueueInv, NEW w \in Workers, MarkDelivered(w)
    PROVE  OutboxKeeps /\ \A v \in Workers : DispatcherInv(v)'
<1> DEFINE e == Event(w).id
<1>1. /\ TableInv /\ PassesInv /\ BoundsInv /\ delivered \subseteq done
      /\ doing[w] # "polling" /\ e \in published \cap Events /\ e \in done
  BY QueueTypes, HeldCopy DEF QueueInv, MarkDelivered, DispatcherInv
<1>2. BoundsInv' /\ done' = done
  BY <1>1 DEF MarkDelivered, BoundsInv, trouble
<1>3. CASE e \in delivered
  BY <1>1, <1>2, <1>3, PassKeeps DEF MarkDelivered
<1>4. CASE e \notin delivered
  <2>1. due' \in Queues /\ ToSet(due') = ToSet(due) \ {e}
    BY <1>1, <1>4, TakenOut DEF MarkDelivered, TableInv
  <2>2. attempts' \in [Events -> 0..MaxAttempts]
    BY <1>1, <1>4, AttemptCounted DEF MarkDelivered, TableInv
  <2>3. /\ delivered' = delivered \cup {e} /\ backoff' = backoff \ {e} /\ parked' = parked \ {e}
        /\ Proceed(w)
    BY <1>4 DEF MarkDelivered
  <2> HIDE DEF e
  <2>4. TableInv'
    BY <1>1, <2>1, <2>2, <2>3 DEF TableInv
  <2>5. published' = published
    BY <1>1, <2>1, <2>3 DEF published
  <2>6. PassesInv' /\ \A v \in Workers : DispatcherInv(v)'
    BY <1>1, <1>2, <2>3, <2>5, PassMoves
  <2>7. QueueTypeOK'
    BY <1>2, <2>4, <2>6, QueueTypes, PTL
  <2>8. Promise!Close(e)
    BY <1>1, <1>2, <1>4, <2>3, <2>5 DEF Promise!Close
  <2>9. PromiseStep
    BY <1>1, <2>8 DEF PromiseStep, Promise!Next
  <2> QED
    BY <1>1, <1>2, <2>3, <2>5, <2>6, <2>7, <2>9 DEF OutboxKeeps
<1> QED
  BY <1>3, <1>4

LEMMA RescheduleKeeps ==
    ASSUME QueueInv, NEW w \in Workers, Reschedule(w)
    PROVE  OutboxKeeps /\ \A v \in Workers : DispatcherInv(v)'
<1> DEFINE e == Event(w).id
<1>1. /\ TableInv /\ PassesInv /\ BoundsInv
      /\ doing[w] # "polling" /\ e \in published \cap Events
  BY QueueTypes, HeldCopy DEF QueueInv, Reschedule
<1>2. BoundsInv' /\ done' = done /\ Proceed(w)
  BY <1>1 DEF Reschedule, BoundsInv, trouble
<1>3. CASE e \in delivered
  BY <1>1, <1>2, <1>3, PassKeeps DEF Reschedule
<1>4. CASE e \notin delivered
  <2>1. due' \in Queues /\ ToSet(due') = ToSet(due) \ {e}
    BY <1>1, <1>4, TakenOut DEF Reschedule, TableInv, AfterFailure
  <2>2. attempts' \in [Events -> 0..MaxAttempts]
    BY <1>1, <1>4, AttemptCounted DEF Reschedule, TableInv
  <2>3. /\ delivered' = delivered
        /\ \/ parked' = parked \cup {e} /\ backoff' = backoff \ {e}
           \/ backoff' = backoff \cup {e} /\ parked' = parked \ {e}
    BY <1>4 DEF Reschedule
  <2> HIDE DEF e
  <2>4. TableInv'
    BY <1>1, <1>4, <2>1, <2>2, <2>3 DEF TableInv
  <2>5. published' = published
    BY <1>1, <2>1, <2>3 DEF published
  <2>6. PassesInv' /\ \A v \in Workers : DispatcherInv(v)'
    BY <1>1, <1>2, <2>5, PassMoves
  <2> QED
    BY <1>1, <1>2, <1>4, <2>3, <2>4, <2>5, <2>6, RowMoves
<1> QED
  BY <1>3, <1>4

LEMMA FaultKeeps ==
    ASSUME QueueInv, NEW w \in Workers, MarkFails(w) \/ RescheduleFails(w) \/ Stop(w)
    PROVE  OutboxKeeps /\ \A v \in Workers : DispatcherInv(v)'
<1>1. BoundsInv
  BY QueueTypes DEF QueueInv
<1>2. BoundsInv' /\ doing[w] # "polling" /\ (EndPass(w) \/ Proceed(w)) /\ UNCHANGED <<table, done>>
  BY <1>1, OutboxAssumption DEF MarkFails, RescheduleFails, Stop, BoundsInv
<1> QED
  BY <1>2, PassKeeps

LEMMA QueueNextInv == QueueInv /\ [QueueNext]_queueVars => QueueInv' /\ PromiseStep
<1> SUFFICES ASSUME QueueInv, [QueueNext]_queueVars PROVE QueueInv' /\ PromiseStep
  OBVIOUS
<1>1. OutboxKeeps /\ \A w \in Workers : DispatcherInv(w)'
  <2>1. ASSUME NEW e \in Events, Publish(e) \/ Elapse(e) \/ Retry(e)
        PROVE  OutboxKeeps /\ \A w \in Workers : DispatcherInv(w)'
    BY <2>1, PublishKeeps, ElapseKeeps, RetryKeeps
  <2>2. ASSUME NEW v \in Workers, Step(v) \/ MarkFails(v) \/ RescheduleFails(v) \/ Stop(v)
        PROVE  OutboxKeeps /\ \A w \in Workers : DispatcherInv(w)'
    BY <2>2, ClaimKeeps, HandlerKeeps, MarkDeliveredKeeps, RescheduleKeeps, FaultKeeps DEF Step
  <2>3. CASE UNCHANGED queueVars
    <3>1. UNCHANGED <<table, done, doing, batch>> /\ PassesInv' /\ BoundsInv'
      BY <2>3, QueueTypes DEF QueueInv, PassesInv, BoundsInv, queueVars, memory, trouble
    <3>2. OutboxKeeps
      BY <3>1, TableStays
    <3> QED
      BY <3>1, <3>2, DispatcherKept DEF OutboxKeeps
  <2> QED
    BY <2>1, <2>2, <2>3 DEF QueueNext
<1> QED
  BY <1>1 DEF OutboxKeeps, QueueInv

\* Whatever is published, replayed, claimed, failed and stopped, a dispatcher that has asked the
\* handler holds an event it is done with, and a copy of every row is a row still.
THEOREM OutboxInvariant == QueueSpec => []QueueInv
<1>1. QueueInv /\ [QueueNext]_queueVars => QueueInv'
  BY QueueNextInv
<1> QED
  BY <1>1, QueueInitInv, PTL DEF QueueSpec

\* A row waits in one place at a time: due, backing off, parked or delivered (Reschedule, Retry,
\* MarkDelivered).
THEOREM OutboxIsTyped == QueueSpec => []QueueTypeOK
<1>1. QueueInv => QueueTypeOK
  BY DEF QueueInv
<1> QED
  BY <1>1, OutboxInvariant, PTL

\* FetchDue, RunOnce, MarkDelivered, Reschedule and Retry together keep the promise of Delivery:
\* every step is one of its steps or changes nothing it speaks of.  An event is closed only
\* after its handler said the work was done, and no lost race or failed write drops one.
THEOREM OutboxKeepsItsPromise == QueueSpec => ImplementsDelivery
<1>1. QueueInit => Promise!Init
  BY DEF QueueInit, Promise!Init, published, ToSet
<1>2. QueueInv /\ [QueueNext]_queueVars => QueueInv' /\ [Promise!Next]_Promise!vars
  BY QueueNextInv DEF PromiseStep, Promise!vars
<1> QED
  BY <1>1, <1>2, QueueInitInv, PTL DEF QueueSpec, ImplementsDelivery, Promise!Spec
===============================================================================

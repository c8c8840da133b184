# Formal models of the Agicash wallet core

TLA+ modules that model the money-moving core of this repository, the TLC
configurations that check them, and TLAPS proofs about them. File names below
are relative to `src/`.

## 1. The system

Agicash is a self-custodial wallet for Cashu ecash. A *proof* is a bearer coin
signed by a mint; the wallet keeps its proofs in Postgres, swaps them at a mint
for tokens it can hand out, and asks mints to pay and to issue Lightning
invoices. Several processes of one user (phone, browser tab, CLI) share the
database and may run at the same time; each may stop between any two steps.

| Part | Where | State it keeps | Operations |
| --- | --- | --- | --- |
| Database functions | `supabase/migrations/*.sql` | `cashu_proofs` (UNSPENT, RESERVED, SPENT), `cashu_send_swaps`, `cashu_receive_swaps`, `cashu_send_quotes`, `cashu_receive_quotes`, `transactions`, keyset counters | one atomic function per transition, with row locks |
| Send swap | `crates/agicash-cashu/src/send_swap` | none between calls | create, swap_for_proofs_to_send, complete, fail, reverse |
| Receive swap | `.../receive_swap` | none | create, complete_swap, fail |
| Melt quote (Lightning send) | `.../melt_quote` | none | get_quote, create_quote, initiate_melt, poll_until_complete, expire, fail |
| Mint quote (Lightning receive) | `.../mint_quote` | none | create_quote, poll_until_paid, complete_receive, expire, fail |
| Proof selection and fees | in `send_swap`, `receive_swap`, `melt_quote` | none | greedy selection, fee rounding, change blanks |
| Claim screen | `.../receive_flow`, paste page of the web shell | the step of one flow, the card of one page | detect the mint, confirm it, add it, swap |
| Facade | `crates/agicash-wallet/src/client.rs` | session, cache | send_token, receive_cashu_token, check_send_token_claimed, reverse_send_swap, begin/poll_send_lightning, resume_* |
| Cache | `crates/agicash-wallet/src/cache` | one map per table, balances | populate, apply, read |
| Session | `crates/agicash-wallet/src/{session,opensecret_auth}.rs` | session slot, tokens of the auth client, stored blob | sign in, restore, sign out |
| Resumption driver | `crates/agicash-driver` | `pending`, `paused`, `connected`, wake-up channel | sweep every unresolved row; start, notify_foreground, stop |
| Realtime supervisor | `crates/agicash-realtime` | `online`, `active`, `terminal`, socket | join, heartbeat, back-off, park |
| Mint | outside the repository | spent proofs, signatures, quotes | NUT-03 swap, NUT-04 mint, NUT-05 melt, NUT-07 check, NUT-09 restore |
| Web shell | `crates/agicash-web-leptos` | access token, stored session, view model of Home | route, restore, sign in and out, bring the wallet up |
| Other shells | `crates/agicash-{cli,ffi,wasm}`, `android`, `ios` | screens | call the facade |

How they interact: a shell or the driver calls the facade; the facade calls a
service; a service alternates *awaits* on the database (one function call, one
transaction) and on the mint (one request). Nothing is locked between two awaits.
Database triggers broadcast row changes to the realtime supervisor, which feeds
the cache (through a *pump* in the FFI) and triggers the driver, over a broadcast
channel of fixed capacity that drops its oldest message. Everything a crashed call leaves behind is a
row that is not terminal, and the sweep drives such rows on.

What makes it hard: two processes on one row; a mint answer that is lost, so
that the database does not know what the mint has done; deterministic secrets,
so that a restore finds a lost answer again but a reused counter loses an
output; a receiver outside the wallet who claims a token while its sender
reverses it; a payment that is refused, pending, made or under way when somebody
asks. `PROJECT.json` lists each such hazard at its line, with the properties
that watch it.

What makes each part correct:
- *proofs*: the balance holds only proofs the mint accepts; SPENT proofs are
  spent; a proof is reserved for one purpose; a proof the mint signed for us is
  not lost;
- *swaps*: terminal states are final and tell the truth; every row resolves;
- *payments*: a row tells the truth about the payment, its proofs stay reserved
  while the payment may be made, one invoice is paid once;
- *amounts*: what can be paid is not refused, the receiver nets what was sent,
  the change of a payment comes back;
- *driver*: a trigger is never lost, a pause ends; *realtime*: no socket while
  offline or in the background, give up after nine rejected joins;
- *cache*: never older than what it was told; *session*: the next launch finds the
  session the user left, and requests run as its user;
- *claim screen*: what it says was received is credited; a guest becomes one user;
- *web shell*: Home shows the signed-in user's accounts, live, or an error; a
  sign-out leaves nothing behind.

## 2. Modules

| Module | Models | Kind |
| --- | --- | --- |
| `ProofLedger` | what the database promises about proofs, whatever the protocol | abstract specification |
| `TokenSwaps` | sends, receives and reversals of tokens: services, facade, database functions, the mint and a foreign receiver | detailed specification, refines `ProofLedger` |
| `TokenSwapsLiveness` | `TokenSwaps` under fairness, with one process that does not crash and the service's `fail` of a DRAFT | liveness |
| `TokenSwaps_proofs` | two inductive invariants of `TokenSwaps`, theorems, and the refinement of `ProofLedger` | TLAPS |
| `MCTokenSwaps` | symmetry for TLC | model checking |
| `LightningSend` | Lightning payments: quotes, post_melt as a message, polls, expiry, the paying mint | detailed specification |
| `LightningSend_proofs` | inductive invariant and theorems about `LightningSend` | TLAPS |
| `MCLightningSend` | symmetry for TLC | model checking |
| `MintQuote` | Lightning receives: invoice, payment, counter, post_mint as a message, restore, expiry, the issuing mint | detailed specification |
| `MintQuote_proofs` | inductive invariant and theorems about `MintQuote` | TLAPS |
| `MCMintQuote` | constants for TLC | model checking |
| `ProofSelection` | the arithmetic of a send, of the claim of its token and of a Lightning payment | pure functions against their definitions |
| `ProofSelection_proofs` | sums, powers of two, inductive invariant and theorems about `ProofSelection` | TLAPS |
| `EventChannel` | the lossy broadcast channel between supervisor and driver | component |
| `RealtimeSupervisor` | gate, park, connect, join, serve, back off, latch; the host's calls | component, with `EventChannel` |
| `ResumptionDriver` | triggers, dirty bit, pause, sweep, park, fallback tick | component, with `EventChannel` |
| `ClientRuntime` | both, with the host, the network and the database that broadcasts | composition |
| `ClientRuntime_proofs` | inductive invariant and theorems about `ClientRuntime` | TLAPS |
| `MCClientRuntime` | constants for TLC | model checking |
| `AuthSession` | session slot, tokens and blob under sign-in, restore, sign-out, kill | component |
| `WalletCache` | populate, apply and memoised balances, the pump, the joined channel | component, with `AuthSession` |
| `SignedInReads` | reads of the accounts while users come and go | composition |
| `SignedInReads_proofs` | inductive invariant and theorems about `SignedInReads` | TLAPS |
| `MCSignedInReads` | symmetry for TLC | model checking |
| `ClaimScreen` | the paste page, its receive flow, the upsert that adds a mint, the rows of the claims | detailed specification |
| `ClaimScreen_proofs` | inductive invariant and theorems about `ClaimScreen` | TLAPS |
| `MCClaimScreen` | constants for TLC | model checking |
| `WebWallet` | one page of the Leptos shell: routes, session, bring-up, pumps, sign-out | detailed specification |
| `SendScreen` | its send page: cards, calls, claim polls, over `WebWallet` | composition |
| `SendScreen_proofs` | inductive invariant and theorems about `SendScreen`, and with it about `WebWallet` | TLAPS |

### TokenSwaps

State and code:
- `db`, `spender` are `cashu_proofs` (state, spending id); `counter` is the keyset
  counter; `sState`, `rState` and the variables beside them are the rows of the two
  swap tables;
- `signed` and `spent` are what the mint has signed and spent;
- `pc`, `key`, `sel`, `reversing` are the local state of a call between two
  awaits. A worker is a process of the user: a facade call, or the sweep;
- `storage` is the implementation of `CashuSendSwapStorage` the program was built
  with, fixed at the start. `ReadInputs` and `ReadToken` are what a row has when it
  is read back: everything with the storages of the tests, only the outputs of its
  own swap with the shipped one (section 3). `MintSendRefused` is a request the mint
  turns down for want of inputs.

Each action is the code between two awaits, with the awaited database function
or mint request in it: `Reserve` is `create_cashu_send_swap`, `MintSend` is the
swap request of `perform_mint_swap`, `CommitProofsToSend` the function of that
name, `RestoreSend` the NUT-09 path of `attempt_restore`, `CheckClaimed` and
`CompleteSend` the two halves of `check_send_token_claimed`, `CreateReversal`
the insert of `reverse`, and so on (the map in `PROJECT.json` names the lines of
every definition). `Crash` empties a worker at any point; as it may follow the
mint's part of a request, it is also the lost reply and the time-out.

Abstractions: one account, mint and keyset; a proof is the counter slot it is
derived from, so that amounts, fees and proof selection are nondeterministic
choices within bounds; a token has one hash; the transaction rows follow the swap
rows; the mint signs a request atomically, and a restore returns all that it signed
of the range asked. A foreign receiver claims any part of a token, at any time.

### LightningSend

- `qState`, `qInv`, `qIn` are the rows of `cashu_send_quotes` with payment hash
  and reserved proofs; `db` and `spender` are `cashu_proofs`, and the change of a
  payment is one proof named by its quote;
- `mState` is the mint's state of the quote, `reqs` the `post_melt` requests on
  their way (a request outlives a caller that times out or crashes), `mBy` the
  caller whose request was accepted;
- `storage` is the implementation of `CashuMeltQuoteStorage`; `QuoteProofs` is what of
  its proofs a quote still has when a call of it returns (none with the shipped
  one). A request carries the inputs it was built with, and the mint refuses one
  without inputs;
- `raced` is a history variable: rows that were failed while *another* call was
  paying them.

`GetQuote`, `FindActive`, `InsertQuote`, `MarkPending`, `PostMelt`,
`Respond` and `TimeOut` are the awaits of `begin_send_lightning`;
`GetQuote` keeps what was listed, and which of it is selected is chosen at the
insert, where it first matters. `StartPoll`/`PollRead` are `poll_send_lightning` with its zero time-out;
`CompleteQuote`, `FailQuote` and `Expire` are the database functions. `Verdict`
is the dispatch on the mint's state, shared by both. That a mint's refusal is a
definitive failure and a time-out is not is taken from the comment in
`initiate_melt`; the library that decides it is not in the repository. The model
lets the mint refuse any request (quote pending or paid, proofs pending or
spent, quote expired).

### MintQuote

- `qState`, `qPlan` are the rows of `cashu_receive_quotes` with the keyset and
  counter value stored at payment; `counter` is `accounts.details.keyset_counters`;
  `proofs` are the outputs recorded in `cashu_proofs`; `late` are the rows whose
  `expires_at` the clock of the database has passed;
- `reqs` are the `post_mint` requests on their way; `mState`, `signed`, `lost` and
  `retired` are the mint's state of each quote, the outputs it has signed, the
  quotes it can no longer restore, and its inactive keysets;
- `pc`, `key`, `plan` are the call a worker is in, its row, and the keyset and
  counter it derives outputs from.

`AskStatus` and `ProcessPayment` are the two awaits of `poll_until_paid` with the
zero time-out of the facade; `PostMint`, the answers of the mint, `Restore`,
`RecordProofs` and `FailRow` are those of `complete_receive`; `StartExpire` and
`ExpireRow` are `expire_mint_quote`. A call reads its row at the start and acts on
that snapshot; the database functions check the row again, and it is these checks
(`Processable`, `Completable`, `Expirable`) that decide late calls.

Abstractions: one account; a quote always splits into `Width` outputs; `OtherSwap`
stands for every other flow of the account that takes counter values; a mint may
refuse, deactivate a keyset, or lose what it signed, at any time.

A keyset that the mint deactivates between payment and issue leaves the row PAID,
because keyset and counter are fixed when the payment is recorded;
`PaidRowsComplete` names this case and that of a lost issue.

### ProofSelection

A behaviour is one send or one payment from one purse (`purse`, the list of
unspent proofs) of proofs of two keysets with fees `ppk`. `PrepareSend` is
`prepare_proofs_and_fee` with its two calls of `select_send_proofs`, `CreateSend`
the choice of `create` between handing the proofs out and swapping them, `Claim`
the receiver's `create`, `QuoteMelt` the `get_quote` of a payment. `Rotate` is the
keyset that becomes active between the two keyset requests of one call. What the
mint demands of a swap and how it returns change are external. `Enough` and
`Select` state the loop of `select_send_proofs` as the shortest prefix that
covers the target and its own fee.

### ClientRuntime: RealtimeSupervisor, ResumptionDriver, EventChannel

- `on`, `terminal`, `stopped` are the flags of the service, `joinRejects` and
  `result` locals of `run_inner`, `at` the await it is in, `pulse` whether the
  receiver it holds has a pulse (a pulse sent while it holds none is lost);
- `pending`, `paused`, `halted` and `poked` are the driver's `Shared`, `task` and
  `connected` the locals of `run_task`;
- `inbox` and `lagged` are the driver's receiver of the broadcast channel;
- `wire`, `unswept` and `session` are outside: a change on its way over the socket,
  a changed row no sweep has read, a session in the wallet.

`Gate`, `CheckPark`, `WakePark`, `Connected`, `JoinAccepted`, `JoinRejected`,
`SocketDrops`, `ServePulse`, `Leave` and `BackoffEnds` are the pieces of `run_inner`
between two awaits; `Drain`, `ReadRows`, `EndSweep`, `WakeByPoke`, `WakeByEvent` and
`Tick` those of `run_task`. `SetRealtime` is `set_realtime_online` and `_active` of
the FFI, which pass the value to the service and notify the driver. Delays are
not modelled: a back-off ends at some time and a heartbeat may fail at any
time. A status and the signal sent with it count as one message.
Within a sweep only the read of the rows is a step (the rows are the subject of
`TokenSwaps`, `LightningSend` and `MintQuote`); the select of the park is biased
in the order of the code.

History variables name the exceptions: `missed` (the host turned off during a
connection attempt, when no receiver exists), `raced` (a notification during
the sweep that paused), `excused` (a sweep that failed or a lag the parked
stream skipped).

### SignedInReads: AuthSession, WalletCache

- `slot`, `tokens` and `disk` are the session the facade reads, the tokens of the auth
  client and the stored blob; `call` is the auth call under way (the Android view
  model makes one at a time);
- `row`, `populated` and `memo` are the cache: version of each cached account, the
  flag of the table, version at which the cached balance was summed;
- `pump`, `topic` and `changes` are the loop that applies changes, the channel that
  is joined, and the changes that were sent and not applied;
- `reader` is a call of `WalletClient::accounts` between two awaits.

`StartRead`, `Enter`, `List`, `Insert`, `PickAccount`, `SumProofs` and `PutBalance` are the
pieces of `accounts` with `accounts_or_populate`, `ApplyChange` is `apply_change`,
`Overflow` the end of the pump when it falls behind. Sign-in as a guest, by e-mail
and by sign-up differ in the request only. Every user has one account and
its version stands for its row and its proofs; storage shows a user only what is
theirs, so a list or a sum under another user's tokens finds nothing of the
account. Changes may be applied in any order, more than the
socket can do. The storage of the blob may fail at any time, an auth call may
fail or time out at each of its steps, and the app may be killed at any step.

### WebWallet

- `disk`, `token`, `rehydrating` are the session in localStorage, the access token the
  guard asks for, and the restore under way; `page` is the route, `effectDue` a Home
  that has mounted and whose effect has not run;
- `wired`, `client`, `service` are the latch and the two signals of `WalletData` (the
  driver goes with the service); `live` are the services that have not been
  stopped, also those no signal holds any more;
- `task` are the bring-ups and retries, each with the user whose session it began
  with; `shown` is the accounts signal, with the user whose accounts they are;
- `changed` are clients whose cache has changes the dispatch pump has not shown.

The page runs on one thread, so an action is what runs between two awaits:
`StartBringUp` is `start` up to the request of `build_wallet_client`, `Build` and
`BuildFails` its end, `Populate` the answer of `populate_all` with the wiring after it,
`Retry` is `refresh_with_config`, `SignOut` and `SignOutEnds` the two halves of the
sign-out around the request to the server. `ClosePage` forgets all but `disk`.

Abstractions: localStorage answers at once and does not fail, the configuration
is present, `BuildFails` stands for every error of a bring-up. The lists of pending
rows behave as the accounts do, but for what section 3 says of them. The listeners
for visibility and network are those of `ClientRuntime`. Of the browser's history,
`Navigate` has the way back to the login page, which is open to a signed-in user too,
and from there to Home; it is not used while a sign-in is under way (a bound). Any
other way to a page is the bottom bar or `OpenPage`.

History variables name the exceptions: `outlived` (a bring-up, a restore or a change
was under way when its session ended, or a session was signed in over another) and
`spent` (a bring-up ended early, with its latch set).

### SendScreen

Extends `WebWallet` with the send page, whose calls take their session from the storage.
- `card` is `Phase`, `calls` the quotes and sends under way, each with the user whose
  session it took, `payer` whose proofs the token on the card is made of;
- `poll` is the poll loop of that token: waiting for its timer, or asking with the
  session of the payer or with another (`asOther`); `earlier` says that loops of tokens
  whose card was left are still asking.

`Continue` and `Confirm` are `on_continue` and `on_confirm` up to the first await
(`Begin` is `seed_wasm_wallet`, which reads the session), `CallFails`, `Quoted` and
`Created` their answers; `Tick`, `NotYet` and `SeenClaimed` are the loop of the polling
effect, `EarlierNotYet` and `EarlierClaimed` that of a card that was left. `Mounts`
ties the view to the route: every step of `WebWallet` that changes the route makes
the signals anew or drops them.

Abstractions: what a send and a claim do to the rows is in `TokenSwaps`; here a
receiver may have claimed a token at any poll, or never. A call that is answered when its
view is gone has no effect on the screen and is left out. The wallet of a call keeps
its session in memory, so it never writes the storage. `ClaimPoll::Failed` is left
out: only a DRAFT can be failed, and a token on a card is not one.

### ClaimScreen

- `card`, `token`, `amount` are the signals of a page (`Phase`, the token in it, whether
  the success card has an amount); `at` is the await its receive flow is at, so
  that it also holds the state of `ReceiveFlowMachine`;
- `mints` and `spark` are the user's accounts; `row` is the receive swap of each token,
  `spender` who has spent it at its mint.

`Receive` is the tap that starts a flow; `FindAccount` and `MintInfo` are the awaits of
`handle_start`, `AskUser` and `AddMint` those of `add_mint_account`, `Create` to `Fail` those of
`run_swap` and `complete_swap`. `CallFails` and the second half of `Answered` are the
requests that fail before and after they had their effect; an error that `dispatch`
returns with `?`, and one it turns into `Failed`, end alike, because the page
drops the flow. `Leave` does not stop what a page has started: its writes to signals
that are gone have no effect. `Sweep` is the resumption of a row, `SweepStops` one that
ends between the mint and the database, another wallet may spend a token
at any time before it is swapped.

Abstractions: the claim is that of `TokenSwaps` with the counters, proofs and the own
sends left out, and the sweep does it in one step; one user, who stays signed
in; one currency, so that an account is its
mint; the look-up of the hint on the preview card, which changes that card only, is left
out. The mint signs a request as a whole, so that a restore finds all of a claim or
nothing (`Restores`); a token another wallet has spent is one it has spent any part of.

## 3. What is checked

| Run | Bounds | Shows |
| --- | --- | --- |
| `swaps_safety` | 2 workers, 2 sends, 1 foreign token, tokens of up to 2 proofs, 4 counter slots, either storage | eight properties of tokens and the refinement of `ProofLedger` |
| `swaps_liveness` | 2 workers, one of which crashes at will, 2 sends, tokens of up to 2 proofs, 4 slots, either storage | every DRAFT and every PENDING receive resolves, every claim is noticed; with the shipped storage, where it can be |
| `rows_rebuilt` | 2 workers, 1 send, 3 slots, the shipped storage | a disagreement of code and documentation (below) |
| `lightning_safety` | 2 callers, 1 poller, 2 invoices, 2 quotes, 2 proofs and the change, either storage | no two payments hold one proof, truth of payment rows, one active row per invoice |
| `unfunded_melts` | 1 caller, 1 quote, the shipped storage | a disagreement of code and documentation (below) |
| `lightning_liveness` | 2 callers, 2 pollers, 1 quote | every quote resolves, every payment made is noticed |
| `receive_lifecycle` | 1 quote of 2 outputs, a shell that may crash and a sweep, 2 keysets, counters up to 3 | truth, recoverability and finality of receive rows; payments are noticed and become ecash |
| `selection` | purses of up to 3 proofs of 1, 2, 4 or 8, 2 keysets with fees 0, 400, 1000 or 2500 ppk, amounts up to 12, reserves up to 3 | refusals are justified and the receiver nets what was sent, but for the named cases; change fits its blanks |
| `runtime` | 1 switch of the host, 2 messages in the channel, 2 rejected joins to the latch | no change is forgotten, every change is swept, the latch holds, pauses and sockets end |
| `reads` | 2 users, 2 concurrent reads, 3 versions of an account (4 in all) | the stored session is the session, tokens are its user's, rows and balances are stale only for named reasons |
| `claim_screen` | 2 pages, 2 tokens of 2 mints, a guest or a user with any of the mints | what a page announces is credited, two pages of a guest make one user |
| `web_shell` | 2 users, 2 bring-ups or retries between two loads of the page, 2 sign-outs at once, 2 requests under way when a call of the send page begins | what is stored, shown, sent and live is the signed-in user's but for named races; a token leaves the screen only for named reasons; Home settles |

Why the bounds are enough: every race in the money-moving components is between
two calls, or a call and the sweep, over one row, or over one proof two rows
want. Two workers and two rows produce all of them, and the third party
(receiver or mint) acts on its own. A token of two proofs is what it takes to be
claimed in part. Two quotes of one invoice are what it takes to pay it twice, two invoices what it takes to contend for a proof; a second
crash only returns a worker to a point from which the first run starts.
Receives of one account meet only in the counter; there `OtherSwap` plays the
other quotes, and the theorems of section 4 hold for any number of quotes.

In `selection`, three proofs give every case of the two passes (exact, over, short
and short only by the fee), fees of 400 make the rounding of one, two and three
proofs differ, and blanks are needed for every change from 0 to 8 and more. The code
takes any fee the mint states: at 1000 ppk a proof of 1 only pays for itself, at 2500
those of 1 and 2 cost more than they are worth and those of 4 and 8 do not, so that
a purse of two keysets has them in every order. In `runtime`, the switches `online` and `active` are interchangeable, so one
suffices; a channel of 2 overflows, and a latch at 2 has a first and a last
rejection, as 256 and 9 have. In `reads`, two versions are what it takes to be
stale and a third to be overtaken twice. In `web_shell`, two bring-ups are what it
takes for an old one to overtake a new one, and two sign-outs for a button pressed
again after a remount; a load of the page starts over with both. Two requests
are a call that is overtaken by a second, or by the bring-up or sign-out that changes its
session. In `claim_screen`, two
pages race for one token or for one user, two mints tell the upsert of the same
mint from that of another.

Checking is without deadlock detection (but in `web_shell` and `claim_screen`, where a
page can always be opened or left), because the system may stop: all rows terminal and no invoices left, a stopped service, nobody signed in and no call.

Fairness. A call goes on (weak fairness on its steps): the executor polls a
ready future. The sweep comes back to every unresolved row (strong fairness on
starting it): each trigger of the driver lists all unresolved rows. That triggers keep
coming is a hypothesis about the network and the user: the driver is edge-triggered, and
while it believes that it is Subscribed its tick is suppressed, so a row whose sweep has
failed waits for the next trigger (`runtime` shows that none is lost). Crashes are
unbounded. In `TokenSwapsLiveness` one process gets its calls through, and the sweep runs
in it; the others may stop anywhere. In `LightningSend`
any process may crash, but not at the same step of the same row every time
(strong fairness). The mint answers what it received and settles what it
accepted; expiry times pass. In `MintQuote` the sweep is `Steady`: its calls go on,
it comes back to each UNPAID and each PAID row, and a `post_mint` of it is answered
unless it times out every time; shells may stop anywhere. In `ClientRuntime` the
supervisor and the driver go on (weak fairness), and the fallback tick fires
although other wake-ups come between (strong fairness), because the native tick
is one interval whose deadline does not move; the WebAssembly build makes a new
sleep at each park, and there a driver that is woken more often than the tick
would starve it, so `ChangesAreSwept` is claimed for native shells only. With the
Supabase storage fairness does not help a call that has lost its inputs: `SwapsResolve`
then speaks of DRAFTs whose own call gets through, `ClaimsAreNoticed` of tokens a swap
has made, and every quote of `QuotesResolve` ends FAILED or EXPIRED. In
`WebWallet` requests are answered and effects run (weak fairness); `SendScreen` adds
no fairness, as nothing it waits for must come. Nothing is assumed about the network, the receiver, the host or the user.

### Disagreements of code and documentation

Each is a run that TLC must find violated.
1. `rows_rebuilt`: `get` and `list_unresolved_for_user` of the Supabase send-swap storage
   embed `cashu_proofs!cashu_send_swap_id(*)`, the proofs that the swap has *added*. Its
   inputs are bound to it by `spending_cashu_send_swap_id` and do not come back, although
   the comment above says that `proofs_to_send / input_proofs` are rebuilt from the
   embed (`cashu_send_swap_storage.rs:405`). A DRAFT that is resumed after a crash has no
   inputs to post, so its proofs stay reserved unless the mint had answered before. An
   exact send, which adds no proofs, comes back without its token: its claim is never
   noticed and it cannot be reversed.
2. `unfunded_melts`: `to_cashu_melt_quote` sets `proofs: Vec::new()` for every row, also
   for the one `create` has just returned, and `initiate_melt` takes the inputs of the
   melt from that field, documented as the proofs reserved for the melt
   (`melt_quote/types.rs:49`). With the Supabase storage every melt is
   posted without inputs, and no Lightning payment succeeds. The tests of the
   services use storages in memory, which keep the proofs.

Both storages are in the models of the passing runs, so that the protocols are
checked as they are written (in memory) and as they ship (Supabase).

### Observations

Facts that modelling brought up and no run states as a violation.
- Tokens: when a receiver wins the race against a reversal,
  `fail_cashu_receive_swap` sets the send to COMPLETED and leaves its proofs RESERVED
  (`SpenderInv` allows the rows). If the receiver has claimed all of the token, only rows
  stay. If a part of it was claimed (`all_proofs_spent` expects such tokens and does not count
  them as claimed), the mint refuses the reversal as a whole, the restore finds nothing,
  and the send is COMPLETED with proofs that are unspent at the mint, out of the balance and
  RESERVED for ever. `OutcomeIsTrue` names this case and shows that it is the only one.
  `reverse_send_swap` reports Reversed ("funds reclaimed", `types.rs:146`) all the same;
  `OutcomeIsTrue` shows that this is the only way it does so wrongly.
- Accounts: no sign-out empties the cache, and a filled table is never filled again, so
  the accounts of one user are listed to the next who signs in on the same device, while
  the FFI's `list_accounts` promises the rows of the currently-logged-in user. The
  Android shell keeps one wallet object across sign-outs and empties only its screen. A
  read that straddles the sign-out has the same effect.
- Mints: `add_mint_account` is documented to add the account and return it, but
  `upsert_user_with_accounts` returns the accounts there are as soon as there is one.
  Only a guest's first mint is ever added; everybody else who confirms a mint gets
  "upsert returned no account matching the new mint URL", on the claim screen and in
  `WalletClient::add_mint`.
- Amounts: `amount_received` of a send is documented as what the receiver ends up
  with, but the fee added to a token is that of one proof. At 100 ppk a token of
  2047 has eleven proofs, costs 2 to claim and nets 2046;
  `ReceiverShortOnlyBySplit` names the case. Nothing limits the fee a mint states. Above
  1000 ppk a proof may cost more than it is worth, and the selection takes the largest
  first, whatever it costs: a proof of 4 at 7000 ppk and one of 2 without a fee are
  refused for a send of 2. A send that its proofs cover is refused when the
  receiver's fee, more than 1 then, does not fit besides, and a token that a swap has split
  may cost more to claim than it is worth. `RefusedOnlyIfShort` and
  `ReceiverShortOnlyBySplit` name these cases.
- Payments: a poll that reads UNPAID between `mark_as_pending` and the arrival of
  `post_melt` fails the row and releases its proofs, and the mint then pays; a second
  `begin_send_lightning` that finds the UNPAID row and posts a second melt leads to
  the same race. The comment in `initiate_melt` asks that proofs are released only when
  "the mint provably did not move funds" (`service.rs:335`). `FailedOnlyByRace` shows
  that there is no other way, and `OnePaymentPerInvoice` that an invoice is paid twice
  only then.
- Receives: the sweep expires an UNPAID row by the clock, without asking the mint, and
  a row that is EXPIRED accepts no payment, so one that nobody has polled before
  `expires_at` is given up (`mint_quote/types.rs:85`: "Invoice expired without
  payment"). `PaymentsBecomeEcash` names the case.
- Receives: after an empty restore `complete_receive` calls `fail`, which accepts
  UNPAID rows only: the row stays PAID and is retried for ever.
- Claim screen: `render_flow_state` does not read the status of a receipt. A claim that
  failed because another wallet had spent the token (`AlreadyFailed`) shows "Token
  received" and "Proofs added to your wallet" with the amount; iOS and Android read the
  status. It is the exception `SuccessIsCredit` names. `AlreadyClaimed` is shown also
  while the earlier row is PENDING, or after it has FAILED. Errors that leave
  `handle_start` and `run_swap` with `?` leave the machine in Parsing or Swapping, where it
  accepts no event; the pages drop it.
- Driver: a sweep that fails is not retried while the socket is up; a lag met by
  the parked stream is not reported; a socket left on a pulse of the host sends
  no status, so the driver still believes it is connected (the `Connected` of
  the next join triggers it).
- Supervisor: the count of rejected joins is not reset by a join that succeeds;
  the latch may be set just after the edge that would have cleared it.
- Shell: `start_wallet_events` and `stop_wallet_events` take and set three slots one
  by one; a subscription that is being started while the user signs out is
  not stopped.
- Cache: `populate` trusts the stream to be authoritative, but the stream
  replays nothing, and the pump ends at its first overflow; only another launch
  refreshes the rows. The count of unacknowledged transactions starts at 0.
- Session: a restore that fails for any reason, also a dead network, forgets the
  blob, while one that is cut off by its 30 s time-out keeps it; the token that is
  stored again is the given one, not the rotated one; a sign-out waits for the
  server before it clears the blob, and a kill in between signs the user in
  again at the next launch.
- Web shell, sign-out: nothing cancels a bring-up, which stores its session
  again when its client is built. A user who signs out meanwhile is signed in again
  at the next load of the page, and if somebody else has signed in, the bring-up
  replaces their session, shows the old user's accounts and wires a runtime. When
  the later of two bring-ups has set the signals, the service of the earlier cannot
  be stopped.
- Web shell, pumps: they hold service and client themselves, so they do not end at a
  sign-out, as the comments of `teardown_realtime` expect, and a change that is being
  dispatched puts accounts on the screen again.
- Web shell, latch: a bring-up that finds no session or fails leaves it set. A first
  visit to `/` that is redirected to the login shows an empty wallet after the
  sign-in, until the page is loaded again, and so does the browser's way back to `/` after a
  sign-out; after a failure, Retry shows the
  accounts and never wires live updates. Signing in over a session (the browser's
  way back to `/login`) keeps the old user's wallet on screen.
- Web shell, sends: a poll that is asking when its card is left does not look at the card
  again. When the user cancels and sends another token, a claim of the first covers
  the card of the second with "Sent", and no other place of the shell shows that token;
  the comment above the effect expects the next tick to be a no-op. When such a claim
  covers a spinner, another call can be begun beside the first. After a bring-up that
  outlived its session has stored it again, a send of the user who is signed in is
  made of the other user's proofs. A send whose answer is lost leaves a token that nobody
  sees, PENDING until it is reversed.
- Web shell, guard: it looks at the token in memory, so a dead session that
  `build_wallet_client` clears does not redirect to the login, as its comment expects;
  and after an error of a bring-up the pending lists stay Loading.

## 4. What is proved

Every safety invariant and every action property that a passing run checks is also a
theorem: TLC shows it on the instances of
section 3, TLAPS for every value of the constants. The proofs assume no more of them
than the named `ASSUME`s of the modules: that the sets of names do not meet, that
`None` names nothing else, that bounds are numbers, that a token has a mint; for
`ProofSelection`, that denominations are powers of two, that a purse is worth 2^30 at
most, and that fees are numbers. TLC has
also found each inductive invariant to hold on the instance of its component's run.

Each proof module is laid out alike: the inductive invariant `IInv` in named parts;
lemmas for what is kept when a step does not touch a group of variables; one lemma
per action or group of actions, with a step for each part the action can disturb; the
lemmas that `Init` implies it and `Next` keeps it; then `Invariance`, and the named theorems, which follow from
the invariant. `PROJECT.json` lists the theorems with the property each one states.

### Tokens

`TokenSwaps_proofs` proves for every number of sends, tokens, workers and slots
(the constants' assumptions are in `TokenSwaps`) that `Spec` implies `TypeOK`,
`NoPhantomBalance`, `OutputsAreOwn`, `TokenSetAside` and `TerminalStatesAreFinal`.

None of the first four is inductive alone: that the balance is spendable depends
on what a call will write next, which depends on what the mint has done for the
outputs of its row. The inductive invariant `IInv` adds
- `OutputsInv`: output ranges of different rows are disjoint and below the
  counter; nothing is signed outside them;
- `ProofsInv`: every proof row was signed for the wallet and, when unspent in the
  database, is unspent at the mint or reserved;
- `SpenderInv`: a reserved proof belongs to one row that is not terminal, or to a
  COMPLETED one after a failed reversal;
- `SendInv`, `RecvInv`: for each row, which of its inputs and outputs the mint has
  spent and signed in each state;
- `WorkerInv`: what a call between two awaits may rely on, although other calls
  run. A call about to post a swap has the inputs of its row or, with rows that come
  back without them, none: then the mint refuses it.

`Invariance` proves `Spec => []IInv` with one step per action; the named theorems
follow from it, `TerminalIsFinal` from the type invariant and the guards. The
lemma `RestoreSendFinds` shows that the branch of `swap_for_proofs_to_send` that
fails a swap because the mint restored nothing (`FailSend`) is never taken in
`Spec`; it is in `TokenSwapsLiveness`, where a DRAFT may be failed while another
call still resumes it.

The second half of the module rests on that invariant and adds another, `Outcome`, from
which `NoLostOutput`, `ReservationHasOwner`, `ReversalCanBeRecorded` and `OutcomeIsTrue`
follow:
- `OutputsKept`: a signed output that is not stored belongs to a row still DRAFT or
  PENDING, so that a sweep restores it; no row becomes terminal with such outputs;
- `SendOutcome`: of the token of a COMPLETED send all is spent, or a part, and then a reversal
  was refused for it (`TokenUsed`); a reversal the mint has executed keeps its send PENDING until it is recorded, because a poll that
  sees the proofs spent leaves the row to a reversal that has not failed, and a reversal
  fails only when the mint has signed none of its outputs;
- `RecvOutcome`: a receive fails only when its token is spent and none of its outputs
  is signed;
- `WorkerOutcome`: what a call has seen between two awaits (the restore, the failed
  request, the reload of a reversal) is still so when it acts on it.

`SwapsImplementLedger` is the refinement `Spec => ImplementsLedger`: the mapping
(`StatusOf`) reads the status of a proof off its row and off what the mint has signed
and spent, and every action is matched with a step of `ProofLedger` or with a stutter.
Crashes, reads and the rows of swaps are stutters; a reservation, a swap at the mint and the
recording of its outputs are one step each for all their proofs, because the database
function is one transaction and the mint takes a request as a whole.

### Lightning

`LightningSend_proofs` proves `ProofsFollowTheRow`, `ExpiredNeverPaid`,
`FailedOnlyByRace` and `OnePaymentPerInvoice`. The hard part is that a `post_melt`
outlives the call that sent it. Inductive are
- `RowInv`: whatever the mint is paying belongs to a row whose payment was begun
  (`MayBePaid`: PENDING, PAID, or FAILED by a race); an open row has all its proofs;
- `ReqInv`: the same of every request on its way, and a call has at most one request
  for a quote on its way;
- `WorkerInv`: a call about to fail a row has no request of its own under way, so that
  a payment after the failure is another call's, which is the race named.
With either storage: requests without inputs are refused and satisfy the invariant.

`MintQuote_proofs` proves, for every number of quotes, workers, keysets and outputs
per quote, that `Spec` implies `TypeOK`, `RowAndMintAgree`, `OutputsAreReserved` and
`PaymentsStayRecorded`. What makes them inductive is
- `CounterInv`: everything signed or planned lies below the counter, and no two
  rows plan the same output (so a new plan, taken at the counter, is fresh);
- `RowInv`: a row has a plan exactly when it is PAID or COMPLETED; while the mint
  has not issued, no output of the plan is signed, afterwards all are;
- `ReqInv`, `WorkerInv`: a request under way and a call between two awaits ask for
  what the row names, and a call that records has seen the mint issue.

`StepInv` has one lemma per group of actions; `PaymentsStay` follows from the
types, `WorkerInv` and the guards of the database functions. That a quote's mint
state cannot be ISSUED while its row is UNPAID, used throughout, rests on requests
being sent only from PAID rows.

### The runtime

`ClientRuntime_proofs` proves `NoTriggerLost`, `PausedOnlyByRace`, `StormBound` and
`OpenOnlyByRace`, for any capacity of the channel and any bound of the latch.
`NoTriggerLost` is inductive with the types alone; the others need
- `StormInv`: the rejections since the host's last call are at most those the
  supervisor has counted, plus one it has been told of and not counted; its count is
  reset only by a cycle that a call of the host ended, or by the latch;
- `GateInv`: a socket being opened for a host that is off is one whose pulse was missed;
- `PauseInv`: what pauses the driver outside the race leaves it with nothing pending
  and not sweeping.

### Session and cache

`SignedInReads_proofs` proves `RestartKeepsSession`, `TokensAreTheSessions` and
`CacheStaleOnlyByRace`, for any users, readers and versions.
- `AuthInv`: what each auth call has left in slot, tokens and blob between its steps;
- `NotAhead`: no cached version, and no change on its way, is newer than the row;
- `PopulatedOnce`: one reader at a time lists, and only before the flag is set;
- `ReadersKnow`: a version a reader holds is the latest, or its change is still to
  come, was never heard of, or is already in the cache, where the late write finds it;
- `BalanceBehindRow`: a balance older than its row was stored late.

### Web shell and claim screen

`SendScreen_proofs` proves `SignOutIsClean`, `ScreenIsOwn`, `HomeIsServed` and the action
property `TokenStaysShown`, over `ScreenSpec`, which contains every step of `WebWallet`.
- `TasksInv`: tasks, services and clients refer to tasks that ran for a user;
- `LatchInv`: until something outlives its session, the latch lets one bring-up at a
  time make a service, the only live one, and the teardown finds it;
- `CleanInv`: what a sign-out leaves while its request is under way;
- `OwnerInv`: one user owns all that is stored, held, running, shown or being sent.
`ScreenIsOwn` alone is not inductive, because what comes on the screen next depends on
whose the tasks, pumps and calls are.

`ClaimScreen_proofs` proves `OneSparkAccount` and `SuccessIsCredit`, for any pages. Its
`PageInv` says what a flow knows at each await: at `restore` the token is spent, at
`fail` another wallet has spent it, and a row it has created or found does not
disappear. That rows are never forgotten, credits never taken back and spenders
never change (`ServerKept`) is shown for each step and keeps the other pages right.

### Proof selection

`ProofSelection_proofs` proves `RefusedOnlyIfShort`, `ReceiverShortOnlyBySplit` and
`ChangeFitsBlanks`, for purses of any length, any fees and any amounts. The
facts it needs are about recursive sums and about binary splits. The library's induction
theorems take an operator and cannot be used here; instead a set or a number for which
a fact fails is taken minimal (`WFMin`, with the library's well-founded orders) and shown
not to be minimal.
- `SumsExist`, `SumsAgree`, `SumRemove`: `SumFunctionOnSet` chooses an element; the sum is
  the same whichever is taken away first;
- `MoreCovers`, `FewerCovers`: what is covered stays covered when proofs are added that cost
  no more than they are worth, or those are left out that do. Where no dear proof comes
  before another (`~DearFirst`), a prefix of the purse therefore does what any choice does
  (`UsefulPrefix`), and the greedy loop finds nothing only when nothing would do
  (`EnoughIsComplete`). The second pass of `prepare_proofs_and_fee` refuses what the first has
  accepted only when the fee of one proof is above 1;
- `PartsFew`: an amount above 1 splits into fewer proofs than it is worth, so up to 1000 ppk a token
  is worth no claim only if it is of 1;
- `BlanksHold`: the blanks for n are enough for every part of n. `n` itself may be a power
  of two, and then it is the one amount with that bit.

`IInv` says what each phase knows: that the selection pays for what was prepared
(`PreparedPays`, `SwapPays`, `QuotePays`), and where the fee of a token comes from
(`TokenFee`). The powers of two are a table of 31 entries (`Power`): the solvers do not
reason about an exponent that is a variable. In the code amounts are of 64 bits;
TLC's numbers are not.

### Only model-checked

- Liveness everywhere (`SwapsResolve`, `ClaimsAreNoticed`, `QuotesResolve`,
  `PaymentsAreNoticed`, `PaymentsBecomeEcash`, `ChangesAreSwept`, `HomeSettles`,
  `AnnouncedIsCredited`): fairness and ENABLED are out of the prover's reach.
- `TokenSwapsLiveness`: its specification, which may fail a DRAFT, is not the `Spec` of the
  theorems.

No run lists a `TypeOK`: that of every module with behaviours is proved (`TypeCorrect`).

## 5. Plan

Done: the money flows (`TokenSwaps`, `LightningSend`, `MintQuote`), proof
selection, the runtime that resumes them, the session and the account cache, the
web shell with its send page, the claim screen; the proofs of their safety properties
and of the refinement of `ProofLedger`.
Left, in this order:
1. The safety part of what the liveness runs rest on: that a row which is not terminal
   always has a call or a sweep that can take it on, as an invariant with a proof.
2. An abstract specification of a payment (one invoice, paid at most once, reported as
   it ended) and `LightningSend` shown to implement it.
3. The tables of the cache other than accounts, which share the code of
   `populate` and `apply_change`; the send and claim screens of iOS and Android.

## 6. Not modelled

- The other screens of the shells (Android, iOS, and Leptos but for Home, the send and
  the paste page), the CLI, the FFI and
  WebAssembly wrappers, and the bindings: they call the modelled operations and
  keep view state. What of them decides an order (`set_realtime_online`, the view
  model that makes one auth call at a time) is in the runtime and session modules.
- Of the claim screen, Retry and Dismiss (no shell sends them) and the screens of iOS
  and Android, which drive the same flow with cards of their own.
- The count of unacknowledged transactions and the ticks for the subscribers of the
  cache: they decide what a screen shows and are refreshed from storage.
- Frame parsing and the codecs of the socket, token extraction, DLEQ, money and
  crypto types, exchange rates and Lightning addresses, generated rows and the
  storage client: values and plumbing without shared state. Of the rows' conversion only
  the two facts of section 3 are modelled, what is lost in it.
- Spark and contacts, which no Rust code writes, and the lead lock, which no Rust
  code takes.

`PROJECT.json` gives the reason for each component.

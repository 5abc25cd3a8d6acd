# A verification development of the tgl client library

TLA+ models of the client library in `src/src` and of the serializer generator
in `generator/`, model-checked with TLC on small instances and, where a proof is
worth having, proved with TLAPS for every value of the constants. Paths below
are relative to the repository (`src/`).

## 1. The system

The library is a Telegram client: an application calls a `user_agent`, which
turns calls into queries, sends them through `mtproto_client`s (one per data
centre) over connections, and reports results and updates through callbacks.
Everything runs on one event loop: a handler runs to its end before another
starts, and all concurrency is the interleaving of handlers - answers, errors,
timers, connection events, calls of the application - plus whatever the peers
and the server do. Handlers that call other components synchronously (a query
refused while it is being issued) do so inside one step.

| component | state | operations | interacts with |
|---|---|---|---|
| secret chat sequencing (`secret_chat.cpp`, `query_messages_send_encrypted_base.cpp`) | sequence numbers, storages and queues of unconfirmed messages, hole timers | send, delete, receive, park, request resend, skip | the peer through the server; the persistent storage of the application |
| secret chat keys and life cycle (`secret_chat.cpp`, `user_agent.cpp`) | state of the chat, keys, exchange state | create, accept, discard; request, accept, commit, abort a new key | the peer; the sequencing (its messages are numbered) |
| secret chat layers (`query_messages_send_encrypted_*.cpp`, `message.cpp`, `document.cpp`) | the layer of the chat, the stored blobs | assemble, fetch, send again | the serializers |
| downloads (`transfer_manager.cpp`, `download_task.cpp`) | tasks, registered ids, parts, the file | start, cancel, part handlers | one query per part; the file system |
| uploads (`transfer_manager.cpp`, `upload_task.cpp`) | tasks, registered message ids, parts | start, cancel, part handlers, the final message | one query per part and one for the message |
| connection (`net/tgl_net_base.cpp`) | state, ping and restart timers, buffers | open, close, restart, data, online status | the socket (a subclass of the application), the client |
| MTProto client (`mtproto_client.cpp`, `session.h`) | permanent and temporary key, handshake, session, workers, acknowledgements | make, bind, lose a key; choose a worker; read a message | connections, queries |
| queries (`query.cpp`) | active, pending and retried queries, timers | execute, answer, error, timeout, retry, migrate, log out | the client, the connection |
| updates (`updater.cpp`, `query_get_difference.cpp`, `query_get_state.h`) | pts, qts, seq, the difference lock | work on updates, ask for the difference | the server; the callbacks of the application |
| login (`user_agent.cpp`, `query_sign_in.cpp`, ...) | login state, locks of the password and the number | sign in, sign up, check the password, log out | queries, the prompts of the application |
| remaining queries (`src/query/*`, the calls of `user_agent.cpp`) | what a call has told so far; the page a list is at | one call each: answer, error, time-out | updates (the pts of an answer), the callbacks |
| wire format, arithmetic (`mtproto_common.*`, `mtproto_utils.cpp`) | none | lengths of strings and paddings; checks of the key exchange, factorization | every message |
| generated serializers (`generator/generate.c`) | none | skip, fetch, free, store; text both ways | every answer |

Hard in this code:

* the peers of a secret chat lose, reorder, repeat and re-request messages while
  either client restarts with nothing but its storage, and change their key
  while messages under the old one are on their way;
* transfers keep several queries on their way past the end of their task;
* a connection is failed, lost, silently dead, offline and closed in any order,
  in the middle of a handshake as well;
* a query lies in a pending list, among the active ones, behind a retry timer or
  in none of them, and timeouts, migrations and logouts move it between these;
* the difference lock must be given back on every path, also when a logout or an
  error comes in between;
* every call, with a class of queries of its own, must tell the application
  once, from one of three handlers;
* messages are assembled by hand, word by word, for each layer, and read by code
  generated from a schema.

`PROJECT.json` lists the single hazards, each with its line and its properties.

## 2. Modules

| module | models | kind |
|---|---|---|
| `SecretChatSeq` | the sequencing of one secret chat, both ends and the server between them | detailed specification |
| `SecretChatOrder` | what a chat promises: numbered, consumed in order, exactly once | abstract specification |
| `SecretChatSeqProofs` | theorems about `SecretChatSeq` | proofs |
| `SecretChats` | the life of a secret chat and its keys, both ends and the server | specification |
| `SecretChatsProofs` | theorems about `SecretChats`: its life | proofs |
| `SecretChatKeysProofs` | theorems about `SecretChats`: its keys | proofs |
| `SecretLayers` | the messages of a secret chat in each layer | specification over `Serializer` |
| `Download`, `Upload` | `transfer_manager` | specifications |
| `TransferProofs`, `UploadProofs` | theorems about `Download`, `Upload` and both together | proofs |
| `Connection` | `tgl_connection_base` | specification |
| `Authorization` | the making, binding and loss of keys of a client | specification |
| `Session` | a session: its workers, acknowledgements, bad messages | specification |
| `ClientProofs` | theorems about `Connection`, `Authorization`, `Session` and the three together, and about `Wire` | proofs |
| `Queries` | the life of a query beside the clients it is sent through | detailed specification |
| `QueryPromise` | what a query promises: told at most once | abstract specification |
| `QueriesProofs` | theorems about `Queries`, and that it implements `QueryPromise` | proofs |
| `Updater` | the counters of updates, the difference and its lock | specification |
| `Calls` | every call of `user_agent` and what its query tells | specification |
| `Login` | the flows of login, the locks, logout | specification |
| `Pages` | the lists that are fetched in pages | specification |
| `ApplicationProofs` | theorems about `Updater`, `Login` and `Pages`, in the run that joins them | proofs |
| `Wire` | lengths on the wire | operators |
| `Numbers` | Diffie-Hellman checks, factorization | specification |
| `Serializer`, `SerializerText` | what `generate.c` generates, as interpreters of a schema | operators |
| `Answers` | `query::handle_result()` over them | specification |
| `MCSecretChatSeq`, `MCQueries` | values for constants | model checking |
| `MCTransfers`, `MCClient`, `MCApplication`, `MCFormats`, `MCSecretChatFormats` | several modules in one run | model checking |

The last five modules put modules side by side: a behaviour chooses one of them
(`half`) and the others stand still, so that one run covers what belongs to one
component of the system (`MCSecretChatFormats`: the order of the messages of a
secret chat, and everything about formats and numbers). Where components do
interact in the code, the interaction is inside a module: `Queries` has the
clients, sessions and the transfer of the authorization, `Calls` the message box
of the account, `Login` the state of the client, `SecretChats` both ends.

Definitions that start with the comment "Mutant" are no part of the models: each
changes one definition the way a plausible mistake in the code would, and is
listed in `PROJECT.json` with the property that finds it.

### 2.1 SecretChatSeq

State and code: `outSeq`, `inSeq` are `m_out_seq_no`, `m_in_seq_no`; `stOut`,
`stIn` the two halves of the application's storage of unconfirmed messages;
`unOut`, `unIn` the maps in memory with the flags `loadedOut`, `loadedIn` that
say whether they were read from the storage; `fill`, `skip` the two timers;
`net[p]` the copies on their way to `p`. A restart keeps `persisted` and forgets
`volatile`. Ghosts record what the application was given (`got`), what it was
told to delete (`gone`), and which numbers are texts.

An action is a handler: `SendText`, `SendDelete` and `SendAgain` are
`send_message()` down to `will_send()`, including the storing and numbering;
`Receive` is `message_received()` with its three outcomes (drop, park, process);
`Process` is all of `process_messages()`; `FillHole` and `SkipHole` are the timer
callbacks. A message is a record of its number, the acknowledgement it carries,
a kind, and the id or the range it names; contents, padding, layers and
encryption are left out. Duplicates arise as in the code, by resending; loss
is a failed query (`on_error()`); reordering is free.

Restrictions: layer 17 and above (numbered messages); the chat stays in state
`ok`; a restart falls between two handlers; the chain of `invoke_after_msg`,
which orders the server's handling of queries, is not used (the model allows
every order, and more than the code does).

### 2.2 SecretChatOrder

Two operations, `Number` and `Consume`. The refinement maps `sent` to `outSeq`
and `consumed` to `inSeq`; `texts` and `got` are the ghosts. Holes, parked
messages, resends, timers and restarts are invisible to it.

### 2.3 Download and Upload

`task[t]` is the task object; it outlives its registration in
`downloads`/`uploads`, because every query on its way holds it. `inflight[t]` are
the parts whose queries have not ended. `Download` also has the directory and the
contents of the files in it: a stream is open on the content it was opened on,
whatever the path names later. `End` is `download_end()` / `upload_end()`; it is
part of the handler that calls it. The client may refuse a query inside the call
that issues it (`query::execute()` reports the error synchronously), so `Start`
chooses which of its first queries are refused and goes on with the loop as the
code does. Each query sets the status of its task by the state of its connection
(`StatusChanges`). A part is a number; sizes within a part are left out. `Kept` is
what becomes of an answer whose part must wait: it is copied when nothing could be
decrypted, and otherwise only what was written is erased
(transfer_manager.cpp:750-754), so that a part left over beside one that was
written would still point into the answer. In an encrypted download a part is
right when it was decrypted after exactly the parts before it, as its chained
cipher demands.

### 2.4 Connection

One action per entry point of `tgl_connection_base`; the subclass's side of the
socket is `wire`. `quiet` abstracts the time since the last data to the three
cases that `ping()` distinguishes. The length of the restart delay is left out:
the restart timer fires some time after it is armed. A closed connection is let
go by its owner (`session::clear()`, the timer of a secondary worker), so its
timers no longer fire (`alive`).

### 2.5 Updater

`client` is the part of `user_agent` that updates touch: the counters `n`, the
lock, and the queries that are under way (`asked`). A fetch is the query for the
difference or, without a pts, for the state. The server's events carry the last
number they take in their box and how many they take (`pts_count`; always one for
qts). A push is any event or container of one or two events of the server's log,
at any time: late, twice, out of order, or never; so no network is needed. An
answer is computed by the server (`Serve`) some time before it reaches the client,
for an event that is made in between is neither in the answer nor, its push being
dropped, given to the application; only a lookup is answered in one step, since
an older answer would ask for the same difference or none. `Worked` is
`work_update()` down to `set_pts()`/`set_qts()`; a container applies it to one
update after the other, and may lose the rest to a difference that starts in its
middle. `Logout` stands for `set_client_logged_out()` and the login that
follows: queries under way stay and are sent again. What the assertion of the
two answers rejects is the step `Abort`, after which nothing happens. Ghosts
record what was given (`got`), what was given twice (`again`), from where the
client follows (`base`: an event before the first state is not owed to it), and
whether a fetch has outlived a logout, after which the properties promise nothing.

Left out: what an update tells the application, the date, and the differences of
channels. Events with `pts_count` 0 are in the model, and in
`UpdatesZero.cfg` only.

### 2.6 SecretChats

`st[x]` is what side `x` holds of the chat: its state, the key and fingerprint,
the state of the exchange and the key being made, what waits to be sent while the
client is not ready, its inbox, and the queries that may still time out (`wait`).
A secret number is a number, g^a is `{a}`, a key is `{a, b}`: two sides agree when
their sets are equal. `Create`, `Accept`, `Discard` are the calls; `ReadUpdate` is
an update of the chat or the answer to one of the queries, `ReadMessage` a message
inside the chat with the actions of the exchange; `Flush` sends what waited.
`WillSend` is `assemble()` followed by `will_send_query()`, in this order: the
commit goes out under the old key and switches to the new one. A number that is
weak (the fault `weak`) aborts at once, for an accept and for each request that is
taken (`Examined`), one that crosses an own request included. `Served` is what the
server does with each query. `RequestKey` stands for `request_key_exchange()`,
which no code of the repository calls: an application with access to
`secret_chat`, or an older client at the other end, is what starts an exchange.

### 2.7 Authorization and Session

`Authorization` has the state machine of the handshake (`state`), the permanent
key (`auth`), the temporary one (`key`), `bound`, `configured`, the bind and the
config queries, and the wire between client and server in order; a packet of the
connection before may still arrive. Nonces are rounds. A config query is known by
the key it was sent under, 0 for none: its timer of a second sends it again with
whatever key there is, and beside a handshake that takes longer (the fault `slow`)
there is none. `Session` begins where
keys exist: `s.load` maps each worker to the messages it has to carry,
`s.acks` with `s.ev` are the acknowledgements and their timer, `q` the parts of
files that are sent. `Replaced` is the new session of `bad_msg_notification` and
of a message out of time.

### 2.8 Queries

`ua.q[q]` is a query (its client, its timers, whether it is active, retried or
kept by a list, how it ended, and how often that was told), `ua.dc[c]` a client
(session, connection, configured, logged in, being logged out, transfer of the
authorization, pending list, clean-up timer). `Tried` is the body of `execute()`,
`alarm()` and `execute_after_pending()`, which differ in one argument; each class
of error of `handle_error()` is a fault. `stop` is an assertion or a null pointer
that ends the client. `passed` names the queries that a login or a failed
transfer of the authorization has left in a pending list: nothing wakes them
but the next connection.

### 2.9 Calls, Login, Pages

`Calls` gives each class of query by what it tells on each of its answers, on an
error and on a time-out, and each call by the targets it accepts and the query it
makes; `Api` is the table of all calls. Two calls are made beside each other,
beside the pushes of others and a difference, because the answer of a sent or
deleted message carries a pts that is checked against the one of the account.
`Login` has two flows side by side and the state of the client that they share.
`Pages` has a list at the server that grows at its head and shrinks anywhere
while it is fetched.

### 2.10 Serializer, SerializerText, Answers, SecretLayers

`generate.c` writes one C function per type of a schema; `Serializer` is what
those functions do, written once with the schema as a constant, so that a
branch of the generator is a branch of an operator. `Answers` builds every
sequence of words up to a length, behind each of a few beginnings of answers, and
handles it: what `skip` accepts must be
fetched, freed completely, stored to the same words and printed and read again.
`SecretLayers` writes each content with the words that `assemble()` writes for
the layer of the chat, reads it with the interpreter over the schema of secret
chats, and compares what is made
of it with what was meant; stored blobs are sent again after the layer changed.
Strings are one or two bytes.

### 2.11 Wire, Numbers

`Wire` has no state: operators for `out_string()`, `fetch_string()`,
`out_bignum()`, the padding of RSA and of the encryptor of secret chats, with
theorems about them in `ClientProofs`. `Numbers` has `check_DH_params`, `check_g`, and
`bn_factorize()` with its multiplication by doubling, at a small width.

## 3. What the runs check

| run | what it shows | bounds |
|---|---|---|
| `seq_formats` | The order: both ends write, send again, restart once each; messages overtake each other. Nothing is removed from a storage early (`Retained`), every text is given exactly once (`Delivery`), memory and storage agree (`ParkedIsStored`), a text keeps its number (`OneNumberPerText`). The formats: the generated functions agree on every answer (`AnswersAgree`); every content is read as it was meant in every layer (`SecretsReadable`); what is accepted keeps the key in its group (`KeysInSubgroup`); factors are found (`FactorsFound`). | 2 texts and 1 resend request per end: the smallest in which a hole, a parked message, a resend request of either end and a second copy coexist. Answers: up to 4 words of 11, 0 among them, behind 13 beginnings, so that a page of two items, an item with both optional fields and a vector of two are answered; 4 layers; every p of 8 bits, with safe primes for each of the generators 2 to 7; products below 2^7 |
| `seq_skip` | The admin writes, deletes and loses a message, the member skips holes and restarts. The chat implements `SecretChatOrder` (`OrderSpec`), and nothing deleted comes back (`NoDeliveryAfterDelete`). | 3 texts or deletes, 2 numbers for the member's requests, 1 loss |
| `seq_hole_assertion` | Violation: a deletion processed after a restart makes the fill-hole timer run into `assert(it->first > in_seq_no)`. | 4 numbers, 1 restart |
| `seq_live` | Two ends that wait for each other's resends both get on; the member, in real time, gets past a hole whose resend request is lost (`ParkedIsProcessed`). | 2 texts and 1, each end may lose one message |
| `transfers` | No partial file stays and no pointer into a handled answer (`FilesSound`); a success has the whole file, a cancelled upload sends nothing more (`StepsSound`); the message waits for the whole document (`UploadsSound`); an end stays an end (`OneVerdict`); every transfer is reported (`AllReported`). | downloads: an encrypted document of 3 parts, one of 2, a photo of unknown size; uploads: 3 parts, 2 with a thumbnail, an empty file; 2 connections: more parts than connections, so that some wait |
| `client` | Connection: the inductive invariant `IInv`, and that it recovers once faults stop. Keys: a key that is taken for bound is bound at the other end, a configured client that is connected has a key, and nothing is sent without one but by a client told to forget its key (`KeysHold`); the client is configured in the end (`Settles`). Session: each worker is busy or about to close (`WorkersSound`), every part is transferred (`Transferred`), everything heard is acknowledged and idle workers close (`ComesToRest`). | 4 faults of the connection; 6 keys and 3 troubles, enough to lose a temporary key while it is bound and again while it is configured; 3 parts over a primary and 2 secondary connections, 1 mishap |
| `keyless_config` | Violation: the timer of the config query sends it while the temporary key is made anew, and `assert(m_state == state::authorized)` and `assert(m_temp_auth_key_id)` of `init_enc_msg()` fail (`EachMessageKeyed`). | the data centre forgets the key, and the handshake that follows takes more than a second |
| `queries` | A query is always in one of the places it can be found in, and in none once it has ended (`NoneForgotten`); when its client is ready it does not wait (`SentWhenReady`); it implements `QueryPromise` (`PromiseSpec`); it ends (`Finishes`). | a plain query, one of the login, a logout; 2 data centres; one fault of eleven kinds |
| `logout_assertion` | Violation: a logout query that is sent again meets itself in `assert(!is_logout())`. | as above |
| `secret_chats` | The two sides have the same key when nothing is under way (`KeysAgree`); only a reader with a newer key fails to read (`Unread`); a chat that was given up is deleted at the other side (`Gone`); every call is told (`AllTold`); an exchange ends (`ExchangeEnds`). | 1 text and 1 key request per side, which may cross; one fault of eight kinds |
| `application` | Updates: none skipped (`NoneLost`), none twice and one fetch at a time (`EachOnce`), the client catches up (`CaughtUp`). Calls: each is told once (`ToldOnce`), a pending message is settled (`Settled`). Login: what is told is true (`TruthTold`). Pages: a list is given as it was (`Listed`). Logins and lists end (`AllEnd`). | 3 numbers of pts, 1 of qts, 2 containers, 1 error or logout; every call beside two others; 2 flows, 2 logouts, 2 mistakes; lists up to 5 items, pages of 2, so that there are three |
| `layer8_document` | Violation: a document of a layer below 46 fails an assert of `document`. | every content |

Bounds are constants of the modules. They only keep an actor from starting
something new; nothing that was started is cut short. Deadlock checking is off
wherever the system may really stop: all messages processed, all transfers
ended, the connection closed, all queries ended, a call told.

The violations of runs are reported in `PROJECT.json` under `findings`, each with
the statement of the code it contradicts.

### Counterexamples to reproduce by hand

These configurations reach behaviours that no statement of the repository
contradicts, so they are no findings; each is violated in a few seconds.

| configuration | module | shows |
|---|---|---|
| `DownloadReuse.cfg` | `MCTransfers` | a late part of a failed download takes the registration of its successor under the same id (`OneVerdict`) |
| `UploadThumb.cfg` | `MCTransfers` | the message is sent while its thumbnail is on its way (`MessageHasThumb`) |
| `UpdatesZero.cfg` | `Updater` | an update with `pts_count` 0 moves pts over a message that it overtook (`NoneLost`) |
| `UpdatesLock.cfg` | `Updater` | an error leaves the difference lock behind, and updates are off (`CatchesUp`) |
| `KeylessReset.cfg` | `MCClient` | a client that was told to forget its key, and has no perfect forward secrecy, sends its config query without one (`EachMessageKeyed`) |
| `PhotoOfVideo.cfg` | `MCFormats` | a video sent as a photo from layer 46 on cannot be read (`SecretsReadable`) |

### What the properties except

Some behaviour of the code is an exception in a property, named in its
definition, because the property would be false without it:

* `Finishes`, `SentWhenReady`: a query that waits while a login on its own client
  completes, or while the transfer of the authorization fails (`passed`), waits
  for a later connection; and a client that stopped at an assertion.
* `ToldOnce`: the calls of `Unheard()` are never told - a check of a user name
  with another error than 400 or 600, a change of the phone number or of the
  password that is answered after the prompt is gone, the deletion and marking of
  messages in secret chats.
* `Settled`: an answer dropped while a difference is fetched or out of order
  leaves its message pending; a refused location or broadcast does too.
* `CaughtUp`: the lock that an error left behind; `EachOnce` and `NoneLost`: a
  fetch that outlived a logout.
* `Settles`: `reset_authorization()` keeps `m_authorized` and orphans the client
  (`Orphaned`), which may then make temporary keys without end; a config query that
  failed is asked again at the next connection only, as is a bind query that was
  dropped with error 500. It is checked without slow handshakes, for one of them
  may end the program (run `keyless_config`).
* `KeysHold`: a message goes out without a key beside a slow handshake and from an
  orphaned client (`KeylessOnly`), and in no other way; the key of a configured
  client and the binding of keys are promised without exception.
* `ExchangeEnds`: a side that has aborted counts as done with the exchange, though the
  two sides answer each other's abort by their own without end
  (secret_chat.cpp:617-620); and of a spoiled or closed chat nothing is said.
* `AllEnd`: logins beside which a logout was begun.
* `NoneForgotten`: the null pointer that another client's lost key leads to while one
  logs out ends the model (`stop = "null"`), after which nothing is promised.
* `LogsIn`: a password removed at the wrong moment leaves the flow without a
  callback; `logout()` called twice while the device is unregistered.
* `Listed`, `PagesEnd`: the dialogs of channels ask for every page with the same
  offset; a search whose list shrinks may ask for its last page for ever.
* `ComesToRest`: a timer that fires while the client is not configured (`early`)
  leaves acknowledgements that nothing sends.

### Fairness

* `SecretChatSeq`: the server delivers each message it holds, and an armed timer
  fires. Nothing is assumed about the applications.
* `SecretChats`: each side reads its inbox and sends what waits, and the server
  serves each side; no timer and no call is assumed.
* `Download`, `Upload`: the queries of the transfers end, in some order
  (`WF(QueryEnds)`, not each part on its own). `query::timeout_alarm()` sends a
  query again until it is answered, and errors are handed to it; a client that
  stays offline for ever is excluded. `Queries` shows that a query ends.
* `Queries`, `Authorization`, `Session`: of what happens by itself - connections
  come up, the server answers, timers fire - something happens as long as it can
  (one weak fairness over `Progress`). Faults are finitely many, and without
  them every sequence of such steps comes to an end, so that no stronger
  assumption about which of them goes first is needed.
* `Connection`: `connect()` ends, timers fire, time passes; each on its own, as
  each is an event of the loop.
* `Updater`: queries are answered, and the timer of `state_lookup_timeout()`, which
  starts itself again, goes on. No push is assumed to arrive.
* `Login`: a flow that waits for a prompt or the server gets it. `Pages`: the
  server answers.

## 4. What is proved

`SecretChatSeqProofs`, from `ConstantsAssumption` only (types of the bounds): for
every bound, loss, restart count, quality of service and deletions,

* `TypeCorrect`, `Inductive`: the type invariant, and the inductive invariant `IInv`;
* `NothingTrimmedEarly`: a message stays stored until the peer has processed it
  (`Retained`);
* `DeliveredOnce`: exactly-once (in real time at-most-once) delivery (`Delivery`);
* `OneNumber`: no text is stored under two numbers (`OneNumberPerText`);
* `DeletedStaysDeleted`: no delivery after the deletion was announced
  (`NoDeliveryAfterDelete`);
* `Refinement`: `SecretChatSeq` implements `SecretChatOrder` (`OrderSpec`).

`Retained` and `Delivery` are not inductive by themselves. The invariant adds
`Numbered` (every copy of a message - stored, parked or on its way - is genuine:
its number is one its sender gave, and the acknowledgement it carries is at most
what the sender has processed), `Loaded` (the maps in memory, once loaded, agree
with the storage, and nothing parked lies below `in_seq_no`), that only a real-time
end skips, and that what was announced as deleted has been consumed. With it an
acknowledgement, however old, trims only what the peer has consumed, and a run
that starts at `in_seq_no` covers every number up to its end. The step proof has
one lemma per action; `Process`, shared by arrival and skip timer, has its own.

`ParkedIsStored` (`NothingParkedIsLost`) has an invariant of its own on top of `IInv`:
with deletes, a number may be parked twice, and the copy in the storage equals the
one in memory only because every copy that is under way with that number is the
same message.

`TransferProofs`, `UploadProofs`: for any tasks, parts and connections,

* `WholeFile`, `FilesAreSound`: a success has the whole file, a failure leaves none,
  and no part points into an answer that was handled;
* `MessageIsWhole`, `UploadsAreSound`: the message waits for the whole document;
* `OneReport`, `VerdictIsOne`, `CancelIsFinal`, `StepsAreSound`: an end stays an end.

The hypothesis `Distinct` says that no two downloads share an id or a file: it is
needed, for a late part of a failed download does take the registration of its
successor (`DownloadReuse.cfg`). `UploadAssumption` gives types only. The invariants
tie the parts under way to the registration of their task: an unregistered task
that is not reported has parts under way, a stream is open on the content that
was made for it, and what is written is what was asked for and has ended. That no part
borrows from an answer rests on the order: the parts that have come and wait all
lie behind one that is still missing, so that an answer either is that one, and
everything that waits up to the next hole is written with it, or is behind it,
and nothing is written; never is a part left over beside one that was written.

`ClientProofs`: `Inductive` - the conjunction `IInv` of the types, `NeverStranded`
and `NeverUnwatched`, which `client` also checks - and from it `RestartIsScheduled`
and `ReadyIsWatched`, for any number and order of faults; `KeysAlwaysHold` - a key taken
for bound is bound at the data centre, a configured client that is connected has a
key and no handshake under way, and a message without a key has one of the two
causes of `KeylessOnly` - from an invariant that follows
a key from the handshake that makes it, through the answer that binds it, to
the client that uses it; `WorkersAlwaysSound`. It must allow the
answer of a handshake that an earlier connection began: `Authorization` does not
clear the wire when a connection is lost, and only the round tells the answers
apart. `ClientAssumption` types the bounds and says there is a key to make.

`QueriesProofs`, for any queries of the four kinds, data centres and faults:
`AlwaysSound`, `NoQueryForgotten`, `NoneWaitsForAReadyClient` (`SentWhenReady`), and
`PromiseKept`: `Queries` implements `QueryPromise`. The invariant says where a query
is in each state of its client: in the pending list of exactly that client, behind
its retry timer, or in the session and timed; that the lists hold a query once; that
only one query transfers an authorization; and that an ended query is in no place
at all, so that nothing can end it again. One lemma for each step of the handlers
(`Tried`, `Ended`, `Rejected`, the clean-up of a client) says what it changes, and
the actions are compositions of them.

`ApplicationProofs`: `EventsOnce` - no event is given twice, one fetch at a time -
`NoneSkipped` - none that the counters have passed is lost - and `TruthIsTold` for
the login. The invariant `UInv` covers what is in the air: an answer that the
server computed and the client has not read ends at a number the server had,
begins where the client still is, and nothing else moves the counters meanwhile,
because the lock is held. `NoneSkipped` supposes `0 \notin Counts`: with an event that
takes no number it is false (`UpdatesZero.cfg`). `UpdaterAssumption` types the
bounds and says that the server's counters begin with 1.

`ListsAreWhole` (`Listed`), for lists, limits and pages of any size and any number
of items added: the invariant `PInv` says that the list of the first page still
stands, whole, behind what was added to it (`Stands`), that what was taken is a
beginning of it and tells the server where it ends (`Asking`), and that an answer
on its way continues there (`Goes`). The search needs most: its limit is
overwritten by the count of the server, so that what is left to ask for is
either what is missing to the number asked for, or enough for the rest of the
list. Nothing is promised of a list that loses items meanwhile, as in `Listed`.
`PagesAssumption` says that the server gives an item at least, for with empty pages
a list would end at once, and types the limits.

`SecretChatsProofs`, for any number of texts, requests for a key and faults:
`AlwaysLasting` (the inductive invariant), `TypesHold` (`TypeOK`: no call is told
twice, every key is made of two numbers) and `GoneIsGone` (`Gone`). That a chat
which the server has given up stays deleted needs most of its life: the answer to
an accept, or the update of the created chat, would open it again. The invariant
says that an inbox tells of the life of the chat in the order in which it happened
(`Ordered`), what each side may still ask or be told (`Roles`, `Creator`, `Acceptor`),
that a chat is open only with its key and that the creator has one only when the
other has (`Keyed`), that the creator has said nothing before (`Silent`), and, once
the server has given the chat up, that each side has deleted it and will read nothing
that opens it, or is yet to read of its end (`Closing`). All but the types and the
counts of calls supposes, like `Gone`, that nothing has spoiled the chat (`spoiled`: it
was accepted twice, a message overtook a commit that waited, a crash lost what
waited, or the server's messages came out of order). A step is
proved in two layers: what it does to the side that takes it, as a relation
(`Heard`, `Asked`, `Talked`, `Reached`), and what such a step does to the invariant.

`SecretChatKeysProofs`: `KeysAlwaysAgree` (`KeysAgree`: two sides with the chat open,
nothing under way and no exchange half done have the same key) and
`OnlyOldIsUnread` (`Unread`: only a reader with a newer key fails to read), from
`AlwaysLasting` and a second invariant, `AlwaysAgreeing`. `KeysAgree` speaks of quiet
states only; what leads from one to the next is an exchange, in which the sides
switch at different times. The invariant follows it: either both have the same key
and no commit is anywhere (`Even`), or one side has accepted and keeps to the old
key (`Turning`) while the other has committed and its commit waits to be sent
(`Waiting`), or has switched (`Switched`): then the commit is with the server or in
the inbox, what goes before it is under the old key or an older one, and what
follows it under the new one (`Turn`), or it is lost with the chat, or will never be
read. That needs `Speaks`: an accept that can still be taken is of the exchange that
its sender is in, so that it makes the same key at both ends, whatever requests have
crossed, and a side whose abort is under way stays aborted. Before the creator has
its key nothing of an exchange reaches it (`Alone`). A text that overtakes a commit which
waits breaks `Turn`, as does one that a crash loses: both are in `spoiled`. That
`{a, b}` is newer than the key before rests on the model's numbers: each secret
number is greater than those before it, as a random one is new.

`ClientProofs` has the theorems of `Wire` too: `StringsReadBack`, `BignumsAreStrings`,
`SealedOpens`, `RsaChunks`, for every length: what is written is read back in the
words it was written in, also at the boundary of 254 bytes between the two headers.

The proofs changed the models in a few places. Guards of `CASE`s that overlapped
(`Promised` of `Queries`, the verdicts of `Updater`, `DoLogout` of `Login`, the kinds
of a field in `Serializer`) left the choice to the checker and are exclusive now, in
the order in which the code asks. In `SecretChats` the bound of the queries that
wait was one of the instance, and the ghost `spoiled` did not see that the second
answer to `get_dh_config` may find the chat discarded: with two faults, which the
run does not have, the two sides then have different keys.

Only model-checked:

* liveness under fairness: `ParkedIsProcessed`, `AllReported`, `ConnectionRecovers`, `Settles`,
  `Transferred`, `ComesToRest`, `Finishes`, `AllTold`, `ExchangeEnds`, `CaughtUp`, `AllEnd`
  (the prover has no `ENABLED`);
* what is computed by recursion or a fold over data: `AnswersAgree` and
  `SecretsReadable` (recursive over the schema), `KeysInSubgroup` and `FactorsFound`
  (products by doubling), `ToldOnce` and `Settled` (folds over what a call has told);
  these need induction over data;
* `HoleAssertion`, which does not hold in general.

## 5. Not modelled

* The ciphers, hashes, random numbers and prime tests of the crypto library, and
  the byte tools and logging around them: pure functions of libraries.
* Values of the API beyond what message and document make of a secret chat's
  media: immutable records copied field by field from an answer.
* What an update other than a message tells the application, the date of updates,
  and the differences of channels, whose check is compiled out (`updater.cpp`).
* Secret chats below layer 17 in `SecretChatSeq` (no numbers there), the chain of
  `invoke_after_msg` (the model allows every order, and more than the code does),
  and a crash inside a handler of the sequencing.
* Uploads of encrypted files and profile photos, which have another final query;
  thumbnails' names and geometry; sizes within a part.
* `gzip` and containers as such (their messages are handled one by one), salts kept
  for the future, the addresses of a data centre.
* Autocompletion of text in `generate.c` and the parser of the compiled schema,
  which run when the library is built or typed at.
* Several data centres below `Queries`: `Authorization` and `Session` are one
  client each, for clients share nothing below their queries.

## 6. Plan

1. A crash between the two halves of a handler of the sequencing, with what the
   callbacks have persisted by then.
2. The single updates of `updater.cpp` by what they tell, beside `Calls`.

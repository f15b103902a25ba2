# A formal model of hashtree-ts

TLA+ modules, TLC runs and TLAPS proofs for the hashtree library (`packages/hashtree`) and for
the part of the web application (`packages/hashtree-web`) that edits trees, publishes them and keeps
copies of followed ones. The modules are translated from the source; the table `map` of `PROJECT.json` names, for
every definition, the lines it stands for.

Running it: `tlc -config X.cfg MCModule.tla` for a run, `tlapm XProofs.tla` for the proofs.

## 1. The system

hashtree stores files and directories as Merkle trees of blocks in content-addressed stores. Blocks
travel between browsers over WebRTC, or come from Blossom HTTP servers. The root of a tree is
mutable: a Nostr event of its author, `npub/tree-name`, holds the hash (and the key, by visibility).

Everything runs in one JavaScript thread per browser. Code interleaves only at an `await`, a timer
or a callback, so a *step* of the models is one run between two such points.

### 1.1 Components

| component | state it keeps | operations | talks to | module |
|---|---|---|---|---|
| `Peer`, requesting half (`webrtc/peer.ts`) | `ourRequests` with a closure and a timeout each, `pendingReassemblies`, channel state | `request`, response branch of `handleMessage`, fragments, two timeouts, clean-up interval, `close` | `WebRTCStore` awaits `request`; the peer at the other end | `PeerRequester` |
| `Peer`, answering half | `theirRequests` (an LRU cache), hops to live | `handleRequest`, `sendResponse`, `sendData` | local store, `forwardRequest` callback | `PeerNetwork` |
| `Peer`, connection set-up | `RTCPeerConnection`, queued ICE candidates | `connect`, `handleSignaling`, `close` | signalling messages of `WebRTCStore` | `PeerConnections` |
| `WebRTCStore.get` (`webrtc/store.ts`) | `pendingGets`, `pendingReqs` with `triedPeers` and a timer each | `get`, `fetchFromPeers`, `waitForHash`, `tryConnectedPeersForHash`, `tryPendingReqs` | peers, local store, fallback stores | `WebRTCFetch` |
| `WebRTCStore`, peers and pools | `peers`, pool limits, `running` | hello, offer, answer, candidates, clean-up, `start`, `stop` | Nostr relays, `Peer` | `PeerConnections` |
| `WebRTCStore`, forwarding | recent forwards (in the peers' caches) | `forwardRequest`, `put`, `sendToInterestedPeers` | peers | `PeerNetwork` |
| `RefResolver` (`resolver/nostr.ts`) | `localListCache`, `subscriptions`, `listSubscriptions` | `publish`, `delete`, `injectListEntry`, `subscribe`, `list`, `resolve`, `stop` | Nostr relays, web application | `RefResolver` |
| root cache (`treeRootCache.ts`) | `localRootCache`, `publishTimers` | `updateLocalRootCache`, throttled publish, `cancelPendingPublish`, `flushPendingPublishes` | `nostr.ts` | `TreePublisher` |
| publishing (`nostr.ts`, `actions/`) | `nostrStore` (account, selected tree) | `autosaveIfOwn`, `saveHashtree`, `createTree`, `deleteTree`, `initVirtualTree`, account switch | root cache, resolver, relays | `TreePublisher` |
| tree algorithms (`tree/`, `hashtree.ts`, `encrypted.ts`, `crypto.ts`) | none | create, edit, read, seek, resolve, plain and encrypted | stores | `TreeBlocks`, `TreeNodes`, `TreeEdits` |
| stream writer (`streaming.ts`, `builder.ts`) | buffer, links of stored chunks, total size | `append`, `currentRoot`, `finalize`, seeking reads | stores, recorder, media player | `ChunkWriter`, `StreamWriter` |
| editor of a tree (`actions/`, `stores/currentDirHash.ts`) | the root and the path that are shown | create, save, rename, delete, move, navigate | tree algorithms, publishing | `TreeEditor` |
| `BlossomStore` (`store/blossom.ts`) | errors and back-off per server, queue of writes | `get`, `has`, `put`, `delete` | HTTP servers | `BlossomStore` |
| background sync (`services/backgroundSync.ts`) | queue, timer, task in progress, sync states | `start`, `stop`, list callbacks, `processQueue`, `pull` | trees, resolver, database | `BackgroundSync` |
| tree root store (`stores/treeRoot.ts`) | `subscriptionCache` (hash, key, decrypted key) | subscribe, decrypt, `getTreeRootSync` | resolver, pages | - |
| memory, OPFS, Dexie stores | blocks | `get`, `put`, `delete` | - | - |
| codecs, hashing, visibility keys | none | pure functions | - | - |
| user interface, routes, uploads, git, profiles, social graph | projections | - | all of the above | - |
| vendored NDK, cache, wallet | third-party | - | relays | - |

### 1.2 What is hard about it, and what must hold

* **One request, many callers.** A request to a peer is shared by the callers that ask meanwhile,
  by wrapping its `resolve` closure; its timeout is armed by the request and replaced by the first
  fragment; it leaves the map *before* the awaited verification. *Must hold:* no caller that sent a
  request is lost between these places, no timer outlives the request it was armed for and hits a
  newer one of the same hash, no unverified bytes reach a caller, half-received data is given back.
* **Three loops, one promise.** A `get()` asks peers one by one, is overtaken by delays, then waits
  while peers come and go; two more kinds of loops serve it meanwhile. *Must hold:* one fetch per
  hash, entries that belong to a fetch that waits, no peer asked by two loops, every call settles.
* **Peers that ask each other.** A request is forwarded by nodes that have one pending for the same
  hash, in networks with cycles; interests are remembered in a cache of bounded size. *Must hold:*
  requests die out and every loop ends, an answer comes from a store, an interest is not forgotten
  while there is room.
* **Connections made by messages.** Offers and answers pass relays that delay, reorder and lose
  them, are decrypted asynchronously, and find a `Peer` object under the same key that another one
  made. *Must hold:* no object is left open outside the map or closed in it, a pool is over its limit
  only by peers that were moved into it, nobody stays half-open and keeps the room of another.
* **Events in any order.** Relays deliver old and new events of a tree in any order, in one-second
  timestamps, while the author publishes and deletes locally. *Must hold:* a tree deleted here does
  not reappear because of an event that was under way; what is shown is as new as anything seen that
  had not been published before; every callback has been told.
* **Throttled publishing.** Edits read the root in one place and write another, and what is
  published is decided when a timer fires, which may fail. *Must hold:* the publish of a write is
  tried, and a root whose publish failed is not taken for published; a root goes to the tree and under
  the account and with the visibility it was made for; a deletion is not undone by a pending publish;
  the caches agree once a root is published.
* **Trees rebuilt bottom-up.** An edit replaces every directory above it, in one block or cut into
  chunks, with or without keys, and a file is built from chunks that several calls filled. *Must
  hold:* an edit changes what it names and nothing else, the path that is shown exists afterwards, a
  file reads back as what was written, whole or in parts.
* **Services that fail for a while.** Servers back off and come back, a queue has one task in
  progress and one timer. *Must hold:* a blob that a working server has is found by who asks again; a
  task is never stranded; the last root that was listed is the one that is synced.

The full list of hazards, each at its line, is in `PROJECT.json`, with the properties that cover
them, or the reason why none does.

## 2. Modules

    peers and blocks                                                  mutable roots
      HashPromises  <--implemented by--  PeerRequester, WebRTCFetch     RefResolver
      PeerNetwork       (nodes that forward each other's requests)      TreePublisher
      PeerConnections   (sessions that connect over relays)             BackgroundSync
      BlossomStore      (HTTP servers)

    trees
      TreeBlocks  <--EXTENDS--  TreeNodes    <--EXTENDS--  TreeEdits  <--EXTENDS--  TreeEditor
      TreeBlocks  <--EXTENDS--  ChunkWriter
      TreeNodes, ChunkWriter    <--EXTENDS--  StreamWriter
      TreeEditor  --implements-->  FileTree

    MC<Module> for each module with a run;  <Module>Proofs for PeerRequester, WebRTCFetch,
    PeerNetwork, PeerConnections, RefResolver, TreePublisher, BackgroundSync and StreamWriter

Each component is one module; `MC*` modules give the constants values for TLC; `*Proofs` modules
hold theorems. Where components meet, the module of one models of the other what it relies on:
`WebRTCFetch` takes from `PeerRequester` that requests of one hash are joined and that the request
timeout settles its owner alone; `PeerNetwork` is the composition of several nodes, with a request and
an asking loop as coarse as that promise; `TreePublisher` and `BackgroundSync` take from `RefResolver`
the value shown for a tree, and `TreePublisher` takes edits as sets where `TreeEditor` has the trees. The definitions marked *Variation* are plausible mistakes in the code; they are used to see
that each property notices one, and are not part of any specification.

### 2.1 PeerRequester and HashPromises (`webrtc/peer.ts`)

A call of `request()` is a *caller*. `ourRequests[h]` is the caller that owns the pending request,
`chain[o]` the callers `o`'s closure settles. Actions: `RequestNotOpen`, `RequestJoin`, `RequestNew`
(the three ways through `request()`); `HandleResponse`, which is `HandleWhole`, `HandleFragment` or
`HandleLastFragment`; `VerifyDone` (after `await verifyHash`); `RequestTimer`, `StallTimer`,
`CleanupStaleReassemblies`; `ChannelOpen`, `Close`; `Tick`. The other peer may answer only what was
asked, but late, twice, in any order, or with wrong bytes. Timers count ticks, and a due timer fires
before time goes on.

`HashPromises` is the abstract specification of both `Peer.request` and `WebRTCStore.get`: calls
settle once, together only for one hash, with data or null. `PeerRequester` implements it (checked and
proved). Its refinement mapping is the identity on `callerHash` and `outcome`; that no `corrupt`
outcome occurs is part of the claim.

### 2.2 RefResolver (`resolver/nostr.ts`)

One author, one resolver, any number of trees. `Publish`, `Delete`, `InjectListEntry` are the local
operations with everything they do to the cache, the tree's subscription and the list; `RemotePublish`
and `RemoteDelete` are other devices; `SubscriptionEvent` and `ListEvent` deliver one relay event
to one subscription; `Subscribe`, `Unsubscribe`, `List`, `Unlist`, `Stop` manage callbacks. A list
subscription object is identified with the listener that made it, because `stop()` and `unsubscribe`
let several exist; the closure `list()` returned refers to the object it was made for. `unsent` is a
history variable: the roots written here that this client sent to no relay (`skipNostrPublish`,
`injectListEntry`). With the events it is what has been published, which `NewerRootsWin` compares the
root shown with.

### 2.3 TreePublisher (`treeRootCache.ts`, `nostr.ts`, `actions/`, `stores/treeRoot.ts`, `routes/TreeRoute.svelte`)

A root is the set of the edits it contains. An edit is three steps: `StartEdit` reads the root of
the page, then asynchronous tree code runs, then `Autosave` (or `AutosaveNotOwn`) writes to the tree
selected *by then*; an edit that found no root goes `EnterVirtualTree`, `InitVirtualTree`.
`UpdateCache` arms the throttle, `PublishTimer` fires it, `Save` is `saveHashtree`. A publish that
fires is either `Publish`, after which the entry is clean, or `PublishFails`: `publishTreeRoot` or
`saveHashtree` finds no pubkey or no signer and returns false (`nostr.ts:830, 678`), or something
throws, and the entry stays dirty with no timer until the next write (`treeRootCache.ts:161-174`).
The history variable `failed` holds these trees. `Visit`, `Load`,
`Leave`, `SwitchToAccount` are navigation, the relay's answer and accounts; `CreateTree` and
`DeleteTree` the tree actions. `createTree` and `initVirtualTree` call `saveHashtree` having just
looked at the login, and go on whatever it returns; there it does not fail in the model. An event may
not reach the relays without the client being told (`Send`), and of two events of one second either
may win there. `mixed` are the names published under another account than they were written for.

### 2.4 WebRTCFetch (`webrtc/store.ts`)

`fetch[g]` is the `fetchFromPeers` run that call `g` started, `tasks` the runs of
`tryConnectedPeersForHash` ("now") and `tryPendingReqs` ("new"). Actions of a fetch: `AskNext`,
`FetchResumes`, `PeerQueryDelay`, `NoPeersLeft`, `ServersFind`, `GiveUp`, `WaitForHash`,
`PendingReqTimeout`; of a task: `NowResumes`, `NewResumes`; of the environment: `Connect`,
`ChannelOpen`, `ClosePeer`, `Response`, `RequestTimeout`, `ForwardRequest`, `Put`, `Delete`, `Start`,
`Stop`. Code resumed by a promise runs before anything else does (`Busy`), as microtasks do.
`pendingReqs` is a `Map` keyed by `Uint8Array`, so by identity: `Arrays` and `ArrayOf` keep that.
It implements `HashPromises` as well: a call that expired in `pendingReqs` is mapped to one that waits.

### 2.5 PeerNetwork (`webrtc/peer.ts`, `store.ts`, `protocol.ts`, `lruCache.ts`)

A *run* is an invocation of `handleRequest` or of a node's own asking loop. `HandleRequest`,
`AnswerLocally`, `StaySilent`, `StartForward`, `GoOn`, `Found` are its steps between awaits; `Get`,
`Put` and `sendToInterestedPeers` the calls; `HandleResponse`, `RequestTimeout` and `ClosePeer` the
environment. A request joins the pending one for its hash, whatever its hops; `theirRequests` is the
sequence of the LRU cache's keys. `decrementHTL` is applied where the code applies it, on receipt and
again on sending; the random choice of each connection is the constant `DecrementAtMax`/`AtMin`.

### 2.6 PeerConnections (`webrtc/store.ts`, `peer.ts`)

A node is a session. `peers[n][m]` is the number of the `Peer` object that `n`'s map has for `m`, so
that objects which replace each other are told apart. `SendHello`, `HandleHello`, `SendOffer`,
`Receive`, `HandleOffer`, `SendAnswer`, `HandleAnswer` follow a connection through relay and
decryption; `Connect` and `Fail` are the browser; `CleanUp` the interval; `Start`, `Stop`,
`GraphChanges`, `SetPeerClassifier`, `SetPoolConfig` the settings. An answer is applied once per `Peer`
that has an offer out: any other makes `setRemoteDescription` throw. A message is delivered once per
subscription (`delivered`), and again to the one that `start()` makes anew, which asks for those of the
last minute. `moved` is a history variable: the peers in a map whose pool, or its limit, changed since
they were let in.

### 2.7 TreeBlocks, TreeNodes, TreeEdits, TreeEditor and FileTree (`tree/`, `encrypted.ts`, `actions/`)

`TreeBlocks` is what one block is: cutting, encoding, encrypting and storing it. A block is
a short sequence of units, so that chunking and the sizes in links are kept; its hash is the block.
`TreeNodes` has files and directories as blocks and every way of reading them (`readFile`,
`readFileRange`, `readFileStream`, `listDirectory`, and the encrypted ones); the levels of a tree and
the readers' recursion over blocks are recursive functions.
`TreeEdits` has `resolvePath` and the four edits, plain and encrypted. `TreeEditor` is the page: an action edits the
root that is shown, shows the new one and goes to a path. `FileTree` is its abstract specification,
a map from paths to contents; the refinement mapping is `tree`, which reads the whole tree through the
read operations, so that a block that is missing or has a wrong key shows as a changed tree. Where a
rename meets a taken name `FileTree` lets either entry win, because the code leaves both in the
directory (3.4). A chunk that is missing or does not decrypt reads as nothing in `assembleChunks` and
`Entries`, where the code throws (`encrypted.ts:191`): this is only right for complete stores, and the
stores of all runs are.

### 2.8 ChunkWriter and StreamWriter (`streaming.ts`)

`ChunkWriter` has what the calls do to the buffer and the chunks: `AppendBytes` fills the buffer and
awaits a flush when it is full, `AppendFlushed` goes on with the rest; `BeginFinalize` and
`FinalFlushed` are the flush of `finalize`. `StreamWriter` conjoins to each of these steps the root it hands out, if it does:
`finalize` builds the tree, `currentRoot` is a checkpoint, `PutWhole` is `putFile`. Each
root handed out carries the bytes it should read back as. With `Overlapping = TRUE` calls begin
while others await, as the code permits; the run has them one after another (3.4).

### 2.9 BlossomStore (`store/blossom.ts`) and BackgroundSync (`services/backgroundSync.ts`)

`BlossomStore`: `get` and `has` ask one server after another, `put` queues and uploads to all that
are not in back-off, `delete` asks the first; either throws when `createAuthHeader` gets no signature;
`recordError` and `recordSuccess` keep the back-off.
Servers break down and come back at any time (`BreakOrRepair`).

`BackgroundSync`: `Listed` is the resolver's callback, `queueTreeSync` the queue, `processQueue` the
timer, `SyncStateRead`, `Pulled`, `Recorded`, `Threw`, `checkQuotas` the awaits of a task. `heard`
and `failed` are auxiliary, for the liveness property.

## 3. Runs

| run | instance | distinct states | shows |
|---|---|---|---|
| `peer_requester` | 2 hashes (3 fragments, 1 fragment), 3 callers, request and stall timeouts 2, total 3, clean-up every 2, cap 1 | 450 thousand | timers hit the request they were armed for, owners and joiners are served, reassemblies end; implements `HashPromises` |
| `webrtc_fetch` | 2 peers (one followed), 2 calls of one hash with one `Uint8Array` | 320 thousand | one fetch per hash, entries are waiting, one loop per peer, stored before delivered, every call settles; implements `HashPromises` |
| `peer_network` | a triangle of 3 nodes, 1 hash, 4 hops, 1 get, 1 put, caches of 2, one link that may close | 570 thousand | who answers has the data, interests are kept, requests die out and every run ends |
| `peer_connections` | 3 sessions, 1 place in a pool at most, 1 or 2 `Peer` objects each; one session changes its limits once, its follows, and stops and starts | 582 thousand | the map and the open objects agree, a pool is over its limit only by peers that were moved into it or were there when it was set, nobody stays half-open |
| `blossom_store` | 2 servers, 1 blob, 2 callers, back-off 1, 2, 4 | 366 thousand | a server that works for good is asked again, and a blob that it has is found again and again by who asks again and again |
| `resolver` | 1 tree, 2 values, 2 subscribers, 2 listeners, clock 0-2, 2 events, 1 root not sent, window 2 | 976 thousand | deleted trees stay hidden, no root is passed over for an older one but those published before, nothing newer is ignored in lists, subscribers and listeners are told, the registry is sound |
| `resolver_order` | the same with 1 subscriber and 1 listener | violation | the first finding of 3.3 |
| `publisher` | 2 accounts, of which one is switched to, 1 name, 1 edit, writes up to second 2, throttle 1, clock 0-3 | 219 thousand | deletions last, a dirty root has a timer or its publish failed, caches agree, every write is tried |
| `publisher_visibility` | 1 private tree, 2 edits | violation | the second finding of 3.3 |
| `tree_editor` | 2 names, 2 contents, up to 4 entries, chunks of 2 units, 2 links per node | 75 thousand | edits change what they name and nothing else (`FileTree`), the path shown exists |
| `stream_writer` | files of up to 9 bytes, appends of up to 5, up to 6 calls, chunks of 2, 2 links per node | 9 thousand | files read back; ranges and offsets read the part they name |
| `background_sync` | 1 own and 1 followed tree, 2 roots | 37 thousand | the queue is served, the last roots are synced |

### 3.1 Why the bounds are enough

* `PeerRequester`: three callers let two join a request, or one join and one start a second request
  of the same hash while the first is verified. Three fragments leave a duplicate, a new and a last
  one. The total timeout exceeds the stall timeout, and the clean-up period lets an entry be stale
  by either. Ages are capped above every threshold they are compared with (`AgeCap`).
* `WebRTCFetch`: two peers, one in each pool, in every state of a connection; two calls run one
  after the other or share a fetch. `MaxConnects` is 1: a peer id connects once, so a task of an
  earlier `Peer` object with the id of a later one is not in the run.
* `PeerNetwork`: a triangle is the smallest network with a cycle, so a request comes back to who
  asked; node `a` has two runs at a time, so that its own loop and a forwarded request join. Four hops
  are enough to go round, although each node that forwards takes two; `a`'s links count a hop at the
  ends of the range, the others do not, and there it is the one pending request per hash and the
  delays that end the loops. The `put` at `c` comes before, during or after the request of it.
* `PeerConnections`: the middle session initiates to one neighbour and is initiated to by the other;
  two objects of one node let one replace another while answers to the first are under way. It has one
  place in each pool, so that the unfollow or follow of `Changing` puts two into one pool, by
  `setPeerClassifier` or by an offer that replaces; the configuration it may change to has no place for
  others.
* `BlossomStore`: two callers fail on one server at once, so that back-off doubles twice for one
  outage; the third error reaches the maximum.
* `RefResolver`: two events and three seconds with a window of two put events before, inside and
  at the end of the window of a deletion made here, two in one second, and delivered in any order. The
  event of a deletion is dated a second later, and where it counts the window outlasts the run; the
  theorems have every window and any clock. Two values let an event repeat the one shown, or replace it. Roots that this client
  sends to no relay are bounded by `MaxUnsent`. Two subscribers share a subscription or come after one
  another; two listeners are enough for two list objects to be alive at once, or one with two
  callbacks. Trees do not interact but through the list's view, so one tree is enough.
* `TreePublisher`: an edit, `createTree` and `deleteTree` of one name under two accounts give every
  order of read, navigation, switch and save; writes in each of three seconds re-arm a timer, before
  and after a publish that failed. `EditDeadline + Delay <= MaxTime` leaves room for every timer to
  fire. `Switching` has a switch that is not undone. Two edits are used where a property is about roots
  built on each other; trees of other names do not interact but through the selection, and the theorems
  have any number of them.
* `TreeEditor`: small directories take one block and larger ones several chunks; four entries allow
  paths of up to four names, so a rebuilt directory has rebuilt ones above and untouched ones beside
  it. Roots with and without a key are initial states.
* `StreamWriter`: nine bytes in chunks of two give trees of one to four levels with a last node of one
  link; an append of five fills two chunks and leaves a rest.
* `BackgroundSync`: a task of each priority, each replaced in the queue by a newer root, and restarts
  with a task in progress.

Deadlock is checked in every run but `peer_network`, which ends when all its calls have been made and
nothing is left to deliver.

### 3.2 Fairness

* `TreePublisher!Fairness`: weak fairness of `Tick` and of each `PublishTimer`: time passes and the
  event loop runs due timers, whatever the user does. Nothing is assumed of the user, of edits that
  are under way, of relays, or of publishes, which may all fail: `EveryWriteIsTried` says that each
  write is tried, not that it succeeds, as nothing retries a failed one but the next write.
* `WebRTCFetch!Fairness`: weak fairness of each call's `FetchStep` and of the tasks: code whose
  promise is settled resumes, `delay()` and the timer of a waiting fetch fire, and the fallback
  stores answer or fail. The last is an assumption about the browser: `BlossomStore` sets no time limit
  on its HTTP requests, so a fetch waits for them for as long as the browser does. Nothing is assumed of
  peers: they may never answer, and the request timeout may never help a joiner. The calls settle
  because every await of a fetch is raced with a delay or has a timer of its own.
* `PeerNetwork!Fairness`: open channels deliver (they are reliable), and the runs of a node go on;
  `GoOn` is a delay that fires. Nothing is assumed of answers, or of the request timeout.
* `PeerConnections!Fairness`: a `Peer` goes on with what it began: it makes and publishes its
  description, the browser connects two ends that match and reports an end whose other end is gone
  as failed; and the clean-up interval runs. Nothing is assumed of messages: an offer or an answer may
  never arrive.
* `BlossomStore!Fairness`: time passes, a server answers or the request fails, and the write at the
  head of the queue goes on. Servers may break down for ever; the property is about those that do not.
* `BackgroundSync!Fairness`: timers fire, and databases and pulls answer or throw. Listings, settings,
  logins and the follow list may go on or stop.

### 3.3 Findings: where the code and what it says of itself disagree

`OnlyNewerEventsUpdate` (`resolver/nostr.ts:254`): an event whose hash equals the one shown is dropped
without its timestamp. An event of another root that is older than it, but not than the root shown,
then replaces that root, although a newer event had arrived. The comment at `nostr.ts:253` says "Only
update if this event is newer". `NewerRootsWin` of the passing run says how far it goes: the root shown
is as new as any that was delivered, but for roots that had been published before as well.

`EditKeepsVisibility` (`nostr.ts:833`): an edit of a private tree, followed by leaving the tree within
the throttle, is published as public, because no visibility is stored with the root; the comment at
`treeRootCache.ts:158` says "Use cached visibility to ensure correct tags are published even after
navigation".

### 3.4 Noticed while modelling

Behaviour that is in the models, or that limits them, without a run of its own. Peers:

* A caller that joins a pending request is promised a promise "that resolves when the existing one
  does" (`peer.ts:469`); the request timeout holds the promise's first `resolve` (485), so it never
  settles joiners. `get()` is not affected, because it races every request with a delay.
* A peer that connects while a fetch waits is marked as tried before its channel is open
  (`store.ts:957`), and not asked again.
* Late answers to a fetch are dropped (`store.ts:807`); an old task may delete the `pendingReqs` entry
  of a later fetch with the same array (`store.ts:976`), which then waits for its timer.
* Hops to live decrease both on receipt and on sending (`peer.ts:319, 480`), where `protocol.ts:107`
  says "not on receive".
* An offer whose decryption ends after `stop()` leaves a `Peer` in the map (`store.ts:296`); only the
  lower session initiates (`store.ts:349`), so a higher one without a relay to hear the other's offer
  stays unconnected.
* Reclassifying peers can exceed the pool limits (`store.ts:627`), and so can an offer from a session
  that is in the map and has changed its class since (`store.ts:366`). `PoolsKeepTheirLimits` leaves
  these peers out.
* A `put()` between the miss in the store and the tracking of a request (`peer.ts:301, 313`) finds
  nobody interested, and the block is only sent if the forward finds it. `InterestIsKept` is about
  interests that were tracked.
* After `stop()` and a new `list()` the closure of an old one unregisters the newer list
  (`resolver/nostr.ts:630`), which then gets events but no local changes.
* The clean-up removes one entry over the cap per period, so `MAX_PENDING_REASSEMBLIES` is not a cap
  on memory (`peer.ts:443`).
* Requests that fail at once on one Blossom server each double its back-off; an interrupted write
  leaves an empty OPFS file that reads as a stored block (`opfs.ts:79`).

Roots:

* `resolve()` answers with the first event (`resolver/nostr.ts:195`).
* `subscribe()` ignores events without a hash: deletions by other devices do not reach callbacks,
  although `types.ts:249` promises null.
* A tree re-created within thirty seconds of its deletion is not in its author's own list.
* `stop()` leaves list subscriptions open on the relay.
* An edit that ends after navigation replaces the root of the other tree (`nostr.ts:812`); two edits of
  one root lose one (`file.ts:28`); an edit made before the tree's root arrived starts a new tree.
* After an account switch within the throttle one account's root is published as the other's tree
  (`treeRootCache.ts:161`).
* A root whose publish failed stays dirty and is not tried again until the next write of its tree
  ("Will retry on next update", `treeRootCache.ts:173`), also when the login comes back meanwhile.
* A cache entry is clean as soon as `saveHashtree` returned, which does not wait for a relay; and the
  page may show another root than the cache until the publish (`treeRootCache.ts:4, 17`).
* `flushPendingPublishes` has no caller; `TreeRoute`'s resolver subscription is never ended.
* `treeRoot.ts:62`: a new event replaces hash and key of the cache entry but not the decrypted key,
  which `getTreeRootSync()` gives out with the new hash until the awaited decryption (197) has ended;
  an older event that takes longer to decrypt sets the root last. A tree left and re-entered with
  another link key keeps the old one (175).
* Background sync: after an account switch without `stop()` the old account stays synced (`start()`
  returns at once); a pull that misses blocks is recorded as synced (280); nothing registers chunks,
  so quotas never evict; own trees that are listed for ever starve followed ones.

Trees:

* `encrypted.ts:77`: the links of a file that `putFile` encrypts have the sizes of the ciphertexts,
  although `streaming.ts:75` says that plaintext sizes are stored for seeking, so a range or an offset
  of such a file reads a shifted part. `StreamsSeek` leaves these files out.
* `streaming.ts:83`: an `append` or `finalize` that begins while another awaits its flush loses or
  repeats bytes; the recorder calls both from a timer and an event (`streamState.ts:151, 193`). With
  `Overlapping = TRUE` TLC finds `FilesReadBack` violated in six steps.
* `pull`, `walkBlocks` and `push` (`hashtree.ts:327-432`) do not look inside directories cut into
  chunks.
* A rename onto a taken name leaves two entries of that name, of which one is hidden (`edit.ts:92`);
  `moveEntry` drops an entry's meta; `setEntry` through a directory whose block is missing, or through
  a file, replaces it (`edit.ts:30`).
* A plain root with an encrypted, non-empty sub-directory loses its content by an edit inside it: the
  plain edit reads it as empty. `createDocument` in a public tree makes such directories.
* Whether the path is a file is found out asynchronously (`currentDirHash.ts:96`): an edit that begins
  meanwhile goes to the directory of the previous answer.
* A name with an extension is taken for a file's (`entry.ts:24`), so such a folder cannot be renamed.

## 4. Proofs

TLAPS proves, for every value of the constants that satisfies the modules' `ASSUME`s:

**PeerRequesterProofs.** `TypeCorrect`; all safety properties of the run (`TimersCorrect`,
`OwnersKept`, `DataVerified`, `JoinersServed`, `ReassembliesMortal`); and the refinement
`KeepsPromises == Spec => ImplementsHashPromises`. None of the properties is inductive alone:
that a timeout hits the request it was armed for needs that registered owners wait and are
registered under what they asked for, which needs that an owner being verified is not registered,
which needs that chains are disjoint and settle together. `RequestInv` is this conjunction, one named
part per idea. `AgeInv` measures the age of a reassembly from the clean-up that would have dropped
it; without the time left until the next clean-up the bound is not inductive. The clean-up stops
when the connection closes, so the invariant also says that a closed connection holds none.

**RefResolverProofs.** Types, and all properties of its passing run. `ClockInv`: nothing but a
deletion event is dated later than now, and that by one second. `ListenerInv`: a callback belongs to
the one object its closure refers to, so unsubscribing cannot empty a registered object.
`HiddenInv`: an entry of a tree deleted here is no older than the deletion — the extra conjunct that
makes `DeletedStaysHidden` inductive. `SeenInv` with `Covers`: what an entry shows covers every event
seen, where a deletion seen may be one second newer than a deletion made here meanwhile; this slack,
which the property does not mention, is needed because local deletions overwrite the timestamp.
`ShownInv`, behind `NewestRootsShown`: what is cached or shown was published at the timestamp kept for
it, and a delivered root is no newer than that timestamp or was published before. The timestamp may
fall behind the events seen, because `IsUpdate` drops one that repeats the root shown; what makes the
invariant inductive is that such an event repeats a root known at an older date.

**TreePublisherProofs.** `PublisherTypeCorrect`, `DirtyRootsAreScheduled`, `DeletionsLast` and
`PublishedIsRead`, for any accounts and names, with publishes that fail at any time. An account switch
within the throttle publishes a root under another account (3.4); the last two leave out the names this
happened to (`mixed`), and hold of the others whatever the accounts do. Types are proved together with
`DirtyIsScheduled`, because what a timer publishes has a type only if there is an entry, and with
`IntoOK`. `GoneOK` strengthens `DeletedStaysDeleted`: a tree deleted on the relay has
nothing cached.

**WebRTCFetchProofs.** Types, all safety properties of its run, and `KeepsPromises`. Each invariant is
inductive given the ones before it. `TypeInv` adds that a connection that exists has a number.
`FetchInv` is `OneFetchPerHash` with `EntriesAreWaiting`: neither is inductive alone, because a fetch
may only start when no entry of its hash is pending. `LoopInv` says that who is asked by a loop
counts as tried; that no two loops ask one peer for one fetch follows from it.

**PeerNetworkProofs.** Types, `AnswersAreHeld` and `InterestIsKept`: all safety properties of the run,
for any network, cache and hops. The invariant `HeldInv` adds
what makes `AnswersAreHeld` inductive: what a run has read in the local store is still there when it
answers, and what `put` pushes has been stored; both hold because no step removes a block
(`StoresGrow`). `TypeOK` is inductive; it says that no cache holds more than its capacity or a hash
twice, and `DeletedKey` and `SetKey` are the facts about `LRUCache.delete` and `set` behind it: they
lose no other key, but for the oldest one of a full cache. That is why an interest which goes without
an answer goes from a full cache: tracking a request is a `set` (`StartForwardInterest`), and the two
steps that delete a key, an answer fetched for a peer and a push, send it that answer
(`FoundInterest`, `PushInterest`). `set` deletes the key first, and a deletion removes one
occurrence: only because no hash is held twice does it leave none.

**PeerConnectionsProofs.** Types, `OpenPeersAreInTheMap` and `PoolsKeepTheirLimits`, for any finite
number of sessions and any number of objects. `MapInv` says of each node that entries of its map are objects for the right
session, made, and open, and that every open object is an entry; that two entries never share an
object is what lets `close()` delete by id. `LimitInv` counts, per pool, the peers that are not `moved`: no step
but an installation adds one of them (`FewerCounted`), as one that changes the pool of a peer in the map
marks it; and an installation of a new session adds one where `canAcceptPeer` found fewer than the limit,
counted with the moved ones (`InstallKeepsLimits`). It needs `MapInv`, because an installation changes
the pool of an object by its number, which must be no entry of another session.

**BackgroundSyncProofs.** `QueueIsServed`, for any trees, owners and roots. The conjunct that makes it
inductive is `ListsEnd`: trees are listed only to a service that runs, so that no listing fills the
queue of one that was stopped.

**StreamWriterProofs.** `FilesReadBackAlways`: every root that `finalize`, `currentRoot` or `putFile`
hands out reads back as the bytes that were appended by then, plain or encrypted, for any sizes of
chunks, nodes and appends. `StreamsSeekAlways`: from any offset, or in any range, it reads as that part
of them, but for what `putFile` encrypted. The two share their argument, which has five parts.

* *The writer.* `BytesWrittenInOrder`: at every moment the stored chunks and then the buffer are the
  bytes appended, each once and in order; no chunk is empty or too large, each has its blocks in the
  store and a link that opens it and has its length; between calls `totalSize` is the number of bytes.
  `WriterInv` strengthens it by what a call that awaits a flush still holds: the chunk being flushed
  is the whole buffer, the rest of an append are the bytes from the end of the buffer on, and its
  size is what `totalSize` lacks. `Slice` of a part of the bytes is a part (`SlicePart`).
* *The tree.* The builders replace a list of links by a shorter one, level by level, until it fits in
  one node (`Levels`, `TopOf`). As `maxLinks` is at least 2, a level is shorter than the one below, so
  there is a top (`LevelsShrink`, `Top`). Each level cuts the one below into pieces of at most
  `maxLinks` links (`CutPieces`, `Above`).
* *The readers.* `assembleChunks`, `streamChunksWithOffset` and `readRangeFromNode` recurse over the
  blocks of a store: each is a function that `TreeNodes` chooses by its equation, so it has to be proved
  that there is one. A reader of a node depends on the readers of the nodes its links lead to only
  (`ReadsAgree`), and the nodes of a level lead to levels below (`NodesLead`): a solution of the
  equations for the lower levels is extended to the next (`Extended`, `GrownSolved`), and one for all
  the blocks is what the recursion defines (`ReaderSolves`). Nothing is said of a store whose nodes
  do not lead into it like that.
* *What is read.* `Hold` says of a list of links that each gives its part of the bytes, to the whole
  reader, from an offset on, or in a range (`Gives`, with the three `Kinds`). If it holds of the links of
  a node it holds of the node (`NodeGives`), hence level by level (`LevelAboveHolds`, `LevelsHold`). For
  the last two kinds the sizes of the links matter: the sum of the sizes before a link is where its
  part begins (`TotalSizeIs`, `PositionIs`), so the first link that is not skipped is the one that
  holds the offset (`FirstReadWith`), and the loop over a range has read, after each link, what of the
  range lies before its end (`ReadUpTo`, `AddLinkReads`). The links of the writer and of a plain
  `putFile` have their parts' sizes; those of what `putFile` encrypts have the sizes of ciphertexts.
  The flag `sized` keeps them apart: such trees are proved to read back whole and no more.
* *The roots.* `FileInv` says of the last root handed out that it is a block or the top of such a tree
  (`IsRoot`) and that its blocks are in the store, of what a checkpoint of chunks and buffer is built of
  as well (`CheckpointIsCut`). Each action keeps it (`FileInvAlways`).

The hypotheses are `~Overlapping`, because the flush of a call that is not alone empties a buffer that
another has filled meanwhile, and the code does lose bytes then (3.4); and `NullIsApart`, that `Null`
is no sequence of bytes and no node.

Only model-checked:

* Liveness (`EveryWriteIsTried`, `EveryGetSettles`, `NetworkComesToRest`, `NobodyStaysHalfOpen`,
  `BlobsAreFound`, `LastRootsAreSynced`): the prover has neither `ENABLED` nor fairness.
* `CurrentPathExists` and `ImplementsFileTree` of the tree editor. `ImplementsFileTree` reads a directory
  through all of its sub-directories, an edit rebuilds a path from its end, and the model forgets the
  blocks that no directory leads to any more: `TreeEditor` and `TreeEdits` have recursive operators for
  these, which the prover does not take, and what they compute for a path or a directory of any depth
  is an induction over trees. That a path is still there after an edit rests on all three.

## 5. Assumptions of the models

* `RefResolver`: clocks of an author's devices agree; an event is delivered at most once per
  subscription; values stand for hash and key together.
* `TreePublisher`: awaits of `import()` of loaded modules take no time; directory edits are pure and
  end in any order; relays do not deliver events of other devices; reloading the page is not an
  action (it clears all state).
* `WebRTCFetch`: storing what a fetch received is one step; timers fire at any time, their lengths are
  left out; peers answer with data, or with a failure.
* `PeerNetwork`: timers fire at any time; the request timeout is longer than the delay between peers,
  as it is in the defaults; a node that has all its runs busy lets a request wait (`MaxRuns`, a bound).
* `PeerConnections`: ICE candidates are part of the descriptions; a relay keeps the newest hello and
  hands it out again, and delivers an offer or an answer once per subscription; the nodes' uuids differ.
* Trees: hashing has no collisions, a cipher is a box that its key opens, file bytes do not look like
  an encoded node, a link is one unit long. The page's view of a path is up to date when the next
  action begins, and actions run one after another (`TreePublisher` has them overlap).
* `BlossomStore`: `delete` is asked as the code asks it; a server that works has what was put there.
* `BackgroundSync`: the database of sync states outlives restarts; values stand for hash and key.
* `PeerRequester`: the channel delivers nothing after `close()`; the chunk of a hash always has the
  same number of fragments; wrong bytes are told by their hash (`intact`).

## 6. Not modelled, and why

`PROJECT.json` gives the reason per component. In short:

* Byte encodings, hashing and encryption have nothing to interleave, and their inputs are unbounded
  strings of bytes; the models keep what the rest relies on (sizes, chunking, which key opens what).
* Stores over a map, OPFS and IndexedDB are thin: one call of the platform per operation.
* The user interface (a quarter of the source lines), routes and the social graph are
  projections of state that is modelled where it is kept; git drives third-party libraries on copies
  of a tree.
* NDK, its cache and the wallet, two fifths of the lines, are third-party code kept in the tree. Relays
  are modelled from how `resolver/nostr.ts` and `webrtc/store.ts` use them.
* `resolve()` keeps no state beyond one call. `TreeBuilder` and `queueVisitedTree()` have no caller
  outside tests.
* `pull()`, `push()`, `walk()` and `verifyTree()` traverse what `TreeNodes` reads; what is wrong with
  them is noted in 3.4.
* `stores/treeRoot.ts`: its cache is part of `TreePublisher`'s page, with decryption immediate. Its
  properties do not hold of the code (3.4).

The map therefore covers a small share of all lines, but nearly half of the library's
(`packages/hashtree/src`), and most of its code that keeps state: `webrtc/`, `resolver/`, `tree/`, `encrypted.ts`, `streaming.ts`, `blossom.ts`, `backgroundSync.ts`,
and the actions that publish and edit.

## 7. What could follow

* `TreeRootStore`, once the order of decryptions is settled in the code: the key shown belongs to the
  hash shown, and the last event wins. It would take `NewerRootsWin` from `RefResolver`.
* `pull` and `push` over `TreeNodes`: what was pulled reads back without the other store.
* Two editors of one tree: `TreeEditor` with `TreePublisher`'s overlapping edits, for which
  the code would need a merge.
* A proof that `FileTree` keeps every file in a folder and that an edit leaves every path alone that it
  does not name. `TreeEditor` would have it by the refinement that TLC checks.

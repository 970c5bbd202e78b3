# A TLA+ model of cIRC

cIRC is a small IRC server in C: one process, one thread, an epoll loop, GLib
hash tables for its state. This directory models the server from the batch of
events an `epoll_wait` returns down to the bytes of a line and the length of a
reply, model-checks it on small instances and proves the main invariants for
instances of every size.

Paths below are relative to the repository (`src/client.c`), line numbers are
those of the modelled commit.

## The system

| component | state | operations | talks to |
|---|---|---|---|
| server tables (`src/server.c`) | `nicks`, `clients`, `channels`, `idCounter`, `nUsers`, `nUnknown` | start, generate id, find / create / remove channel | read and written by clients, handlers and channels |
| clients (`src/client.c`) | `client_s`: descriptor, nickname, three registration flags, away | accept, read event, change nickname, register, send, close | registers itself with the reactor, writes the server tables |
| handlers (`src/handlers.c`) | none of their own | one per command | call clients, channels and replies; queue replies on the sender, write to others at once |
| channels (`src/channel.c`) | `channel_s`: name (50 characters), topic, members | join, part, forward, set topic | hold `client_s` pointers, call `Client_Send` |
| connection store (`src/connection.c`, `conn_read_message` of `src/read_message.c`) | `store`, `totalRead`, `discardNext`, `message` | read, extract a line, truncate | drives parser and handlers |
| parser, tokenizer (`src/parser.c`, `src/msgtok.c`) | `irc_message_s`, cleared once per read | one function per command | fills the fields handlers read |
| reactor (`src/reactor.c`) | epoll set | register, wait, dispatch | calls the accept and read handlers |
| replies (`src/replies.c`), message of the day (`src/motd.c`) | a buffer of 513 characters per reply; the message | format one reply each; cut the message into fragments | read client, server and channel records |
| hash table (`src/hashtable.c`) | slots with deleted marks, two counters, owned values | new, insert, search, remove, delete | its unit test; the server uses GLib's |
| the rest: `config.c`, `circ.c`, `socket.c`, `log.c`, `vector.c` | start-up data, or unused by the server | | |

What is hard here is not parallelism but lifetime. A `client_s` is never freed
after a disconnect: it stays in `clients`, its nickname in `nicks`, itself in
the members of its channels, with the number of a descriptor the kernel may
hand to the next connection. Every table thus refers to records whose
connection may be gone, and every handler runs against whatever earlier
connections left behind. Next to that: a connection whose registration with
epoll fails half-way, reads that split lines anywhere, a 512-byte
store with three outcomes at its edge, and writes that can kill (SIGPIPE) or
stop (blocking sockets) the process. `PROJECT.json` lists these hazards with
the line where each bites and the properties aimed at it.

Per component, correctness means:

* clients: nickname table and client records agree; a nickname leads to a
  record that exists; registration happens exactly when NICK and USER were both
  accepted; the counters count; descriptors and live connections correspond; a
  nickname moves only with its owner; a disconnect is noticed;
* channels: members are records that exist; a channel has a member; one channel
  per name whatever its spelling; memberships change only by their own client;
  no entry leads to a freed record; messages reach whom they are meant for,
  under whatever spelling they joined;
* connection store: the fill count stays inside the store; no byte is lost or
  repeated; messages are single lines; nothing complete is left waiting; only a
  peer that closed is hung up; the loop ends;
* parser: what a line does is decided by that line, not by those before it;
* reactor: a handler is called only for a live connection with something to
  read, and none is put off for ever;
* tokenizer: the tokens are those of the line, all of them, and stay so;
* hash table: the newest value of a key is the one found, values are destroyed
  exactly once, operations end;
* replies: what is formatted is in the buffer; the whole message of the day is
  sent.

## Modules

| module | models | proofs |
|---|---|---|
| `Clients` | accept, disconnect, NICK, USER and the handlers that touch no channel, with the kernel's descriptors | `ClientsProofs` |
| `Directory` | abstract: who is known and who holds which nickname; implemented by `Clients` | in `ClientsProofs` |
| `Server` (extends `Clients`) | the whole server: `Clients` composed with the channels, AWAY, PRIVMSG | `ServerProofs` (extends `ClientsProofs`) |
| `Session` (extends `Server`) | reads of several lines, the parser, and the record the lines of a read share; implements `Server` | `SessionProofs` (extends `ServerProofs`) |
| `Reactor` (extends `Clients`) | epoll, batches of events and their dispatch; implements `Clients` with its fairness | `ReactorProofs` (extends `ClientsProofs`) |
| `Framing` | one connection's store and its extraction loop, byte by byte | `FramingProofs` |
| `MsgTok` | the tokenizer on the line it cuts in place, against a reference definition | `MsgTokProofs` |
| `Dictionary` | abstract: a pile of values per key; implemented by `HashTable` | in `HashTableProofs` |
| `HashTable` | open addressing with double hashing and deleted marks | `HashTableProofs` |
| `Replies` | the length of every reply, RPL_NAMREPLY's loop, the fragments of MOTD | `RepliesProofs` |
| `MC...` | the constants of the TLC instances | |

Definitions named `...Faulty variant` in a comment are not part of the model:
each is a small mistake in the definition below it, kept to show that the
properties notice it.

### Clients

Ids are `1..MaxClients` because `server_generate_id` counts from 1 and 0 means
"absent" in the nickname table. A client's fields are functions of its id; they
survive its connection, as the record does. `conn[c]` is what the kernel and
the reactor know of the connection: `none`, `open`, `eof` (the peer closed, the
server has not read that yet), `closed`, or `lost`, the state after
`reactor_register_handler` failed: record freed, entry and count kept,
descriptor open. `owner` is the kernel's table from descriptors to connections;
`accept` takes the lowest free one. `fd[c]` is never cleared, as in the code.

An action is one message handled to its end, or one event. The parsed message
is the action's parameter. `out` holds the writes of the last action that
reached a socket: `to` is the client meant, `at` the connection the kernel
delivered to (it differs once a descriptor has been reused).

`status` says how the process is doing. `killed`: SIGPIPE or a NULL pointer.
`blocked`: stuck in `write(2)` because the peer does not read (the sockets are
blocking). `undefined`: it used freed or uninitialised memory. In none of these
does the model take another step: nothing is claimed of such a process. The
tables in a stopped state are those of the finished handler and have no
observer.

Commands whose parse error the handler does not look at (an over-long NICK,
PART without a channel, JOIN 0) act on whatever field an earlier message of the
same read left behind. The model gives each the outcomes this can have: the
crash or undefined use here, and the ordinary action with some argument.
Messages of one read are not kept together here, so `Clients` and `Server`
allow more interleavings than the loop, which finishes a read before it turns
to another client; `Session` has the order of the code, and is proved to
implement `Server`.

`Directory` is what remains for a user of all this: arrive, claim a free
nickname, be welcomed once and only with a nickname, leave for good. The
refinement mapping reads a client's phase off its connection and its
`registered` flag and takes `nicks` as it is.

### Server

A channel is its key in the table, the lowercased name. `Lower` and `Stored`
(the name cut to fifty characters) are arbitrary idempotent functions; names,
topics and prefixes are sets. Lists in JOIN, LIST and NAMES are sets of names:
repeating a name changes nothing. `freed` are the keys left in the table by
`server_remove_channel`, which frees the record and removes the entry of the
*cut* name. Touching a freed key is `undefined`. PART by a non-member is
answered 403, because `Reply_ErrNotOnChannel` (`replies.c:198`) prints the text
of "no such channel", not the 442 the comment at `handlers.c:474` announces.

### Session

A step is one line: parsed by the function of its command into `message`, the
`irc_message_s` of the read, and handled. The structs of the union share two
words, so a field is one of two pointers, and a pointer is the set of strings it
may denote: none for NULL, the token when this line set it, and any text when
an earlier line did, because `conn_s.message` has been overwritten since.
`LeavesField` names the five kinds of line whose handler reads a field that the
line may not have set: an over-long NICK, JOIN 0, PART and LIST without a
channel, TOPIC without a topic. `Seen` is what the handler of a command looks at; the
central property, `LinesIndependent`, compares it with what it would be for the
line alone. `Lines` has every number of parameters that a parse function can
tell apart. A list in JOIN, LIST or NAMES is a text with a value of `Split`.

### Reactor

`ready` is epoll's list, `batch` the events of the last `epoll_wait` not yet
dispatched, `pending` and `input` what the kernel holds for `accept` and `read`.
`epoll_wait` walks the list, drops what has nothing to read, and puts what it
reports at the end again (level-triggered). A handler is then called without
another look, as in `reactor_handle_events`, while peers go on connecting,
sending and leaving. Each dispatch is a step of `Clients`. Data that holds no
complete line is a read without a step of `Clients`; which lines a read holds
is the business of `Framing` and `Session`.

### MsgTok

A step is one call of `msgtok_r`; the buffer, the NULs written into it and the
saved pointer are the state. The reference defines the tokens of a line by
where they start, without a buffer or an order of calls. It says of the corner
cases what the code does: blanks at the end of a line give one empty token
(so `TOPIC #c ` with a trailing blank clears the topic), a colon starts the last
parameter in any position, even the first, and a line with a NUL has no tokens.

### HashTable

A step is one call. The hashes of the keys are arbitrary numbers. A key tries
slots `djb2 + i * (djb2a + 1)` modulo the capacity; because the capacity is
prime these are all slots, unless `djb2a + 1` is a multiple of it, and then
only one. It is assumed that the sum of a slot number and a hash does not wrap
around 2^64 (a wrap would make the sequence of tries irregular for a handful of
hash values). `Dictionary` has a *pile* of values per key: an insertion takes the
first deleted slot without looking further, so a key can be in the table twice,
and removing it uncovers the older value. `crashed` is the call of a NULL
destructor by a replacing insertion (`hashtable.c:109`; elsewhere NULL means
`free`), `spinning` a removal that does not end (`hashtable.c:165`).

### Replies

A reply is a number of characters: those its format spells out and those of
its fields, each at its greatest width. Only a client's texts vary. The number
that `sprintf` or `snprintf` returns is the length later written to the socket;
`held` is what is in the buffer. `RepliesFit` says up to which length of texts
(375 characters, with the user name) every reply is what its buffer holds,
`NamReplyFits` up to how many members (38) RPL_NAMREPLY stays inside, whatever
their nicknames. Beyond these limits the code has no check of its own.
`MotdComplete` says what of the message of the day is sent: all of it, unless
its length is a multiple of 80, when the last fragment comes out empty.

### Framing

Bytes are CR, LF and others. `store`, `totalRead`, `discardNext` and `message`
are those of `conn_s`, the store's size is the constant `N`. A step is one
`read`, one line extracted, one truncation, or the end of the loop. Histories
(`received`, `consumed`, `whole`, `cut`, `delivered`) record what the
properties compare; no guard reads them except `received`, whose length is
bounded by `MaxBytes`. Handlers return: what they do with a message is the
business of `Clients` and `Server`. A failing `read` (-1) changes nothing of
the store and is the action `HandleReadError` of `Clients`.

## Runs

| run | instance | distinct states | shows |
|---|---|---|---|
| `clients` | 3 connections, 2 descriptors, 2 nicknames, with fairness | 65 k | tables, registration, counters and descriptors through every order of events; the directory is implemented; an end of file is always acted on |
| `server` | 2 clients, 2 descriptors, 1 nickname, one name in two spellings, 1 topic | 106 k | lowercase keys, members that exist, memberships changed by their own client only, channel messages heard by all members or, in any spelling but lowercase, by nobody |
| `leftovers` | 3 connections that reuse 1 descriptor, a long name and the name it is cut to | 232 k | a freed record only under a long name, every other channel has a member, and a write goes astray only from a closed connection |
| `session` | 1 connection, 3 texts (a channel, a nickname, the empty one), reads of up to 2 lines | 407 k | a line is what it is whatever preceded it, up to the five kinds; the first line of a read is clean; errors and targets are the line's own |
| `reactor` | 3 connections, 2 descriptors, batches of 2, with fairness of the loop | 144 k | no event for a closed or reused connection, no handler that would block, no starvation |
| `framing` | store of 5 bytes, up to 7 bytes of 3 values, with fairness | 553 k | the properties of the store, for every stream and every fragmentation |
| `tokens` | lines of up to 7 characters out of 4 | 49 k | the tokens are those of the reference definition |
| `hashtable` | capacities 1, 2, 3 and 5, colliding keys, 4 insertions, with and without destructor | 27 k | counters, ownership of values, when a removal spins; the dictionary is implemented |
| `replies` | every format, texts on both sides of the limit, 42 members, messages of 0 to 245 characters | 488 k | what fits the buffer and what of the message of the day is sent |

Why the bounds are enough: three connections on two descriptors are the least
with which a descriptor is reused while another connection lives (the third
takes the first's), and on one descriptor they are its owner, its former owner
and the one before; two nicknames allow a change, a clash and a refusal; two
names are either two spellings of one channel or a name and its truncation, the
only relations between names the code can tell apart. Two lines are enough for
one to leave something to the next, and `IndependenceSafe` is proved for any
number. A batch of two is the least in which one event can affect another, and
with three connections and the listening socket the list is longer than a
batch, so that being left out can happen. A store of five bytes is
the smallest in which the three cases of the extraction (line found, nearly
full with one or two bytes over, neither) are all distinct and a truncated
line can have a line before it; seven bytes fill it and then some. Seven
characters hold three parameters with blanks between and after them. Four
insertions fill a table of three slots and insert once more; the keys'
hashes collide in their first slot, in their step, and in neither. 42 members
and 245 characters are past the limits of 38 and of three fragments. Deadlock is
not checked: the bounds on connections, bytes and calls, and a process that has
died, stop the models.

Three more runs show where the code and its own words part; each checks one
property and finds it violated. They are described under "findings" in
`PROJECT.json`:

| run | what happens |
|---|---|
| `stray_write` | a message for a client that left is written to the one that reuses its descriptor |
| `stale_topic` | a TOPIC that only asks sets the topic to what an earlier line of the read left in the record |
| `split_line` | a line that comes in two reads loses its beginning |

Other disagreements, which are behaviours of the models but have no run:

* NICK with one's own nickname is refused (`client.c:49`), where the comment
  speaks of another client;
* a connection epoll refused stays counted in `nUnknown` (`client.c:230`), the
  "number of unknown connections";
* JOIN and PART of a name over fifty characters leave a dangling entry
  (`server.c:139`), while `channel.c:40` says names have up to fifty;
* PRIVMSG looks a channel up as it was typed (`handlers.c:220`), JOIN in
  lowercase; `PrivmsgHeard` says what follows: a message in the spelling one
  joined under may be heard by nobody, and its sender is not told;
* `Client_Send` is said to return -1 on error (`client.h:62`); it always returns
  0, and when its client's peer has gone and the end of file is not read yet,
  SIGPIPE, which is not handled, ends the process (`client.c:248`);
* a connection epoll refused is never closed (`client.c:237` frees its record
  only), and its descriptor is lost;
* the rest of a truncated line becomes a message (`read_message.c:186`), where
  the comment at line 148 says it is moved "to be discarded later";
* PART by a non-member is answered 403, not the 442 that `handlers.c:474`
  announces.

### Fairness

`ClientsFairSpec`: weak fairness of `HandleClose(c)` for every client. epoll is
level-triggered (no `EPOLLET` in `reactor_configure_events`), waits without a
timeout and is called for ever (`server.c:77`); a descriptor at end of file
stays ready until it is read, and epoll serves ready descriptors in turn even
when there are more than 64. That this is enough is itself checked: `Reactor`
assumes only that the loop goes on (`ReactorFairSpec`, weak fairness of `Loop`,
the `for (;;)` of `server.c:77`), and the run `reactor` shows that it implements
`ClientsFairSpec`, with batches smaller than the number of ready handlers and
with accepts that keep failing. The loop stops only by dying or in a blocking
write, which is why both are states of the model and `EofIsClosed` ends in
"or the process is not up": nothing is claimed of how often it stops, which one
peer can bring about by leaving or by not reading. `Framing!FairSpec`: weak
fairness of the extraction loop, which is sequential code, and of reading an end
of file, for the same reason as above. Nothing is assumed of peers: they need
not send, read or close.

## Proofs

All proofs are checked by TLAPS with its SMT, Zenon and LS4 backends. They hold
for every value of the constants that satisfies the modules' `ASSUME`s:
`MaxClients` a natural number, descriptors positive, `None` outside nicknames,
names, topics and numeric replies, `Lower` and `Stored` idempotent with
lowercase preserved by cutting, `N >= 5`, CR and LF different bytes, the
tokenizer's special characters distinct, hashes natural numbers, `NULL` no key,
number or item, and for every capacity hint a prime no more than its double and
one away (Bertrand's postulate, which is not proved here and makes the loop of
`next_prime` end).

*Connections.* `ClientsInv` is the inductive invariant: types, the agreement of
nickname table and records, registration, counters, descriptor ownership, and
`IdsInOrder`, which says what the others need to know of ids not yet handed
out or refused by epoll (no flag set) and of those that were handed out (in
`clients`, with a descriptor number).
The last part is why it is needed: `NicksResolve` and the counters are not
inductive, because without it `Accept` could revive an id that already has a
nickname. The counters are cardinalities, so each action that moves a client
between the sets cites the library's facts on adding and removing an element.
`NickHandover` is an action property proved from the same invariant, and so is
the refinement `DirectoryImplemented`: each action is a step of `Directory` or
leaves the mapped state alone; `RegisteredIff` is what makes a welcome one with
a nickname.

*Server.* `ServerInv` adds the channel part: types, members that resolve, keys
in lowercase, freed keys long and in the table, channels inhabited, and that
absent keys have no members (so that a channel created anew starts with its
creator alone).
`ServerKeepsRegistry` shows that composing the channels disturbs nothing the
connections promise. `FreedSafe` confines dangling entries to names over fifty
characters. `MembershipSafe`, that memberships change only by their own client,
takes an assumption, `ShortNames`: every name fits fifty characters, which
`channel_verify_name` tests and no handler enforces. With longer names removing
a channel can empty the one whose name it is cut to, so the assumption is
needed. `PrivmsgSafe` rests on the keys being lowercase and on absent keys
having no members. `DeliverySafe` proves for any number
of clients and descriptors that a write misses its client only if that
client's connection was closed.

*Sessions.* `SessionImplementsServer` shows that every step of `Session` is a
step of `Server`: each command, with whatever the record holds, leads to one of
the server's actions or leaves its state alone. All that is proved of `Server`
thus holds of the server as its lines drive it (`SessionKeepsServer`).
`IndependenceSafe` rests on a lemma about the parse functions, that what a
handler sees of a line is the same for any two records the line may find, and
`FirstLineSafe` on the record being clear when a read begins. `ErrorsSafe` needs
only one step: a handler given a line without a fault sends no error about a
parameter, whatever the record it is given. `TargetSafe` takes `ShortNames`,
because a handler of a longer name can also remove the channel it is cut to.

*Reactor.* `ReactorImplementsClients` proves, for any batch size and backlog, that
every step of the event loop and of its peers is a step of `Clients` or leaves
its state alone; `ReactorKeepsClients` draws the conclusions: the invariant of
the connections and the refinement of `Directory` hold under the loop.
`BatchInv` is inductive together with `ClientsInv`: the batch and epoll's list
hold handlers of open descriptors, none twice. Closing a descriptor takes its
handler off the list, and a batch has no second event for it; that a batch is
taken from a list without repetitions is what carries the argument. From it
follow `BatchSafe` (no event for a closed or reused connection) and `ReadsSafe`
(no handler blocks), for batches of any size.

*Replies.* `RepliesSafe` goes through the formats of `replies.h` one by one:
each, with its fields at their widest and its text at 375 characters, is shorter
than the buffer. `NamesSafe` rests on `NamesInv`: the prefix has 131 characters, each
nickname adds at most ten, the first of them nine. `MotdSafe` rests on
`MotdInv`: before the last fragment, `fragment` whole fragments were replied.
The lemmas on division (`Fragments`, `PartIs`) say what the last one holds.
Neither depends on the bounds `MaxMembers` and `MaxMotd`.

*Store.* `FramingInv` adds to the types and to `WaitingIsDrained` that a result
of 0 being drained came from an end of file; this follows because the loop
leaves at least two bytes of room, so no read ever asks for nothing.
`MessagesSafe` rests on the first CRLF being the one found. `BytesSafe` carries
`StreamInv` along: what was consumed, followed by what is held, is what was
received; every way of taking bytes out keeps it, with `discardNext` never set.
`DrainTerminates` is the part of `DrainEnds` that needs no fairness: each pass
of the loop shortens what is held or leaves the loop.

*Tokenizer.* `TokInv` says of every token returned that it is the one of its
rank among the starts of the reference definition, that the NUL behind it is its
terminator and that the text before the NUL is the line's; of the saved pointer,
that it is the next start and that nothing from there on has been cut. The
second half is why a call cannot spoil what an earlier one returned: it cuts
behind the saved pointer and all earlier tokens end before it. That a skip over
blanks passes no start (`NextStart`) and that a colon or the last blank leaves
none (`LastStart`) give the order and the number of the tokens.

*Hash table.* `HashInv` replaces the counting of `ValuesOwnedOnce` by `OneOwner`:
an item in use owns an accepted value, no two own the same, and what was
accepted and has no owner was destroyed. `SpinSafe` needs that a key with a
stride tries every slot. This is proved from the capacity being a prime: two
tries of one slot would make a multiple of the stride divisible by the prime,
the least such multiple would divide the prime itself (`NeverBack`), and as many
different tries as slots meet them all. For the refinement, `NoGaps` says that
no item lies behind a slot at which the search for its key would stop: an item
is put at the first stop, and no slot becomes unused again. A search without a
result is then one of an empty pile, the item found is the top of its pile
(`FoundIsTop`), and an insertion or removal adds, changes or takes away just
that one (`Push`, `Swap`, `Pop`); piles of other keys stay as they are
(`OtherPile`).

Only model-checked: the liveness properties (`EofIsClosed`, `DrainEnds`,
`EofNoticed`, `ImplementsFairClients`), which need fairness and are out of
TLAPS's reach. Of `ImplementsFairClients` the safety half is proved
(`ReactorImplementsClients`).

## Not modelled

* what replies say, but for their codes, lengths and the channel they name;
  user and host names; away texts (only whether one is set);
* the bytes of a line within `Session`: `Framing` delivers lines, `MsgTok` cuts
  them, `Session` starts from lines already cut;
* what follows once a reply has outgrown its buffer: `Replies` says from which
  length or number of members on it does, `Server` has no such outcome;
* `int` overflow of `idCounter`;
* memory exhaustion (`calloc` is not checked anywhere), signals other than
  SIGPIPE;
* start-up (`config.c`, `socket.c`, `circ.c`): option parsing and a fixed
  sequence of system calls, each failure ending the process; logging;
* code no build of the server reaches: `read_message` with `read_to_CRLF`,
  `client_join_channel`, `channel_verify_name`, `handlers1`,
  `reactor_change_registration`, `Reactor_UnregisterHandler`, `vector.c`.

## Plan

Every safety property of the runs is a theorem. What is left:

1. `LinesIndependent` as a refinement: a session of several lines implements one
   of single lines, for clients that send none of the five kinds of line.
2. A composition of `Framing` and `MsgTok`: the tokens a connection's bytes give,
   whatever the reads they came in, as long as no read starts with bytes kept.
3. `HashTable` with hashes that wrap at 2^64, where a key may not try every slot.

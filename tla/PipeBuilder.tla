----------------------------- MODULE PipeBuilder -----------------------------
(***************************************************************************)
(* PipeBuilder (net/pipe_builder.cc, POSIX build): the two pipes between   *)
(* the driver and the browser it launches.                                 *)
(*                                                                         *)
(* SetUpPipes creates the pipes and tells the launch options which ends    *)
(* the child finds at descriptors 3 and 4; BuildSocket wraps the driver's  *)
(* ends in a PipeConnection; CloseChildEndpoints closes the driver's       *)
(* copies of the child's ends; TakeSocket hands the connection over.       *)
(* Every descriptor is owned by a ScopedFD, a File or a connection, which  *)
(* closes it when it is destroyed or assigned to.                          *)
(*                                                                         *)
(* The caller is free: it calls the methods in any order, launches a child *)
(* with the options, drops sockets, destroys the builder and makes a new   *)
(* one.                                                                    *)
(***************************************************************************)
EXTENDS Naturals, Sequences, FiniteSets, FiniteSetsExt, SequencesExt

CONSTANTS
    MaxFds,      \* descriptors the process may have open (RLIMIT_NOFILE)
    MaxSetUps,   \* bound on the pairs of pipes ever created
    MaxRemap,    \* bound on the length of options->fds_to_remap
    Invalid      \* a ScopedFD or File that holds no descriptor

Fd == 1..MaxFds

ASSUME
    /\ MaxFds \in Nat /\ MaxSetUps \in Nat /\ MaxRemap \in Nat
    /\ Invalid \notin Fd

VARIABLES
    protocol_mode_,  \* "", "asciiz" or "cbor"
    read_file_,      \* the driver's end of chrome_to_driver
    write_file_,     \* the driver's end of driver_to_chrome
    child_ends_,     \* <<read end of driver_to_chrome, write end of
                     \*   chrome_to_driver>>
    connection_,     \* the PipeConnection, or Invalid
    sockets,         \* the connections callers took and still hold
    fds_to_remap,    \* options->fds_to_remap: <<descriptor, target>>
    table,           \* the process's descriptors: what each refers to
    cloexec,         \* the descriptors with FD_CLOEXEC
    setups,          \* pairs of pipes created so far
    alive,           \* the builder exists
    child,           \* what the last child launched has at 3 and 4
    last             \* the last method called and the Status it returned

vars == <<protocol_mode_, read_file_, write_file_, child_ends_, connection_,
          sockets, fds_to_remap, table, cloexec, setups, alive, child, last>>

kAsciizProtocolMode == "asciiz"
kCborProtocolMode == "cbor"
Modes == {"", kAsciizProtocolMode, kCborProtocolMode}

Targets == {"kReadFD", "kWriteFD"}

\* One end of one pipe.
End == [setup : 1..MaxSetUps,
        pipe : {"chrome_to_driver", "driver_to_chrome"},
        side : {"read", "write"}]

Free == Invalid

Connection == [read : Fd, write : Fd]

FreeFds(t) == {fd \in Fd : t[fd] = Free}

\* close(): of a holder that holds nothing, nothing.
Close(t, closed) ==
    [fd \in Fd |-> IF fd \in closed THEN Free ELSE t[fd]]

\* CreatePipe: the two lowest free descriptors, the read end first.
CreatePipe(t, n, name) ==
    LET read == Min(FreeFds(t))
        write == Min(FreeFds(t) \ {read})
    IN  [read |-> read, write |-> write,
         table |-> [t EXCEPT
                      ![read] = [setup |-> n, pipe |-> name, side |-> "read"],
                      ![write] = [setup |-> n, pipe |-> name,
                                  side |-> "write"]]]

Returns(method, code) == last' = [method |-> method, code |-> code]

Remap_DriverEnds(c2d, d2c) ==
    <<<<c2d.read, "kReadFD">>, <<d2c.write, "kWriteFD">>>>

\* What SetUpPipes adds to the options: the child reads what the driver
\* writes at 3 and writes what the driver reads at 4.
Remap(c2d, d2c) ==
    <<<<d2c.read, "kReadFD">>, <<c2d.write, "kWriteFD">>>>

AfterFailure_Leaks(with_pipes, before) == with_pipes

\* The table after SetUpPipes has failed: the ScopedFDs go out of scope and
\* close what CreatePipe opened.
AfterFailure(with_pipes, before) == before

CloseChildEndpoints_TheFirst(ends) == {ends[1]}

PipesAreInitialized_Always == TRUE

\* BuildSocket's test of what SetUpPipes left.
PipesAreInitialized == read_file_ # Invalid /\ write_file_ # Invalid

\* The descriptors CloseChildEndpoints closes.
ChildEndpoints(ends) == {ends[1], ends[2]}

-----------------------------------------------------------------------------

SetProtocolMode(mode) ==
    /\ alive
    /\ protocol_mode_' = IF mode = "" THEN kAsciizProtocolMode ELSE mode
    /\ Returns("SetProtocolMode", "kOk")
    /\ UNCHANGED <<read_file_, write_file_, child_ends_, connection_,
                   sockets, fds_to_remap, table, cloexec, setups, child,
                   alive>>

\* With `fresh` the caller passes options nothing was added to before.
\* A failure comes before the first pipe, or after it.
SetUpPipes(fresh) ==
    /\ alive
    /\ LET options == IF fresh THEN <<>> ELSE fds_to_remap
           c2d == CreatePipe(table, setups + 1, "chrome_to_driver")
           d2c == CreatePipe(c2d.table, setups + 1, "driver_to_chrome")
           replaced == {child_ends_[1], child_ends_[2], read_file_,
                        write_file_}
       IN  \/ /\ protocol_mode_ # kAsciizProtocolMode
              /\ Returns("SetUpPipes", "kUnknownError")
              /\ fds_to_remap' = options
              /\ UNCHANGED <<read_file_, write_file_, child_ends_, table,
                             cloexec, setups>>
           \/ /\ protocol_mode_ = kAsciizProtocolMode
              /\ Returns("SetUpPipes", "kUnknownError")
              /\ fds_to_remap' = options
              /\ \/ UNCHANGED table
                 \/ /\ setups < MaxSetUps
                    /\ Cardinality(FreeFds(table)) >= 2
                    /\ table' = AfterFailure(c2d.table, table)
              /\ UNCHANGED <<read_file_, write_file_, child_ends_, cloexec,
                             setups>>
           \/ /\ protocol_mode_ = kAsciizProtocolMode
              /\ setups < MaxSetUps
              /\ Cardinality(FreeFds(table)) >= 4
              /\ Len(options) + 2 <= MaxRemap
              /\ Returns("SetUpPipes", "kOk")
              /\ fds_to_remap' = options \o Remap(c2d, d2c)
              /\ child_ends_' = <<d2c.read, c2d.write>>
              /\ read_file_' = c2d.read
              /\ write_file_' = d2c.write
              /\ table' = Close(d2c.table, replaced)
              /\ cloexec' = (cloexec \cup {c2d.read, d2c.write}) \ replaced
              /\ setups' = setups + 1
    /\ UNCHANGED <<protocol_mode_, connection_, sockets, child, alive>>

BuildSocket ==
    /\ alive
    /\ \/ /\ protocol_mode_ # kAsciizProtocolMode \/ ~PipesAreInitialized
          /\ Returns("BuildSocket", "kUnknownError")
          /\ UNCHANGED <<read_file_, write_file_, connection_, table,
                         cloexec>>
       \/ /\ protocol_mode_ = kAsciizProtocolMode
          /\ PipesAreInitialized
          /\ Returns("BuildSocket", "kOk")
          /\ connection_' = [read |-> read_file_, write |-> write_file_]
          /\ read_file_' = Invalid
          /\ write_file_' = Invalid
          /\ LET old == IF connection_ = Invalid THEN {}
                        ELSE {connection_.read, connection_.write}
             IN  /\ table' = Close(table, old)
                 /\ cloexec' = cloexec \ old
    /\ UNCHANGED <<protocol_mode_, child_ends_, sockets, fds_to_remap,
                   setups, child, alive>>

CloseChildEndpoints ==
    /\ alive
    /\ Returns("CloseChildEndpoints", "kOk")
    /\ table' = Close(table, ChildEndpoints(child_ends_))
    /\ child_ends_' =
           [i \in 1..2 |-> IF child_ends_[i] \in ChildEndpoints(child_ends_)
                           THEN Invalid ELSE child_ends_[i]]
    /\ UNCHANGED <<protocol_mode_, read_file_, write_file_, connection_,
                   sockets, fds_to_remap, cloexec, setups, child, alive>>

TakeSocket ==
    /\ alive
    /\ Returns("TakeSocket", "kOk")
    /\ sockets' = sockets \cup ({connection_} \ {Invalid})
    /\ connection_' = Invalid
    /\ UNCHANGED <<protocol_mode_, read_file_, write_file_, child_ends_,
                   fds_to_remap, table, cloexec, setups, child, alive>>

\* ~PipeBuilder: every member closes what it holds.
Destructor ==
    /\ alive
    /\ alive' = FALSE
    /\ Returns("~PipeBuilder", "kOk")
    /\ LET held == {read_file_, write_file_, child_ends_[1], child_ends_[2]}
                       \cup (IF connection_ = Invalid THEN {}
                             ELSE {connection_.read, connection_.write})
       IN  /\ table' = Close(table, held)
           /\ cloexec' = cloexec \ held
    /\ read_file_' = Invalid
    /\ write_file_' = Invalid
    /\ child_ends_' = <<Invalid, Invalid>>
    /\ connection_' = Invalid
    /\ UNCHANGED <<protocol_mode_, sockets, fds_to_remap, setups, child>>

\* PipeBuilder(): nothing is held and no mode is set.
Constructor ==
    /\ ~alive
    /\ alive' = TRUE
    /\ protocol_mode_' = ""
    /\ Returns("PipeBuilder", "kOk")
    /\ UNCHANGED <<read_file_, write_file_, child_ends_, connection_,
                   sockets, fds_to_remap, table, cloexec, setups, child>>

-----------------------------------------------------------------------------
(* The caller                                                              *)

\* The descriptor the options give the child at a target: that of the last
\* pair that names the target.
SourceOf(target) ==
    LET pairs == SelectSeq(fds_to_remap, LAMBDA p : p[2] = target)
    IN  IF pairs = <<>> THEN Invalid ELSE Last(pairs)[1]

\* The caller launches the browser with the options.  The launch fails when
\* a descriptor of the options is not open.
Launch ==
    /\ \A target \in Targets :
           SourceOf(target) # Invalid /\ table[SourceOf(target)] # Free
    /\ child' = [target \in Targets |-> table[SourceOf(target)]]
    /\ UNCHANGED <<protocol_mode_, read_file_, write_file_, child_ends_,
                   connection_, sockets, fds_to_remap, table, cloexec,
                   setups, alive, last>>

\* The caller destroys a socket it took.
DropSocket(socket) ==
    /\ socket \in sockets
    /\ sockets' = sockets \ {socket}
    /\ table' = Close(table, {socket.read, socket.write})
    /\ cloexec' = cloexec \ {socket.read, socket.write}
    /\ UNCHANGED <<protocol_mode_, read_file_, write_file_, child_ends_,
                   connection_, fds_to_remap, setups, alive, child, last>>

-----------------------------------------------------------------------------

Init ==
    /\ protocol_mode_ = ""
    /\ read_file_ = Invalid
    /\ write_file_ = Invalid
    /\ child_ends_ = <<Invalid, Invalid>>
    /\ connection_ = Invalid
    /\ sockets = {}
    /\ fds_to_remap = <<>>
    /\ table = [fd \in Fd |-> Free]
    /\ cloexec = {}
    /\ setups = 0
    /\ alive = TRUE
    /\ child = [target \in Targets |-> Free]
    /\ last = [method |-> "PipeBuilder", code |-> "kOk"]

Next ==
    \/ \E mode \in Modes : SetProtocolMode(mode)
    \/ \E fresh \in BOOLEAN : SetUpPipes(fresh)
    \/ BuildSocket
    \/ CloseChildEndpoints
    \/ TakeSocket
    \/ Destructor
    \/ Constructor
    \/ Launch
    \/ \E socket \in sockets : DropSocket(socket)

Spec == Init /\ [][Next]_vars

-----------------------------------------------------------------------------

\* The holders of descriptors, one entry for each descriptor held.
Holders ==
    SelectSeq(<<read_file_, write_file_, child_ends_[1], child_ends_[2]>>
                  \o (IF connection_ = Invalid THEN <<>>
                      ELSE <<connection_.read, connection_.write>>)
                  \o FoldSet(LAMBDA socket, held :
                                 held \o <<socket.read, socket.write>>,
                             <<>>, sockets),
              LAMBDA fd : fd # Invalid)

TypeOK ==
    /\ protocol_mode_ \in Modes
    /\ read_file_ \in Fd \cup {Invalid}
    /\ write_file_ \in Fd \cup {Invalid}
    /\ child_ends_ \in Seq(Fd \cup {Invalid}) /\ Len(child_ends_) = 2
    /\ connection_ \in Connection \cup {Invalid}
    /\ sockets \subseteq Connection
    /\ fds_to_remap \in Seq(Fd \X Targets) /\ Len(fds_to_remap) <= MaxRemap
    /\ table \in [Fd -> End \cup {Free}]
    /\ cloexec \subseteq Fd
    /\ setups \in 0..MaxSetUps
    /\ alive \in BOOLEAN
    /\ child \in [Targets -> End \cup {Free}]
    /\ last.code \in {"kOk", "kUnknownError"}

\* Ownership in PipeBuilder is by ScopedFD and File, across SetUpPipes that
\* fails half-way, SetUpPipes and BuildSocket called again, TakeSocket and
\* the destructor: every open descriptor has exactly one holder and every
\* holder holds an open descriptor, so nothing leaks, nothing is closed
\* twice and nothing is used after it was closed.
EveryDescriptorHasOneHolder ==
    /\ IsInjective(Holders)
    /\ ToSet(Holders) = Fd \ FreeFds(table)

\* SetUpPipes pairs driver_to_chrome's read end with kReadFD and
\* chrome_to_driver's write end with kWriteFD: a child launched with the
\* options reads at 3 what the driver writes and writes at 4 what the driver
\* reads, on pipes of one call of SetUpPipes, however often SetUpPipes and
\* CloseChildEndpoints were called on the options before.
ChildIsWired ==
    child["kReadFD"] # Free =>
        /\ child["kReadFD"].pipe = "driver_to_chrome"
        /\ child["kReadFD"].side = "read"
        /\ child["kWriteFD"].pipe = "chrome_to_driver"
        /\ child["kWriteFD"].side = "write"
        /\ child["kReadFD"].setup = child["kWriteFD"].setup

\* CloseChildEndpoints closes both of the driver's copies of the child's
\* ends, whichever call of SetUpPipes they came from: when the child exits,
\* no write end of chrome_to_driver is left open in the driver and its read
\* returns the end of the stream.
DriverSeesChildExit ==
    last.method = "CloseChildEndpoints"
    => \A fd \in Fd \ FreeFds(table) :
           ~(table[fd].pipe = "chrome_to_driver" /\ table[fd].side = "write")

=============================================================================

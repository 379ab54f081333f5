----------------------------- MODULE WriteBuffer -----------------------------
(***************************************************************************)
(* Writing through event_proc (cpp/src/event_proc.cpp) and client_socket   *)
(* (cpp/src/client_socket.cpp): write() goes to the socket directly and    *)
(* buffers what the socket does not take; the write event flushes the      *)
(* buffer before the application hears of it.                              *)
(*                                                                         *)
(* A byte is its position in what the application gave, so that a lost, a  *)
(* doubled or a reordered byte shows.  The peer reads and sends nothing.   *)
(* The registration of the write event always succeeds.                    *)
(***************************************************************************)
EXTENDS Integers, Sequences

CONSTANTS MaxLen,  (* bound of the model: the longest write()              *)
          MaxBytes (* bound of the model: the bytes given altogether       *)

ASSUME WriteAssumption == MaxLen \in Nat /\ MaxBytes \in Nat

VARIABLES kind,    (* the class, which differ in the write event           *)
          oneshot, (* NIO_EVENT_F_ONESHOT                                  *)
          buf,     (* *buf_                                                *)
          watch,   (* the kernel's entry, as far as writing is concerned   *)
          handler, (* the handler that runs, wrote for an on_write that    *)
                   (* has written                                          *)
          closing, (* close_await was called                               *)
          wire,    (* what the socket took                                 *)
          given,   (* history: how many bytes write() took over            *)
          full     (* history: a write() found the socket full, EAGAIN      *)

writeVars == <<kind, oneshot, buf, watch, handler, closing, wire, given, full>>

\* The byte before the caller's data, whatever it is.
STRAY == 0

\* Not watched; watched; watched with EPOLLONESHOT; and that one spent.
Watches == {"off", "on", "once", "spent"}

WriteTypeOK ==
    /\ kind \in {"event_proc", "client_socket"}
    /\ oneshot \in BOOLEAN
    /\ buf \in Seq(0..MaxBytes)
    /\ watch \in Watches /\ (watch \in {"once", "spent"} => oneshot)
    /\ handler \in {"none", "on_write", "wrote", "on_error"}
    /\ closing \in BOOLEAN
    /\ wire \in Seq(0..MaxBytes)
    /\ given \in 0..MaxBytes
    /\ full \in BOOLEAN

WriteInit ==
    /\ kind \in {"event_proc", "client_socket"}
    /\ oneshot \in BOOLEAN
    /\ buf = <<>>
    /\ watch = "off"
    /\ handler = "none"
    /\ closing = FALSE
    /\ wire = <<>>
    /\ given = 0
    /\ full = FALSE

-----------------------------------------------------------------------------
(***************************************************************************)
(* write().                                                                *)
(***************************************************************************)
\* A handler that has written knows that more is to come.
Wrote == handler' = IF handler = "on_write" THEN "wrote" ELSE handler

Data(len) == [i \in 1..len |-> given + i]

FromOneLater(s, n) == SubSeq(s, n + 2, Len(s))   \* slip: off by one

From(s, n) == SubSeq(s, n + 1, Len(s))

\* The application may write in every handler, and between two waits.
MayWrite(len) == ~closing /\ given + len <= MaxBytes

\* Data that is still buffered goes first.
WriteBehind(len) ==
    /\ MayWrite(len)
    /\ buf # <<>>
    /\ buf' = buf \o Data(len)
    /\ given' = given + len
    /\ Wrote
    /\ UNCHANGED <<kind, oneshot, watch, closing, wire, full>>

\* Slip: the write event is not awaited for the rest.
WriteThroughUnwatched(len, n) ==
    /\ MayWrite(len)
    /\ buf = <<>>
    /\ wire' = wire \o SubSeq(Data(len), 1, n)
    /\ buf' = From(Data(len), n)
    /\ given' = given + len
    /\ Wrote
    /\ UNCHANGED <<kind, oneshot, watch, closing, full>>

\* The socket takes n bytes, one at least.
WriteThrough(len, n) ==
    /\ MayWrite(len)
    /\ buf = <<>>
    /\ wire' = wire \o SubSeq(Data(len), 1, n)
    /\ buf' = From(Data(len), n)
    /\ watch' = IF n < len THEN "on" ELSE watch
    /\ given' = given + len
    /\ Wrote
    /\ UNCHANGED <<kind, oneshot, closing, full>>

\* Slip: len bytes are appended from data + ret on.
WriteFullShort(len) ==
    /\ MayWrite(len)
    /\ buf = <<>>
    /\ buf' = <<STRAY>> \o SubSeq(Data(len), 1, len - 1)
    /\ watch' = "on"
    /\ given' = given + len
    /\ full' = TRUE
    /\ Wrote
    /\ UNCHANGED <<kind, oneshot, closing, wire>>

\* It takes none (EAGAIN): ret is -1, and the code appends the len - ret bytes
\* at data + ret, and returns -1.
WriteFull(len) ==
    /\ MayWrite(len)
    /\ buf = <<>>
    /\ buf' = <<STRAY>> \o Data(len)
    /\ watch' = "on"
    /\ given' = given + len
    /\ full' = TRUE
    /\ Wrote
    /\ UNCHANGED <<kind, oneshot, closing, wire>>

\* Another error: -1 is returned and nothing is kept.
WriteFails(len) == MayWrite(len) /\ buf = <<>> /\ UNCHANGED writeVars

-----------------------------------------------------------------------------
(***************************************************************************)
(* The write event: flush(), then the handler or not.                      *)
(***************************************************************************)
Writable == handler = "none" /\ ~closing /\ watch \in {"on", "once"}

AfterEvent == IF watch = "once" THEN "spent" ELSE watch

\* Whether on_write is called when flush() left the buffer so.
CallsClient(after) == after # <<>>      \* slip: client_socket's test

Calls(after) == IF kind = "event_proc" THEN after = <<>> ELSE after # <<>>

\* flush() with n bytes taken, none on EAGAIN.
WriteEvent(n) ==
    /\ Writable
    /\ wire' = wire \o SubSeq(buf, 1, n)
    /\ buf' = From(buf, n)
    /\ watch' = AfterEvent
    /\ handler' = IF buf = <<>> \/ (n > 0 /\ Calls(buf'))
                  THEN "on_write" ELSE "none"
    /\ UNCHANGED <<kind, oneshot, closing, given, full>>

\* A client_socket may have no on_error handler.
FlushFails ==
    /\ Writable
    /\ buf # <<>>
    /\ watch' = AfterEvent
    /\ handler' \in {"on_error"} \cup {h \in {"none"} : kind = "client_socket"}
    /\ UNCHANGED <<kind, oneshot, buf, closing, wire, given, full>>

HandlerReturns ==
    /\ handler # "none"
    /\ handler' = "none"
    /\ UNCHANGED <<kind, oneshot, buf, watch, closing, wire, given, full>>

-----------------------------------------------------------------------------
(***************************************************************************)
(* The application's other calls.                                          *)
(***************************************************************************)
WriteAwait ==
    /\ ~closing
    /\ watch' = "on"
    /\ UNCHANGED <<kind, oneshot, buf, handler, closing, wire, given, full>>

\* read_await arms the shared entry again, with EPOLLONESHOT in that mode.
ReadAwait ==
    /\ ~closing
    /\ watch' = IF watch = "off" THEN "off" ELSE IF oneshot THEN "once" ELSE "on"
    /\ UNCHANGED <<kind, oneshot, buf, handler, closing, wire, given, full>>

\* The application gives up writing when it hears that it has been done.
WriteDisable ==
    /\ handler = "on_write"
    /\ watch' = "off"
    /\ UNCHANGED <<kind, oneshot, buf, handler, closing, wire, given, full>>

\* on_error's default in event_proc, or the application.
CloseAwait ==
    /\ ~closing
    /\ closing' = TRUE
    /\ watch' = "off"
    /\ UNCHANGED <<kind, oneshot, buf, handler, wire, given, full>>

-----------------------------------------------------------------------------
WriteNext ==
    \/ \E len \in 1..MaxLen :
          \/ WriteBehind(len)
          \/ \E n \in 1..len : WriteThrough(len, n)
          \/ WriteFull(len)
          \/ WriteFails(len)
    \/ \E n \in 0..Len(buf) : WriteEvent(n)
    \/ FlushFails
    \/ HandlerReturns
    \/ WriteAwait
    \/ ReadAwait
    \/ WriteDisable
    \/ CloseAwait

WriteSpec == WriteInit /\ [][WriteNext]_writeVars

\* The loop reports a socket that is watched, handlers return, and the peer
\* reads on, so that a socket that is watched for ever takes a byte at last.
FairWriteSpec ==
    /\ WriteSpec
    /\ WF_writeVars(HandlerReturns)
    /\ SF_writeVars(\E n \in 1..Len(buf) : WriteEvent(n))

-----------------------------------------------------------------------------
(***************************************************************************)
(* Properties.                                                             *)
(***************************************************************************)

\* What the socket took and what is buffered are together what the application
\* gave: in order, nothing lost, nothing doubled, nothing added.
StreamWhole == wire \o buf = [i \in 1..given |-> i]

\* They are, as long as no write() found the socket full.
StreamIntact == full \/ StreamWhole

\* When one did, they are but for bytes that are not the application's: each byte
\* that was given is there, once, and behind those given before it.
GivenIntact ==
    LET s == wire \o buf
    IN  /\ WriteTypeOK
        /\ {s[i] : i \in DOMAIN s} \ {STRAY} = 1..given
        /\ \A i, j \in DOMAIN s :
              i < j /\ s[i] # STRAY /\ s[j] # STRAY => s[i] < s[j]

\* on_write is called when all is written, and not before.
OnWriteIsLast == handler # "on_write" /\ handler' = "on_write" => buf' = <<>>

\* event_proc calls it so.
ProcTold == [][kind = "event_proc" => OnWriteIsLast]_writeVars

\* As long as event_proc has data buffered the loop watches for the write event,
\* also when the application gives up writing in on_write.
PendingIsWatched == kind = "event_proc" /\ buf # <<>> /\ ~closing => watch # "off"

\* What event_proc has buffered is written in the end.  (In the oneshot mode the
\* event of a partial flush may spend the registration, so this is for the
\* level-triggered mode.)
Delivered ==
    kind = "event_proc" /\ ~oneshot /\ buf # <<>> ~> buf = <<>> \/ closing
=============================================================================

-------------------------------- MODULE CgiConn --------------------------------
(***************************************************************************)
(* ProcessPool/process_pool/cgin_conn.cpp: a connection of the process     *)
(* pool, that reads a line and runs the program it names.  A byte is "r"   *)
(* or "n" (the two of the line's end) or "x".  The socket does not block   *)
(* and is edge-triggered, so process reads until there is nothing more.    *)
(***************************************************************************)
EXTENDS Naturals, Sequences

CONSTANTS
    BUFFER_SIZE,
    MaxSent         \* bound on the bytes a client sends

ASSUME CgiConnAssumption == BUFFER_SIZE \in Nat \ {0, 1} /\ MaxSent \in Nat

VARIABLES
    sent,           \* history: all the client has sent
    kernel,         \* bytes that have come and were not received
    peerClosed,
    m_buf,          \* m_buf[0 .. m_read_idx - 1]
    conn,           \* idle, reading, closed, removed by an error
    program         \* file_name the child runs, or none

cgiVars == <<sent, kernel, peerClosed, m_buf, conn, program>>

NoProgram == <<"none">>

cgi_init ==
    /\ sent = << >> /\ kernel = << >> /\ peerClosed = FALSE
    /\ m_buf = << >> /\ conn = "idle" /\ program = NoProgram

(* The client.                                                             *)
ClientSends(b) ==
    /\ ~ peerClosed /\ Len(sent) < MaxSent
    /\ sent' = Append(sent, b) /\ kernel' = Append(kernel, b)
    /\ UNCHANGED <<peerClosed, m_buf, conn, program>>

ClientCloses ==
    /\ ~ peerClosed /\ peerClosed' = TRUE
    /\ UNCHANGED <<sent, kernel, m_buf, conn, program>>

(* epoll reports the socket.                                               *)
process ==
    /\ conn = "idle" /\ (kernel # << >> \/ peerClosed)
    /\ conn' = "reading"
    /\ UNCHANGED <<sent, kernel, peerClosed, m_buf, program>>

\* Mutant: the search starts after the first new byte.
LineEnd_skips(buf, idx) ==
    LET ends == {i \in idx + 1 .. Len(buf) - 1 : buf[i] = "r" /\ buf[i + 1] = "n"}
    IN  IF ends = {} THEN Len(buf) ELSE CHOOSE i \in ends : \A j \in ends : i <= j

(* The first position from idx on, counted from 0, that ends "\r\n";       *)
(* the length of buf when there is none.                                   *)
LineEnd(buf, idx) ==
    LET ends == {i \in idx .. Len(buf) - 1 : i >= 1 /\ buf[i] = "r" /\ buf[i + 1] = "n"}
    IN  IF ends = {} THEN Len(buf) ELSE CHOOSE i \in ends : \A j \in ends : i <= j

(* One round of the loop: recv into what is left of the buffer, then the   *)
(* search.  A full buffer receives 0, as does the end of the stream.  The  *)
(* connection is closed whatever becomes of the program: it does not       *)
(* exist, fork fails, or a child has the socket as its standard output.    *)
CgiRound ==
    /\ conn = "reading"
    /\ LET room == BUFFER_SIZE - 1 - Len(m_buf)
       IN  \/ /\ room = 0 \/ (kernel = << >> /\ peerClosed)         \* ret == 0
              /\ conn' = "closed"
              /\ UNCHANGED <<kernel, m_buf, program>>
           \/ /\ room > 0 /\ kernel = << >> /\ ~ peerClosed         \* EAGAIN
              /\ conn' = "idle"
              /\ UNCHANGED <<kernel, m_buf, program>>
           \/ /\ room > 0                                           \* another error
              /\ conn' = "error"
              /\ UNCHANGED <<kernel, m_buf, program>>
           \/ /\ room > 0 /\ kernel # << >>
              /\ m_buf' = m_buf \o SubSeq(kernel, 1, IF Len(kernel) < room THEN Len(kernel) ELSE room)
              /\ kernel' = SubSeq(kernel, room + 1, Len(kernel))
              /\ LET idx == LineEnd(m_buf', Len(m_buf))
                 IN  IF idx = Len(m_buf') THEN UNCHANGED <<conn, program>>
                     ELSE /\ conn' = "closed"
                          /\ program' \in {SubSeq(m_buf', 1, idx - 1), NoProgram}
    /\ UNCHANGED <<sent, peerClosed>>

CgiNext == (\E b \in {"r", "n", "x"} : ClientSends(b)) \/ ClientCloses \/ process \/ CgiRound

CgiSpec == cgi_init /\ [][CgiNext]_cgiVars

-----------------------------------------------------------------------------
(* CgiOneProgram: however the bytes come in, the program run is the first  *)
(* line of what the client sent, complete; while the connection is open no *)
(* line has been received without being acted on; and it is closed only by *)
(* an error, at the end of the stream, after a line, or because a line is  *)
(* longer than the buffer - which the code takes for the end of the        *)
(* stream.                                                                 *)
CgiOneProgram ==
    LET first == LineEnd(sent, 0)
        ended == first < Len(sent)
    IN  /\ program # NoProgram => ended /\ program = SubSeq(sent, 1, first - 1)
        /\ conn \in {"idle", "reading"} =>
               sent = m_buf \o kernel /\ (ended => first >= Len(m_buf))
        /\ conn = "closed" =>
               \/ peerClosed /\ ~ ended
               \/ ended /\ first < Len(m_buf)
               \/ Len(m_buf) = BUFFER_SIZE - 1 /\ (ended => first >= Len(m_buf))
=============================================================================

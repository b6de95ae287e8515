------------------------------ MODULE TextScreen ------------------------------
(* The scrolling text screens (ui/ncurses/nc-textscreen.c) that show the status *)
(* log (nc-statuslog.c) and the system information (nc-sysinfo.c).  A line is  *)
(* known by its number.                                                        *)
EXTENDS Naturals, Integers

CONSTANTS MaxStatus,  \* max_status_entry
          MaxMessages, \* bound on status messages
          Rows,       \* getmaxy(): heights a terminal may have
          Sizes       \* lines of a system information

VARIABLES kind,       \* the screen shown: "none", "log", "sysinfo"
          lines,      \* n_lines
          top,        \* scroll_y
          rows,       \* the window's height
          log,        \* entries linked in the status log
          count,      \* n_status
          cut,        \* the log's head is no longer linked
          messages,   \* messages so far
          read,       \* the line numbers the last step read
          fault
vars == <<kind, lines, top, rows, log, count, cut, messages, read, fault>>

Init == /\ kind = "none" /\ lines = 0 /\ top = 0 /\ rows \in Rows
        /\ log = 0 /\ count = 0 /\ cut = FALSE /\ messages = 0 /\ read = {} /\ fault = "none"
Runs == fault = "none"

\* text_screen_draw()
Min2(a, b) == IF a < b THEN a ELSE b
Drawn(t, n, r) == t..(Min2(r, t + n) - 1)

\* statuslog_append_steal().  At the limit it unlinks the list's head, not the
\* first entry; adding the next entry links it again for a moment.
Status ==
    /\ Runs /\ messages < MaxMessages /\ messages' = messages + 1 /\ log' = log + 1
    /\ cut' = (count >= MaxStatus)
    /\ count' = IF count >= MaxStatus THEN count ELSE count + 1
    /\ lines' = IF kind = "log" THEN lines + 1 ELSE lines
    /\ read' = IF kind = "log" THEN Drawn(top, lines + 1, rows) ELSE {}
    /\ UNCHANGED <<kind, top, rows, fault>>

\* cui_show_statuslog(), statuslog_screen_init(): a loop over the entries ends at
\* the head.
ShowLog ==
    /\ Runs /\ kind = "none" /\ kind' = "log" /\ top' = 0
    /\ fault' = IF cut THEN "endless" ELSE fault
    /\ lines' = log /\ read' = Drawn(0, log, rows)
    /\ UNCHANGED <<rows, log, count, cut, messages>>
ShowSysinfo(n) ==
    /\ Runs /\ kind = "none" /\ kind' = "sysinfo" /\ top' = 0 /\ lines' = n
    /\ read' = Drawn(0, n, rows)
    /\ UNCHANGED <<rows, log, count, cut, messages, fault>>

\* sysinfo_screen_update(): the lines are replaced, the position stays.
SysinfoUpdate(n) ==
    /\ Runs /\ kind = "sysinfo" /\ lines' = n /\ read' = Drawn(top, n, rows)
    /\ UNCHANGED <<kind, top, rows, log, count, cut, messages, fault>>

\* text_screen_scroll() by d, which reads the line that comes into view.
Scroll(d) ==
    /\ Runs /\ kind # "none" /\ top + d >= 0 /\ top + d + rows <= lines
    /\ top' = top + d
    /\ read' = {IF d > 0 THEN top + d + rows - 1 ELSE top + d}
    /\ UNCHANGED <<kind, lines, rows, log, count, cut, messages, fault>>

Close == /\ Runs /\ kind # "none" /\ kind' = "none" /\ read' = {}
         /\ UNCHANGED <<lines, top, rows, log, count, cut, messages, fault>>
\* text_screen_resize()
Resize(r) == /\ Runs /\ kind # "none" /\ rows' = r /\ read' = Drawn(top, lines, r)
             /\ UNCHANGED <<kind, lines, top, log, count, cut, messages, fault>>

Next == \/ Status \/ ShowLog \/ Close
        \/ \E n \in Sizes : ShowSysinfo(n) \/ SysinfoUpdate(n)
        \/ \E d \in {-1, 1} : Scroll(d)
        \/ \E r \in Rows : Resize(r)
Spec == Init /\ [][Next]_vars

-----------------------------------------------------------------------------
\* text_screen_draw(), text_screen_scroll(): the status log, to which lines are
\* only added, never reads a line it does not have, at any height and position.
\* (A system information that shrinks while scrolled, and a terminal that grows,
\* do read past the end: their position is not adjusted.)
LogInRange == kind = "log" => \A i \in read : i < lines \/ (top > 0 /\ rows > lines)
=============================================================================

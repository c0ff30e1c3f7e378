-------------------------- MODULE MCSlidingWindow --------------------------
(* Three callers of one limiter, one more than it lets through at a time.  *)
EXTENDS SlidingWindow
CONSTANTS c1, c2, c3
=============================================================================

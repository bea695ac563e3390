---------------------------- MODULE MonitorFlowMC ----------------------------
(* Small tests for MonitorFlow.                                            *)
EXTENDS MonitorFlow

MCHost == <<"north", "west">>

Mem(n) == [kind |-> "mem", no |-> n]
Start(c) == [kind |-> "ilat", no |-> c]

Plain == [NCORES |-> 2,
          files |-> [north |-> <<Mem(1)>>, west |-> <<Mem(1), Start(0), Start(1)>>],
          engines |-> {}, work |-> 0, does |-> {}, traps |-> FALSE,
          dmaFails |-> FALSE, suspends |-> 0, timeout |-> FALSE, prompt |-> TRUE]

Solo == [Plain EXCEPT !.NCORES = 1, !.files =
           [north |-> <<Mem(1)>>, west |-> <<Start(0), Mem(1)>>]]

MCTests == {
  \* the cores write to hosts, in their programs or when a DMA ends
  [Plain EXCEPT !.engines = {"dma"}, !.work = 1, !.does = {"write"}],
  \* a timer that is started again
  [Solo EXCEPT !.engines = {"timer"}, !.work = 1, !.does = {"write", "restart"}],
  \* breakpoints, and core 0 suspended
  [Plain EXCEPT !.engines = {"dma"}, !.work = 1, !.does = {"break"}, !.suspends = 2],
  \* breakpoints, with a timer that is started again and with a slow chip
  [Solo EXCEPT !.engines = {"timer"}, !.work = 2, !.does = {"restart", "break"}],
  [Plain EXCEPT !.work = 1, !.does = {"break"}, !.traps = TRUE, !.prompt = FALSE],
  \* a slow chip
  [Solo EXCEPT !.work = 1, !.does = {"write"}, !.prompt = FALSE],
  \* a DMA that may fail, and the timeout
  [Plain EXCEPT !.engines = {"dma"}, !.dmaFails = TRUE],
  [Plain EXCEPT !.timeout = TRUE]}
=============================================================================

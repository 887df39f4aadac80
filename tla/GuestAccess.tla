------------------------------ MODULE GuestAccess ------------------------------
(***************************************************************************)
(* Everything a guest can do to the hypervisor.  pCPU 0 writes the stage 2 *)
(* tables of all VMs; then the guests run, and an SMC adds to the tables.  *)
(* A load or store reaches memory or, by an access flag fault,             *)
(* vdev_handler, which finds the distributor, the UART or another device;  *)
(* an access to CP15 reaches the timer, an SMC the OP-TEE mediator         *)
(* (do_hyp_trap).                                                          *)
(*                                                                         *)
(* The tables are shared, the states of the devices are not, and no        *)
(* property below is about two devices.  So the guests of one behaviour    *)
(* drive one device only: all interleavings of accesses to it are covered, *)
(* and the product of the devices is not built.                            *)
(***************************************************************************)
EXTENDS VGicd, VTimer, Console, Vdevs, OpteeRpc

CONSTANTS
    GicdPage, UartPage,
    Driven    \* what the guests of some behaviour drive

ASSUME GuestAccessAssumption ==
    /\ {GicdPage, UartPage} \subseteq Pages \ {PageOf[d] : d \in Devices}
    /\ GicdPage # UartPage
    /\ Driven \subseteq {"memory", "gicd", "timer", "uart", "optee"}
    /\ NrVms = NrClients /\ NrVms = NrGuests /\ NrVms >= 2

VARIABLE driver \* what the guests drive

guestAccessVars ==
    <<driver, s2Vars, vdevVars, gicdVars, timerVars, consoleVars, opteeVars>>

Init ==
    /\ driver \in Driven
    /\ S2Init /\ VdevInit /\ GicdInit /\ ConsoleInit /\ OpteeInit
    /\ TimerInit
    /\ driver # "timer" => syscounter = 0

\* vmem_create and vmem_init.
Boot ==
    /\ \E v \in Vms : Create(v) \/ MapPage(v)
    /\ UNCHANGED <<driver, vdevVars, gicdVars, timerVars, consoleVars, opteeVars>>

Drive(what) ==
    /\ driver = what /\ Booted
    /\ UNCHANGED <<driver, s2Vars>>

\* handle_data_abort: to memory or to a device of Vdevs.
MemoryAccess ==
    /\ Drive("memory") /\ VdevNext
    /\ UNCHANGED <<gicdVars, timerVars, consoleVars, opteeVars>>

\* handle_data_abort, vdev_handler: to the distributor, or to the UART.
GicdAccess ==
    /\ Drive("gicd") /\ Emulated(executing, GicdPage) /\ GicdNext
    /\ UNCHANGED <<vdevVars, timerVars, consoleVars, opteeVars>>

UartAccess ==
    /\ Drive("uart") /\ (\A v \in Vms : Emulated(v, UartPage)) /\ ConsoleNext
    /\ UNCHANGED <<vdevVars, gicdVars, timerVars, opteeVars>>

\* emulate_cp15_32 and emulate_cp15_64.
TimerAccess ==
    /\ Drive("timer") /\ TimerNext
    /\ UNCHANGED <<vdevVars, gicdVars, consoleVars, opteeVars>>

\* handle_arm_smccc.  GET_SHM_CONFIG returns when the shared memory is mapped.
Smc ==
    /\ Drive("optee") /\ OpteeNext
    /\ \A v \in Vms : share'[v] # share[v] => mapped[v] = Len(Entries[v])
    /\ UNCHANGED <<vdevVars, gicdVars, timerVars, consoleVars>>

\* The stores of that call, while other pCPUs serve the other guests.
SmcMaps ==
    /\ driver \in {"optee", "memory"}
    /\ \E v \in Vms : MapShm(v)
    /\ UNCHANGED <<driver, vdevVars, gicdVars, timerVars, consoleVars, opteeVars>>

Next ==
    \/ Boot \/ MemoryAccess \/ GicdAccess \/ UartAccess \/ TimerAccess
    \/ Smc \/ SmcMaps

Spec == Init /\ [][Next]_guestAccessVars /\ ConsoleFairness /\ OpteeFairness
=============================================================================

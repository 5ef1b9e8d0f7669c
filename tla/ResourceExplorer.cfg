CONSTANTS
    Resources <- FourResources
    Order <- TheOrder
    Topology <- ThreeTopologies
    Listed <- TheListed
    Queries = {"a", "app:x"}
    MaxEvents = 3
SPECIFICATION Spec
INVARIANTS FiltersAgree ChecksAreOnScreen
PROPERTY SelectionSettles
CHECK_DEADLOCK FALSE

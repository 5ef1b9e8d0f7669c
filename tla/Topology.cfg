SPECIFICATION TopologySpec
CONSTANTS
    MaxSelector = 1
    MaxTraversalDepth = 3
    MaxVisitedValues = 9
    NativeKinds <- Natives
    ClusterScopedKinds <- ClusterScoped
    Uploads <- AllUploads
    ClusterName = "cluster"
    MaxReferences = 3
    UploadSize = 3
    Cap <- CollectionLimits
    MaxCount = 3
    Schemas <- AllSchemas
    Fresh <- FreshManifests
    Values <- FieldValues
    MaxEdits = 4
    Snapshots <- SomeSnapshots
    Filters <- SomeFilters
    SystemNamespaces = {2}
    MaxRowsPerLane = 2
    DropPoints <- SomePoints
    Draggable = {"pod1", "cluster"}
    MaxDrags = 2
    EarlierStores <- SomeStores
INVARIANTS UploadsAreWhole ReadersAgree TheMapIsReadable EveryPathIsShown
PROPERTIES PlacesAreKept
CHECK_DEADLOCK FALSE

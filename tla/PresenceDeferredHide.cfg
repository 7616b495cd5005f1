SPECIFICATION Spec
PROPERTY DeferredHideHappens
